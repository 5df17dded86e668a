------------------------ MODULE DjangoOutboxProofs ------------------------
(***************************************************************************)
(* Machine-checked facts about DjangoOutbox for every set of rows and of   *)
(* processes, every batch size, attempt limit and number of faults, with   *)
(* and without SKIP LOCKED: the exclusivity of leases, although calls      *)
(* outlive their dispatchers, that the store keeps OutboxContract, and     *)
(* that it forgets no row.                                                 *)
(***************************************************************************)
EXTENDS DjangoOutbox, TLAPS

Tokens == Messages \X Nat
Statuses == Kept \cup {"absent", "published", "dead_lettered", "purged"}
Outcomes == {"published", "failed", "dead_lettered"}
Transactions == [lapsed : SUBSET Messages, chosen : SUBSET Messages]
Statements == [token : Tokens, to : Outcomes, delayed : BOOLEAN]
Working == {"publishing", "settling", "cancelling"}

Types ==
  /\ status \in [Messages -> Statuses]
  /\ attempts \in [Messages -> Nat]
  /\ late \in [Messages -> SUBSET Nat]
  /\ pc \in [Dispatchers -> Working \cup {"ready", "leasing", "stopped"}]
  /\ batch \in [Dispatchers -> SUBSET Tokens]
  /\ current \in [Dispatchers -> Tokens \cup {Nothing}]
  /\ tx \in [Dispatchers -> Transactions \cup {Nothing}]
  /\ stmt \in [Dispatchers -> Statements \cup {Nothing}]
  /\ sent \in [Messages -> SUBSET Nat]

(* A dispatcher has tokens while it publishes and settles, and then one of *)
(* them is the current one.                                                *)
Positions ==
  \A d \in Dispatchers :
    /\ pc[d] \in Working => current[d] \in batch[d]
    /\ pc[d] \notin Working => batch[d] = {} /\ current[d] = Nothing

(* A thread does one thing at a time, and nothing while its dispatcher     *)
(* publishes; what it settles for a dispatcher that waits is the current   *)
(* token.  It may still be at work for a dispatcher that was cancelled.    *)
OneCall ==
  \A d \in Dispatchers :
    /\ tx[d] # Nothing => stmt[d] = Nothing /\ pc[d] \notin Working
    /\ stmt[d] # Nothing => pc[d] \notin {"publishing", "leasing"}
    /\ pc[d] \in {"settling", "cancelling"} => stmt[d].token = current[d]

(* Tokens come from leases of their rows; no two dispatchers have the same *)
(* one, the updates that their threads have still to run included.         *)
Tokened ==
  \A d \in Dispatchers :
    /\ \A t \in batch[d] : t[2] \in 1..attempts[t[1]]
    /\ stmt[d] # Nothing => stmt[d].token[2] \in 1..attempts[stmt[d].token[1]]
    /\ \A e \in Dispatchers \ {d} :
         /\ batch[d] \cap batch[e] = {}
         /\ stmt[d] # Nothing => stmt[d].token \notin batch[e]

(* A dispatcher that is on time can settle all of its batch.               *)
OnTime == \A d \in Dispatchers : \A t \in batch[d] : t[2] \notin late[t[1]] => Owned(t)

(* The row locks exclude one another, and the rows stay as they were when  *)
(* they were locked: lapsed, or waiting.                                   *)
Locks ==
  \A d \in Dispatchers :
    /\ \A e \in Dispatchers \ {d} : Locked(d) \cap Locked(e) = {}
    /\ tx[d] # Nothing =>
         /\ \A m \in tx[d].lapsed : Lapsed(m)
         /\ \A m \in tx[d].chosen \ tx[d].lapsed : status[m] \in Waiting

(* What a pending update claims is so.                                     *)
Claims ==
  \A d \in Dispatchers : stmt[d] # Nothing =>
    /\ stmt[d].to = "published" => stmt[d].token[2] \in sent[stmt[d].token[1]]
    /\ stmt[d].to = "dead_lettered" => stmt[d].token[2] >= MaxAttempts

(* The strengthening that makes lease exclusivity inductive.               *)
IInv == Types /\ Positions /\ OneCall /\ Tokened /\ OnTime /\ Locks /\ Claims

-----------------------------------------------------------------------------
LEMMA InitIInv == Init => IInv
BY DEF Init, IInv, Types, Positions, OneCall, Tokened, OnTime, Locks, Claims, Statuses, Working,
  Locked

(* Who holds a late or punctual token of a row at all had it from a lease. *)
LEMMA TokenFacts ==
  ASSUME IInv
  PROVE  /\ \A d \in Dispatchers : \A t \in batch[d] : /\ t[1] \in Messages
                                                       /\ t[2] \in Nat
                                                       /\ t = <<t[1], t[2]>>
         /\ \A d \in Dispatchers : stmt[d] # Nothing =>
              /\ stmt[d].token \in Tokens
              /\ stmt[d].token[1] \in Messages
              /\ stmt[d].to \in Outcomes
         /\ \A d \in Dispatchers : tx[d] # Nothing =>
              tx[d].lapsed \subseteq Messages /\ tx[d].chosen \subseteq Messages
<1>1. \A d \in Dispatchers : \A t \in batch[d] : t \in Messages \X Nat
  BY DEF IInv, Types, Tokens
<1>2. \A d \in Dispatchers : stmt[d] # Nothing => stmt[d] \in Statements
  BY DEF IInv, Types
<1>3. \A d \in Dispatchers : tx[d] # Nothing => tx[d] \in Transactions
  BY DEF IInv, Types
<1>. QED
  BY <1>1, <1>2, <1>3 DEF Statements, Transactions, Tokens

(* A dispatcher gives up its batch, and its transaction or its statement   *)
(* may end without effect.                                                 *)
LEMMA GiveUpStep ==
  ASSUME IInv, NEW d \in Dispatchers,
         UNCHANGED <<status, attempts, late, sent>>,
         Abandon(d) \/ UNCHANGED <<pc, batch, current>>,
         tx' = tx \/ tx' = [tx EXCEPT ![d] = Nothing],
         stmt' = stmt \/ (Abandon(d) /\ stmt' = [stmt EXCEPT ![d] = Nothing]),
         pc[d] = "leasing" => Abandon(d) \/ tx' = tx
  PROVE  IInv'
<1>. USE DEF IInv
<1>1. Types'
  BY DEF Abandon, Types
<1>2. \A e \in Dispatchers :
        /\ batch'[e] = batch[e] \/ batch'[e] = {}
        /\ stmt'[e] = stmt[e] \/ stmt'[e] = Nothing
        /\ tx'[e] = tx[e] \/ tx'[e] = Nothing
        /\ \/ pc'[e] = pc[e] /\ batch'[e] = batch[e] /\ current'[e] = current[e] /\ stmt'[e] = stmt[e]
           \/ pc'[e] = "stopped" /\ batch'[e] = {} /\ current'[e] = Nothing
  BY DEF Abandon, Types
<1>3. Positions'
  BY <1>2 DEF Positions, Working
<1>4. OneCall'
  BY <1>2 DEF OneCall, Working
<1>5. Tokened'
  <2>. SUFFICES ASSUME NEW e \in Dispatchers
                PROVE  /\ \A t \in batch'[e] : t[2] \in 1..attempts[t[1]]
                       /\ stmt'[e] # Nothing => stmt'[e].token[2] \in 1..attempts[stmt'[e].token[1]]
                       /\ \A f \in Dispatchers \ {e} :
                            /\ batch'[e] \cap batch'[f] = {}
                            /\ stmt'[e] # Nothing => stmt'[e].token \notin batch'[f]
    BY DEF Tokened
  <2>. QED
    BY <1>2 DEF Tokened
<1>6. OnTime'
  BY <1>2 DEF OnTime, Owned
<1>7. Locks'
  BY <1>2 DEF Locks, Locked, Lapsed
<1>8. Claims'
  BY <1>2 DEF Claims
<1>. QED
  BY <1>1, <1>3, <1>4, <1>5, <1>6, <1>7, <1>8

(* Cancelled while it awaits its thread, dead, or rolled back.             *)
LEMMA AbandonStep ==
  ASSUME IInv, NEW d \in Dispatchers, CancelCall(d) \/ Crash(d) \/ RollBackLease(d)
  PROVE  IInv'
<1>1. UNCHANGED <<status, attempts, late, sent>>
  BY DEF CancelCall, Crash, RollBackLease, rowVars
<1>2. Abandon(d) \/ UNCHANGED <<pc, batch, current>>
  BY DEF CancelCall, Crash, RollBackLease, workVars
<1>3. tx' = tx \/ tx' = [tx EXCEPT ![d] = Nothing]
  BY DEF CancelCall, Crash, RollBackLease
<1>4. stmt' = stmt \/ (Abandon(d) /\ stmt' = [stmt EXCEPT ![d] = Nothing])
  BY DEF CancelCall, Crash, RollBackLease
<1>5. pc[d] = "leasing" => Abandon(d) \/ tx' = tx
  BY DEF CancelCall, Crash, RollBackLease
<1>. QED
  BY <1>1, <1>2, <1>3, <1>4, <1>5, GiveUpStep

LEMMA StopStep ==
  ASSUME IInv, NEW d \in Dispatchers, Stop(d) \/ Restart(d)
  PROVE  IInv'
<1>. USE DEF IInv
<1>1. /\ UNCHANGED <<status, attempts, late, batch, current, tx, stmt, sent>>
      /\ pc[d] \in {"ready", "stopped"}
      /\ \E s \in {"ready", "stopped"} : pc' = [pc EXCEPT ![d] = s]
  BY DEF Stop, Restart, rowVars
<1>2. Types'
  BY <1>1 DEF Types
<1>3. \A e \in Dispatchers : \/ pc'[e] = pc[e]
                             \/ pc[e] \in {"ready", "stopped"} /\ pc'[e] \in {"ready", "stopped"}
  BY <1>1 DEF Types
<1>4. Positions' /\ OneCall'
  BY <1>1, <1>3 DEF Positions, OneCall, Working
<1>5. Tokened' /\ OnTime' /\ Locks' /\ Claims'
  BY <1>1 DEF Tokened, OnTime, Owned, Locks, Locked, Lapsed, Claims
<1>. QED
  BY <1>2, <1>4, <1>5

(* mark_published or mark_failed is called for the current token.          *)
LEMMA MarkStep ==
  ASSUME IInv, NEW d \in Dispatchers, EndPublish(d) \/ CancelPublish(d)
  PROVE  IInv'
<1>. USE DEF IInv
<1>1. PICK where \in {"settling", "cancelling"}, to \in Outcomes, delayed \in BOOLEAN :
        /\ pc[d] = "publishing"
        /\ Mark(d, where, to, delayed)
        /\ to = "published" => current[d][2] \in sent[current[d][1]]
        /\ to = "dead_lettered" => current[d][2] >= MaxAttempts
  <2>1. CASE PublishReturns(d)
    BY <2>1 DEF PublishReturns, Outcomes
  <2>2. CASE PublishRaises(d)
    BY <2>2 DEF PublishRaises, Outcomes
  <2>3. CASE CancelPublish(d)
    BY <2>3 DEF CancelPublish, Outcomes
  <2>. QED
    BY <2>1, <2>2, <2>3 DEF EndPublish
<1>. DEFINE s == [token |-> current[d], to |-> to, delayed |-> delayed]
<1>2. /\ stmt' = [stmt EXCEPT ![d] = s]
      /\ pc' = [pc EXCEPT ![d] = where]
      /\ UNCHANGED <<status, attempts, late, batch, current, tx, sent>>
  BY <1>1 DEF Mark, rowVars
<1>3. current[d] \in batch[d]
  BY <1>1 DEF Positions, Working
<1>4. current[d] \in Tokens
  BY <1>3 DEF Types
<1>5. s \in Statements
  BY <1>1, <1>4 DEF Statements
<1>6. Types'
  <2>1. stmt' \in [Dispatchers -> Statements \cup {Nothing}]
    BY <1>2, <1>5 DEF Types
  <2>2. pc' \in [Dispatchers -> Working \cup {"ready", "leasing", "stopped"}]
    BY <1>2 DEF Types, Working
  <2>. QED
    BY <1>2, <2>1, <2>2 DEF Types
<1>7. \A e \in Dispatchers : /\ stmt'[e] = IF e = d THEN s ELSE stmt[e]
                             /\ pc'[e] = IF e = d THEN where ELSE pc[e]
  BY <1>2 DEF Types
<1>8. Positions'
  BY <1>2, <1>3, <1>7 DEF Positions, Working
<1>9. tx[d] = Nothing
  BY <1>1 DEF OneCall, Working
<1>10. stmt[d] = Nothing
  BY <1>1 DEF OneCall
<1>11. OneCall'
  BY <1>2, <1>7, <1>9 DEF OneCall, Working
<1>12. Tokened'
  BY <1>2, <1>3, <1>7 DEF Tokened
<1>13. OnTime' /\ Locks'
  BY <1>2 DEF OnTime, Owned, Locks, Locked, Lapsed
<1>14. Claims'
  BY <1>1, <1>2, <1>7 DEF Claims
<1>. QED
  BY <1>6, <1>8, <1>11, <1>12, <1>13, <1>14

(* The transport accepts the row that is being published.                  *)
LEMMA SendStep ==
  ASSUME IInv, NEW d \in Dispatchers, Send(d)
  PROVE  IInv'
<1>. USE DEF IInv
<1>1. current[d] \in batch[d]
  BY DEF Send, Positions, Working
<1>2. current[d][1] \in Messages /\ current[d][2] \in Nat
  BY <1>1, TokenFacts
<1>3. /\ sent' = [sent EXCEPT ![current[d][1]] = @ \cup {current[d][2]}]
      /\ UNCHANGED <<status, attempts, late, pc, batch, current, tx, stmt>>
  BY DEF Send, rowVars, workVars
<1>4. Types'
  BY <1>2, <1>3 DEF Types
<1>5. \A m \in Messages : sent[m] \subseteq sent'[m]
  BY <1>3 DEF Types
<1>6. Claims'
  BY <1>3, <1>5, TokenFacts DEF Claims
<1>. QED
  BY <1>3, <1>4, <1>6 DEF Positions, OneCall, Tokened, OnTime, Owned, Locks, Locked, Lapsed

(* Rows appear, become due, are purged or outlive their lease: a locked    *)
(* row is none of those that change their status.                          *)
LEMMA RowStep ==
  ASSUME IInv,
         \/ \E m \in Messages : AddInTransaction(m) \/ BecomesDue(m) \/ Lapse(m)
         \/ \E S \in SUBSET Messages : PurgePublished(S)
  PROVE  IInv'
<1>. USE DEF IInv
<1>1. /\ UNCHANGED <<attempts, pc, batch, current, tx, stmt, sent>>
      /\ status' \in [Messages -> Statuses]
      /\ late' \in [Messages -> SUBSET Nat]
      /\ \A m \in Messages : late[m] \subseteq late'[m]
      /\ \A m \in Messages : status'[m] # status[m] => status[m] \notin Kept
  <2>1. CASE \E m \in Messages : AddInTransaction(m)
    BY <2>1 DEF AddInTransaction, workVars, Types, Statuses, Kept, Waiting
  <2>2. CASE \E m \in Messages : BecomesDue(m)
    BY <2>2 DEF BecomesDue, workVars, Types
  <2>3. CASE \E m \in Messages : Lapse(m)
    BY <2>3 DEF Lapse, workVars, Types
  <2>4. CASE \E S \in SUBSET Messages : PurgePublished(S)
    BY <2>4 DEF PurgePublished, workVars, Types, Statuses, Kept, Waiting
  <2>. QED
    BY <2>1, <2>2, <2>3, <2>4
<1>2. Types'
  BY <1>1 DEF Types
<1>3. OnTime'
  <2>. SUFFICES ASSUME NEW d \in Dispatchers, NEW t \in batch[d], t[2] \notin late'[t[1]]
                PROVE  status'[t[1]] = "leased" /\ attempts[t[1]] = t[2]
    BY <1>1 DEF OnTime, Owned
  <2>1. t[1] \in Messages
    BY TokenFacts
  <2>2. Owned(t)
    BY <1>1, <2>1 DEF OnTime
  <2>. QED
    BY <1>1, <2>1, <2>2 DEF Owned, Kept
<1>4. Locks'
  <2>1. \A d \in Dispatchers : tx[d] # Nothing =>
          /\ \A m \in tx[d].lapsed : Lapsed(m)'
          /\ \A m \in tx[d].chosen \ tx[d].lapsed : status'[m] \in Waiting
    BY <1>1, TokenFacts DEF Locks, Lapsed, Kept, Waiting
  <2>. QED
    BY <1>1, <2>1 DEF Locks, Locked
<1>5. Positions' /\ OneCall' /\ Tokened' /\ Claims'
  BY <1>1 DEF Positions, OneCall, Tokened, Claims
<1>. QED
  BY <1>2, <1>3, <1>4, <1>5

(* What Serve leaves to its dispatcher, and to the others.                 *)
LEMMA ServeMoves ==
  ASSUME IInv, NEW d \in Dispatchers, NEW tokens \in SUBSET Tokens, Serve(d, tokens)
  PROVE  /\ pc' \in [Dispatchers -> Working \cup {"ready", "leasing", "stopped"}]
         /\ batch' \in [Dispatchers -> SUBSET Tokens]
         /\ current' \in [Dispatchers -> Tokens \cup {Nothing}]
         /\ \A e \in Dispatchers \ {d} :
              pc'[e] = pc[e] /\ batch'[e] = batch[e] /\ current'[e] = current[e]
         /\ batch'[d] = tokens
         /\ \/ pc'[d] = "ready" /\ tokens = {} /\ current'[d] = Nothing
            \/ pc'[d] = "publishing" /\ current'[d] \in tokens
<1>. USE DEF IInv, Types, Serve, Working
<1>1. CASE tokens = {}
  BY <1>1
<1>2. CASE tokens # {}
  <2>1. PICK t \in tokens : current' = [current EXCEPT ![d] = t]
    BY <1>2
  <2>. QED
    BY <1>2, <2>1
<1>. QED
  BY <1>1, <1>2

(* The query of lease locks rows that no other transaction has locked.     *)
LEMMA BeginLeaseStep ==
  ASSUME IInv, NEW d \in Dispatchers, BeginLease(d)
  PROVE  IInv'
<1>. USE DEF IInv
<1>1. PICK chosen \in SUBSET {m \in FreeRows(d) :
                                (status[m] \in Waiting \/ m \in Expired) /\ due[m]} :
        tx' = [tx EXCEPT ![d] = [lapsed |-> Expired, chosen |-> chosen]]
  BY DEF BeginLease
<1>2. /\ pc[d] = "ready" /\ tx[d] = Nothing /\ stmt[d] = Nothing
      /\ Expired \cap LockedByOthers(d) = {}
      /\ pc' = [pc EXCEPT ![d] = "leasing"]
      /\ UNCHANGED <<status, attempts, late, batch, current, stmt, sent>>
  BY DEF BeginLease, rowVars
<1>. DEFINE t == [lapsed |-> Expired, chosen |-> chosen]
<1>3. t \in Transactions /\ t.lapsed = Expired /\ t.chosen = chosen
  BY DEF Transactions, Expired, FreeRows
<1>4. \A e \in Dispatchers : /\ tx'[e] = IF e = d THEN t ELSE tx[e]
                             /\ pc'[e] = IF e = d THEN "leasing" ELSE pc[e]
  BY <1>1, <1>2 DEF Types
<1>5. Types'
  <2>1. tx' \in [Dispatchers -> Transactions \cup {Nothing}]
    BY <1>1, <1>3 DEF Types
  <2>2. pc' \in [Dispatchers -> Working \cup {"ready", "leasing", "stopped"}]
    BY <1>2 DEF Types
  <2>. QED
    BY <1>2, <2>1, <2>2 DEF Types
<1>6. Positions' /\ OneCall'
  BY <1>2, <1>4 DEF Positions, OneCall, Working
<1>7. Tokened' /\ OnTime' /\ Claims'
  BY <1>2 DEF Tokened, OnTime, Owned, Claims
<1>8. Locks'
  <2>1. \A e \in Dispatchers : e # d => Locked(e)' = Locked(e)
    BY <1>4 DEF Locked
  <2>2. Locked(d)' \subseteq Expired \cup chosen
    BY <1>3, <1>4 DEF Locked
  <2>3. \A e \in Dispatchers \ {d} : Locked(e) \subseteq LockedByOthers(d)
    BY DEF LockedByOthers
  <2>4. (Expired \cup chosen) \cap LockedByOthers(d) = {}
    BY <1>2 DEF FreeRows
  <2>5. \A e, f \in Dispatchers : f # e => Locked(e)' \cap Locked(f)' = {}
    BY <2>1, <2>2, <2>3, <2>4 DEF Locks
  <2>6. \A e \in Dispatchers : tx'[e] # Nothing =>
          /\ \A m \in tx'[e].lapsed : Lapsed(m)
          /\ \A m \in tx'[e].chosen \ tx'[e].lapsed : status[m] \in Waiting
    BY <1>3, <1>4 DEF Locks, Expired
  <2>. QED
    BY <1>2, <2>5, <2>6 DEF Locks, Lapsed
<1>. QED
  BY <1>5, <1>6, <1>7, <1>8

(* The chosen rows are waiting or lapsed when the transaction commits, for *)
(* they were locked: whoever still has a token of one is late, and the new *)
(* tokens are larger than all in use.                                      *)
LEMMA CommitStep ==
  ASSUME IInv, NEW d \in Dispatchers, CommitLease(d)
  PROVE  IInv'
<1>. USE DEF IInv
<1>. DEFINE chosen == tx[d].chosen
            tokens == {<<m, attempts[m] + 1>> : m \in chosen}
<1>1. /\ tx[d] # Nothing
      /\ status' = [m \in Messages |-> IF m \in chosen THEN "leased"
                                       ELSE IF m \in tx[d].lapsed THEN "failed" ELSE status[m]]
      /\ attempts' = [m \in Messages |-> IF m \in chosen THEN attempts[m] + 1 ELSE attempts[m]]
      /\ tx' = [tx EXCEPT ![d] = Nothing]
      /\ UNCHANGED <<late, stmt, sent>>
      /\ IF pc[d] = "leasing" THEN Serve(d, tokens) ELSE UNCHANGED <<pc, batch, current>>
  BY DEF CommitLease, workVars
<1>2. chosen \subseteq Messages /\ tx[d].lapsed \subseteq Messages
  BY <1>1, TokenFacts
<1>3. stmt[d] = Nothing /\ pc[d] \notin Working /\ batch[d] = {}
  BY <1>1 DEF OneCall, Positions
<1>4. tokens \in SUBSET Tokens
  BY <1>2 DEF Types, Tokens
<1>5. \A m \in Messages : attempts'[m] = IF m \in chosen THEN attempts[m] + 1 ELSE attempts[m]
  BY <1>1
<1>6. /\ pc' \in [Dispatchers -> Working \cup {"ready", "leasing", "stopped"}]
      /\ batch' \in [Dispatchers -> SUBSET Tokens]
      /\ current' \in [Dispatchers -> Tokens \cup {Nothing}]
      /\ \A e \in Dispatchers \ {d} :
           pc'[e] = pc[e] /\ batch'[e] = batch[e] /\ current'[e] = current[e]
      /\ batch'[d] \subseteq tokens
      /\ \/ pc'[d] \in {"ready", "stopped"} /\ batch'[d] = {} /\ current'[d] = Nothing
         \/ pc'[d] = "publishing" /\ current'[d] \in batch'[d]
  <2>1. CASE pc[d] = "leasing"
    <3>1. Serve(d, tokens)
      BY <1>1, <2>1
    <3>. QED
      BY <1>4, <3>1, ServeMoves
  <2>2. CASE pc[d] # "leasing"
    <3>1. UNCHANGED <<pc, batch, current>>
      BY <1>1, <2>2
    <3>2. pc[d] \in {"ready", "stopped"}
      BY <1>3, <2>2 DEF Types
    <3>3. current[d] = Nothing
      BY <1>3 DEF Positions
    <3>. QED
      BY <1>3, <3>1, <3>2, <3>3 DEF Types
  <2>. QED
    BY <2>1, <2>2
<1>7. Types'
  <2>1. status' \in [Messages -> Statuses]
    BY <1>1 DEF Types, Statuses, Kept, Waiting
  <2>2. attempts' \in [Messages -> Nat]
    BY <1>1 DEF Types
  <2>3. tx' \in [Dispatchers -> Transactions \cup {Nothing}]
    BY <1>1 DEF Types
  <2>. QED
    BY <1>1, <1>6, <2>1, <2>2, <2>3 DEF Types
<1>8. Positions'
  BY <1>6 DEF Positions, Working
<1>9. OneCall'
  <2>1. tx'[d] = Nothing /\ \A e \in Dispatchers \ {d} : tx'[e] = tx[e]
    BY <1>1 DEF Types
  <2>. QED
    BY <1>1, <1>3, <1>6, <2>1 DEF OneCall
<1>10. \A e \in Dispatchers : \A u \in batch[e] :
         /\ u[1] \in Messages
         /\ u[2] \in 1..attempts[u[1]]
         /\ u[2] \in 1..attempts'[u[1]]
  BY <1>5, TokenFacts DEF Tokened, Types
<1>11. \A e \in Dispatchers : stmt[e] # Nothing =>
         /\ stmt[e].token[1] \in Messages
         /\ stmt[e].token[2] \in 1..attempts[stmt[e].token[1]]
         /\ stmt[e].token[2] \in 1..attempts'[stmt[e].token[1]]
  BY <1>5, TokenFacts DEF Tokened, Types
<1>12. \A u \in tokens : /\ u[1] \in chosen
                         /\ u[2] = attempts[u[1]] + 1
                         /\ u[2] \in 1..attempts'[u[1]]
                         /\ u[2] \notin 1..attempts[u[1]]
  BY <1>2, <1>5 DEF Types
<1>13. Tokened'
  <2>1. \A e \in Dispatchers : /\ \A u \in batch'[e] : u[2] \in 1..attempts'[u[1]]
                               /\ stmt'[e] # Nothing =>
                                    stmt'[e].token[2] \in 1..attempts'[stmt'[e].token[1]]
    BY <1>1, <1>6, <1>10, <1>11, <1>12
  <2>2. \A e \in Dispatchers : /\ batch[e] \cap tokens = {}
                               /\ stmt[e] # Nothing => stmt[e].token \notin tokens
    BY <1>10, <1>11, <1>12
  <2>3. \A e \in Dispatchers : batch'[e] \subseteq IF e = d THEN tokens ELSE batch[e]
    BY <1>6
  <2>4. ASSUME NEW e \in Dispatchers, NEW f \in Dispatchers, f # e
        PROVE  batch'[e] \cap batch'[f] = {}
    BY <2>2, <2>3, <2>4 DEF Tokened
  <2>5. ASSUME NEW e \in Dispatchers, NEW f \in Dispatchers, f # e, stmt[e] # Nothing
        PROVE  stmt[e].token \notin batch'[f]
    BY <2>2, <2>3, <2>5 DEF Tokened
  <2>. QED
    BY <1>1, <2>1, <2>4, <2>5 DEF Tokened
<1>14. \A m \in chosen \cup tx[d].lapsed : Lapsed(m) \/ status[m] \in Waiting
  BY <1>1 DEF Locks
<1>15. OnTime'
  <2>. SUFFICES ASSUME NEW e \in Dispatchers, NEW u \in batch'[e], u[2] \notin late[u[1]]
                PROVE  status'[u[1]] = "leased" /\ attempts'[u[1]] = u[2]
    BY <1>1 DEF OnTime, Owned
  <2>1. CASE u \in tokens
    <3>1. u[1] \in chosen /\ u[2] = attempts[u[1]] + 1 /\ u[1] \in Messages
      BY <1>2, <1>12, <2>1
    <3>. QED
      BY <1>1, <3>1
  <2>2. CASE u \notin tokens
    <3>1. u \in batch[e] /\ u[1] \in Messages
      BY <1>6, <1>10, <2>2
    <3>2. status[u[1]] = "leased" /\ attempts[u[1]] = u[2]
      BY <3>1 DEF OnTime, Owned
    <3>3. ~Lapsed(u[1]) /\ status[u[1]] \notin Waiting
      BY <3>2 DEF Lapsed, Waiting
    <3>4. u[1] \notin chosen \cup tx[d].lapsed
      BY <1>14, <3>3
    <3>. QED
      BY <1>1, <3>1, <3>2, <3>4
  <2>. QED
    BY <2>1, <2>2
<1>16. Locks'
  <2>1. \A e \in Dispatchers : Locked(e)' = IF e = d THEN {} ELSE Locked(e)
    BY <1>1 DEF Types, Locked
  <2>2. \A e, f \in Dispatchers : f # e => Locked(e)' \cap Locked(f)' = {}
    BY <2>1 DEF Locks
  <2>3. ASSUME NEW e \in Dispatchers, tx'[e] # Nothing
        PROVE  /\ \A m \in tx'[e].lapsed : Lapsed(m)'
               /\ \A m \in tx'[e].chosen \ tx'[e].lapsed : status'[m] \in Waiting
    <3>1. e # d /\ tx'[e] = tx[e] /\ tx[e] # Nothing
      BY <1>1, <2>3 DEF Types
    <3>2. Locked(e) \cap Locked(d) = {}
      BY <3>1 DEF Locks
    <3>3. \A m \in tx[e].lapsed \cup tx[e].chosen : m \in Messages /\ m \notin chosen \cup tx[d].lapsed
      BY <1>1, <3>1, <3>2, TokenFacts DEF Locked
    <3>4. \A m \in tx[e].lapsed \cup tx[e].chosen : status'[m] = status[m] /\ attempts'[m] = attempts[m]
      BY <1>1, <3>3
    <3>. QED
      BY <1>1, <3>1, <3>4 DEF Locks, Lapsed
  <2>. QED
    BY <2>2, <2>3 DEF Locks
<1>17. Claims'
  BY <1>1 DEF Claims
<1>. QED
  BY <1>7, <1>8, <1>9, <1>13, <1>15, <1>16, <1>17

(* A statement changes a row that its token owns, and nobody who is on     *)
(* time has another token of it; the row is not locked.  It does so even   *)
(* when its dispatcher has gone.                                           *)
LEMMA StatementStep ==
  ASSUME IInv, NEW d \in Dispatchers, RunStatement(d)
  PROVE  IInv'
<1>. USE DEF IInv
<1>. DEFINE token == stmt[d].token
            m == token[1]
<1>1. /\ stmt[d] # Nothing
      /\ m \notin LockedByOthers(d)
      /\ status' = IF Owned(token) THEN [status EXCEPT ![m] = stmt[d].to] ELSE status
      /\ stmt' = [stmt EXCEPT ![d] = Nothing]
      /\ UNCHANGED <<attempts, late, tx, sent>>
  BY DEF RunStatement
<1>2. tx[d] = Nothing /\ pc[d] \in {"settling", "cancelling", "stopped", "ready"}
  BY <1>1 DEF OneCall, Types, Working
<1>3. token \in Tokens /\ m \in Messages /\ stmt[d].to \in Outcomes /\ token = <<m, token[2]>>
  BY <1>1, TokenFacts DEF Tokens
<1>4. pc[d] \in {"settling", "cancelling"} => token = current[d] /\ token \in batch[d]
  BY <1>1 DEF OneCall, Positions, Working
<1>5. /\ pc' \in [Dispatchers -> Working \cup {"ready", "leasing", "stopped"}]
      /\ batch' \in [Dispatchers -> SUBSET Tokens]
      /\ current' \in [Dispatchers -> Tokens \cup {Nothing}]
      /\ \A e \in Dispatchers \ {d} :
           pc'[e] = pc[e] /\ batch'[e] = batch[e] /\ current'[e] = current[e]
      /\ batch'[d] \subseteq batch[d] \ {token}
      /\ \/ pc'[d] \in {"ready", "stopped"} /\ batch'[d] = {} /\ current'[d] = Nothing
         \/ pc'[d] = "publishing" /\ current'[d] \in batch'[d]
  <2>1. CASE pc[d] = "settling" /\ Owned(token)
    <3>1. Serve(d, batch[d] \ {current[d]})
      BY <2>1 DEF RunStatement
    <3>2. batch[d] \ {current[d]} \in SUBSET Tokens
      BY DEF Types
    <3>. QED
      BY <1>4, <2>1, <3>1, <3>2, ServeMoves
  <2>2. CASE pc[d] = "cancelling" \/ (pc[d] = "settling" /\ ~Owned(token))
    <3>1. Abandon(d)
      BY <2>2 DEF RunStatement
    <3>. QED
      BY <3>1 DEF Abandon, Types
  <2>3. CASE pc[d] \in {"stopped", "ready"}
    <3>1. UNCHANGED <<pc, batch, current>>
      BY <2>3 DEF RunStatement, workVars
    <3>2. batch[d] = {} /\ current[d] = Nothing
      BY <2>3 DEF Positions, Working
    <3>. QED
      BY <2>3, <3>1, <3>2 DEF Types
  <2>. QED
    BY <1>2, <2>1, <2>2, <2>3
<1>6. Types'
  <2>1. status' \in [Messages -> Statuses]
    BY <1>1, <1>3 DEF Types, Statuses, Outcomes, Kept, Waiting
  <2>2. stmt' \in [Dispatchers -> Statements \cup {Nothing}]
    BY <1>1 DEF Types
  <2>. QED
    BY <1>1, <1>5, <2>1, <2>2 DEF Types
<1>7. Positions'
  BY <1>5 DEF Positions, Working
<1>8. stmt'[d] = Nothing /\ \A e \in Dispatchers \ {d} : stmt'[e] = stmt[e]
  BY <1>1 DEF Types
<1>9. OneCall'
  BY <1>1, <1>2, <1>5, <1>8 DEF OneCall
<1>10. \A e \in Dispatchers : batch'[e] \subseteq batch[e] \ {token}
  <2>1. \A e \in Dispatchers \ {d} : token \notin batch[e]
    BY <1>1 DEF Tokened
  <2>. QED
    BY <1>5, <2>1
<1>11. Tokened'
  <2>1. \A e \in Dispatchers : stmt'[e] # Nothing => stmt'[e] = stmt[e]
    BY <1>8
  <2>. QED
    BY <1>1, <1>10, <2>1 DEF Tokened
<1>12. OnTime'
  <2>. SUFFICES ASSUME NEW e \in Dispatchers, NEW u \in batch'[e], u[2] \notin late[u[1]]
                PROVE  status'[u[1]] = "leased" /\ attempts[u[1]] = u[2]
    BY <1>1 DEF OnTime, Owned
  <2>1. u \in batch[e] /\ u # token /\ u = <<u[1], u[2]>> /\ u[1] \in Messages
    BY <1>10, TokenFacts
  <2>2. status[u[1]] = "leased" /\ attempts[u[1]] = u[2]
    BY <2>1 DEF OnTime, Owned
  <2>3. Owned(token) => u[1] # m
    BY <1>3, <2>1, <2>2 DEF Owned
  <2>. QED
    BY <1>1, <2>1, <2>2, <2>3 DEF Types
<1>13. Locks'
  <2>1. \A e, f \in Dispatchers : f # e => Locked(e)' \cap Locked(f)' = {}
    BY <1>1 DEF Locks, Locked
  <2>2. ASSUME NEW e \in Dispatchers, tx[e] # Nothing
        PROVE  /\ \A n \in tx[e].lapsed : Lapsed(n)'
               /\ \A n \in tx[e].chosen \ tx[e].lapsed : status'[n] \in Waiting
    <3>1. e # d
      BY <1>2, <2>2
    <3>2. m \notin tx[e].lapsed \cup tx[e].chosen
      BY <1>1, <2>2, <3>1 DEF LockedByOthers, Locked
    <3>3. \A n \in tx[e].lapsed \cup tx[e].chosen : status'[n] = status[n]
      BY <1>1, <2>2, <3>2, TokenFacts DEF Types
    <3>. QED
      BY <1>1, <2>2, <3>3 DEF Locks, Lapsed
  <2>. QED
    BY <1>1, <2>1, <2>2 DEF Locks
<1>14. Claims'
  BY <1>1, <1>8 DEF Claims
<1>. QED
  BY <1>6, <1>7, <1>9, <1>11, <1>12, <1>13, <1>14

LEMMA NextIInv == IInv /\ [Next]_vars => IInv'
<1>. SUFFICES ASSUME IInv, [Next]_vars PROVE IInv'
  OBVIOUS
<1>1. CASE \E m \in Messages : AddInTransaction(m) \/ BecomesDue(m) \/ Lapse(m)
  BY <1>1, RowStep
<1>2. CASE \E S \in SUBSET Messages : PurgePublished(S)
  BY <1>2, RowStep
<1>3. CASE \E d \in Dispatchers : BeginLease(d) \/ CommitLease(d)
  BY <1>3, BeginLeaseStep, CommitStep
<1>4. CASE \E d \in Dispatchers : RollBackLease(d) \/ CancelCall(d) \/ Crash(d)
  BY <1>4, AbandonStep
<1>5. CASE \E d \in Dispatchers : Send(d) \/ EndPublish(d) \/ CancelPublish(d)
  BY <1>5, SendStep, MarkStep
<1>6. CASE \E d \in Dispatchers : RunStatement(d)
  BY <1>6, StatementStep
<1>7. CASE \E d \in Dispatchers : Stop(d) \/ Restart(d)
  BY <1>7, StopStep
<1>8. CASE UNCHANGED vars
  BY <1>8 DEF vars, rowVars, workVars, IInv, Types, Positions, OneCall, Tokened, OnTime, Owned,
    Locks, Locked, Lapsed, Claims
<1>. QED
  BY <1>1, <1>2, <1>3, <1>4, <1>5, <1>6, <1>7, <1>8 DEF Next, EndLease

LEMMA Invariance == Spec => []IInv
BY InitIInv, NextIInv, PTL DEF Spec

-----------------------------------------------------------------------------
(* Of several processes that lease from the same table, none works on a    *)
(* row that another one works on, unless a lease has lapsed under one of   *)
(* them, and none is refused while it is on time: although _lease_sync     *)
(* reads and writes in several statements, and threads outlive the         *)
(* dispatchers that called them.                                           *)
THEOREM LeasesAreExclusive == Spec => []LeasesExclude
<1>1. IInv => LeasesExclude
  <2>. SUFFICES ASSUME IInv PROVE LeasesExclude
    OBVIOUS
  <2>. USE DEF IInv
  <2>1. ASSUME NEW d \in Dispatchers, NEW e \in Dispatchers, d # e,
               NEW t \in batch[d], NEW u \in batch[e], t[1] = u[1]
        PROVE  t[2] \in late[t[1]] \/ u[2] \in late[u[1]]
    <3>1. t = <<t[1], t[2]>> /\ u = <<u[1], u[2]>>
      BY TokenFacts
    <3>2. t # u
      BY <2>1 DEF Tokened
    <3>. QED
      BY <2>1, <3>1, <3>2 DEF OnTime, Owned
  <2>2. \A d \in Dispatchers : current[d] # Nothing => current[d] \in batch[d]
    BY DEF Positions
  <2>3. ASSUME NEW d \in Dispatchers
        PROVE  Locked(d) \subseteq {m \in Messages : status[m] \in Kept}
    BY TokenFacts DEF Locks, Locked, Lapsed, Kept
  <2>4. \A d, e \in Dispatchers : d # e => Locked(d) \cap Locked(e) = {}
    BY DEF Locks
  <2>. QED
    BY <2>1, <2>2, <2>3, <2>4 DEF LeasesExclude, OnTime
<1>. QED
  BY <1>1, Invariance, PTL

-----------------------------------------------------------------------------
(* The refinement: every status has its fate ...                           *)
LEMMA Fates ==
  /\ FateOf("absent") = "absent"
  /\ \A s \in Kept : FateOf(s) = "kept"
  /\ FateOf("published") = "delivered"
  /\ FateOf("dead_lettered") = "given_up"
  /\ FateOf("purged") = "forgotten"
<1>1. FateOf("absent") = "absent"
  BY DEF FateOf, Kept, Waiting
<1>2. FateOf("pending") = "kept" /\ FateOf("failed") = "kept" /\ FateOf("leased") = "kept"
  BY DEF FateOf, Kept, Waiting
<1>3. FateOf("published") = "delivered" /\ FateOf("purged") = "forgotten"
  BY DEF FateOf, Kept, Waiting
<1>4. FateOf("dead_lettered") = "given_up"
  BY DEF FateOf, Kept, Waiting
<1>. QED
  BY <1>1, <1>2, <1>3, <1>4 DEF Kept, Waiting

(* ... and a step that changes one status changes one fate.                *)
LEMMA OneFate ==
  ASSUME Types, NEW m \in Messages, NEW s, status' = [status EXCEPT ![m] = s]
  PROVE  Fate' = [Fate EXCEPT ![m] = FateOf(s)]
<1>1. \A n \in Messages : FateOf(status'[n]) = IF n = m THEN FateOf(s) ELSE FateOf(status[n])
  BY DEF Types
<1>2. Fate' = [n \in Messages |-> IF n = m THEN FateOf(s) ELSE FateOf(status[n])]
  BY <1>1 DEF Fate
<1>. QED
  BY <1>2 DEF Fate

(* A committed lease is a try of the rows it chose.                        *)
LEMMA CommitTries ==
  ASSUME IInv, NEW d \in Dispatchers, CommitLease(d)
  PROVE  Contract!Next
<1>. USE DEF IInv
<1>. DEFINE chosen == tx[d].chosen
<1>1. /\ tx[d] # Nothing
      /\ status' = [m \in Messages |-> IF m \in chosen THEN "leased"
                                       ELSE IF m \in tx[d].lapsed THEN "failed" ELSE status[m]]
      /\ attempts' = [m \in Messages |-> IF m \in chosen THEN attempts[m] + 1 ELSE attempts[m]]
      /\ UNCHANGED sent
  BY DEF CommitLease
<1>2. chosen \in SUBSET Messages
  BY <1>1, TokenFacts
<1>3. \A m \in chosen \cup tx[d].lapsed : status[m] \in Kept
  BY <1>1 DEF Locks, Lapsed, Kept
<1>4. "leased" \in Kept /\ "failed" \in Kept
  BY DEF Kept, Waiting
<1>5. \A m \in chosen : Fate[m] = "kept"
  BY <1>2, <1>3, Fates DEF Fate
<1>6. \A m \in Messages : FateOf(status'[m]) = FateOf(status[m])
  <2>. SUFFICES ASSUME NEW m \in Messages PROVE FateOf(status'[m]) = FateOf(status[m])
    OBVIOUS
  <2>1. CASE m \in chosen \cup tx[d].lapsed
    <3>1. status'[m] \in Kept
      BY <1>1, <1>4, <2>1
    <3>. QED
      BY <1>3, <2>1, <3>1, Fates
  <2>2. CASE m \notin chosen \cup tx[d].lapsed
    BY <1>1, <2>2
  <2>. QED
    BY <2>1, <2>2
<1>7. Fate' = Fate
  BY <1>6 DEF Fate
<1>8. Contract!Try(chosen)
  BY <1>1, <1>5, <1>7 DEF Contract!Try
<1>. QED
  BY <1>2, <1>8 DEF Contract!Next

(* A statement that finds its lease confirms the row, gives it up or keeps *)
(* it.                                                                     *)
LEMMA StatementRefines ==
  ASSUME IInv, NEW d \in Dispatchers, RunStatement(d)
  PROVE  [Contract!Next]_Contract!vars
<1>. USE DEF IInv
<1>. DEFINE token == stmt[d].token
            m == token[1]
            s == stmt[d].to
<1>1. /\ stmt[d] # Nothing
      /\ status' = IF Owned(token) THEN [status EXCEPT ![m] = s] ELSE status
      /\ UNCHANGED <<attempts, sent>>
  BY DEF RunStatement
<1>2. m \in Messages /\ s \in Outcomes
  BY <1>1, TokenFacts
<1>3. CASE ~Owned(token)
  BY <1>1, <1>3 DEF Contract!vars, Fate
<1>4. CASE Owned(token)
  <2>1. status[m] = "leased" /\ attempts[m] = token[2]
    BY <1>4 DEF Owned
  <2>2. Fate[m] = "kept"
    BY <1>2, <2>1, Fates DEF Fate, Kept
  <2>3. Fate' = [Fate EXCEPT ![m] = FateOf(s)]
    BY <1>1, <1>2, <1>4, OneFate
  <2>4. CASE s = "published"
    <3>1. sent[m] # {}
      BY <1>1, <2>4 DEF Claims
    <3>2. Contract!Confirm(m)
      BY <1>1, <2>2, <2>3, <2>4, <3>1, Fates DEF Contract!Confirm
    <3>. QED
      BY <1>2, <3>2 DEF Contract!Next
  <2>5. CASE s = "dead_lettered"
    <3>1. attempts[m] >= MaxAttempts
      BY <1>1, <2>1, <2>5 DEF Claims
    <3>2. Contract!GiveUp(m)
      BY <1>1, <2>2, <2>3, <2>5, <3>1, Fates DEF Contract!GiveUp
    <3>. QED
      BY <1>2, <3>2 DEF Contract!Next
  <2>6. CASE s = "failed"
    <3>1. FateOf(s) = Fate[m]
      BY <2>2, <2>6, Fates DEF Kept, Waiting
    <3>2. Fate' = Fate
      BY <1>2, <2>3, <3>1 DEF Fate
    <3>. QED
      BY <1>1, <3>2 DEF Contract!vars
  <2>. QED
    BY <1>2, <2>4, <2>5, <2>6 DEF Outcomes
<1>. QED
  BY <1>3, <1>4

LEMMA SendRefines ==
  ASSUME IInv, NEW d \in Dispatchers, Send(d)
  PROVE  Contract!Next
<1>. DEFINE m == current[d][1]
            k == current[d][2]
<1>1. current[d] \in batch[d] /\ m \in Messages
  BY TokenFacts DEF Send, IInv, Positions, Working
<1>2. k \in 1..attempts[m]
  BY <1>1 DEF IInv, Tokened
<1>3. Contract!Send(m, k)
  BY <1>2 DEF Send, rowVars, Contract!Send, Fate
<1>. QED
  BY <1>1, <1>2, <1>3 DEF Contract!Next

LEMMA RowRefines ==
  ASSUME IInv,
         \/ \E m \in Messages : AddInTransaction(m)
         \/ \E S \in SUBSET Messages : PurgePublished(S)
  PROVE  Contract!Next
<1>1. ASSUME NEW m \in Messages, AddInTransaction(m)
      PROVE  Contract!Keep(m)
  <2>1. Fate' = [Fate EXCEPT ![m] = FateOf("pending")]
    BY <1>1, OneFate DEF AddInTransaction, IInv
  <2>2. FateOf("pending") = "kept"
    BY Fates DEF Kept, Waiting
  <2>. QED
    BY <1>1, <2>1, <2>2, Fates DEF Contract!Keep, AddInTransaction, Fate
<1>2. ASSUME NEW S \in SUBSET Messages, PurgePublished(S)
      PROVE  Contract!Forget(S)
  <2>1. \A m \in S : Fate[m] = "delivered"
    BY <1>2, Fates DEF PurgePublished, Fate
  <2>2. \A m \in Messages : status'[m] = IF m \in S THEN "purged" ELSE status[m]
    BY <1>2 DEF PurgePublished
  <2>3. Fate' = [m \in Messages |-> IF m \in S THEN "forgotten" ELSE Fate[m]]
    BY <2>2, Fates DEF Fate
  <2>. QED
    BY <1>2, <2>1, <2>3 DEF PurgePublished, Contract!Forget
<1>. QED
  BY <1>1, <1>2 DEF Contract!Next

LEMMA InitRefines == Init => Contract!Init
<1>. SUFFICES ASSUME Init PROVE Contract!Init
  OBVIOUS
<1>1. Fate = [m \in Messages |-> "absent"]
  BY Fates DEF Init, Fate
<1>. QED
  BY <1>1 DEF Init, Contract!Init

LEMMA NextRefines == IInv /\ [Next]_vars => [Contract!Next]_Contract!vars
<1>. SUFFICES ASSUME IInv, [Next]_vars PROVE [Contract!Next]_Contract!vars
  OBVIOUS
<1>1. CASE \/ \E m \in Messages : AddInTransaction(m)
           \/ \E S \in SUBSET Messages : PurgePublished(S)
  BY <1>1, RowRefines
<1>2. CASE \E m \in Messages : BecomesDue(m) \/ Lapse(m)
  BY <1>2 DEF BecomesDue, Lapse, Contract!vars, Fate
<1>3. CASE \E d \in Dispatchers : CommitLease(d) \/ RunStatement(d) \/ Send(d)
  BY <1>3, CommitTries, StatementRefines, SendRefines
<1>4. CASE \E d \in Dispatchers : EndPublish(d) \/ CancelPublish(d)
  BY <1>4 DEF EndPublish, PublishReturns, PublishRaises, CancelPublish, Mark, rowVars,
    Contract!vars, Fate
<1>5. CASE \E d \in Dispatchers : BeginLease(d) \/ RollBackLease(d) \/ CancelCall(d) \/ Crash(d)
  BY <1>5 DEF BeginLease, RollBackLease, CancelCall, Crash, rowVars, Contract!vars, Fate
<1>6. CASE \E d \in Dispatchers : Stop(d) \/ Restart(d)
  BY <1>6 DEF Stop, Restart, rowVars, Contract!vars, Fate
<1>7. CASE UNCHANGED vars
  BY <1>7 DEF vars, rowVars, Contract!vars, Fate
<1>. QED
  BY <1>1, <1>2, <1>3, <1>4, <1>5, <1>6, <1>7 DEF Next, EndLease

(* DjangoModelOutboxStore keeps the promise of the outbox for any number   *)
(* of processes: published means sent, given up means tried max_attempts   *)
(* times, settled is final although statements run late, and a lease sends *)
(* at most once.                                                           *)
THEOREM DjangoStoreKeepsContract == Spec => KeepsContract
BY InitRefines, NextRefines, Invariance, PTL DEF Spec, KeepsContract, Contract!Spec

-----------------------------------------------------------------------------
(* Rows go on                                                              *)

(* What is leased was due when it was chosen, and the row locks keep it so *)
(* until the lease commits.                                                *)
ChosenIsDue ==
  /\ due \in [Messages -> BOOLEAN]
  /\ \A m \in Messages : status[m] = "leased" => due[m]
  /\ \A d \in Dispatchers : tx[d] # Nothing => \A m \in tx[d].chosen : due[m]

(* The update of a thread leaves the rows that others have locked alone.   *)
LEMMA StatementKeepsDue ==
  ASSUME IInv, ChosenIsDue, NEW d \in Dispatchers, RunStatement(d)
  PROVE  ChosenIsDue'
<1>. DEFINE n == stmt[d].token[1]
            found == Owned(stmt[d].token)
<1>1. /\ stmt[d] # Nothing /\ n \notin LockedByOthers(d) /\ tx' = tx
      /\ status' = IF found THEN [status EXCEPT ![n] = stmt[d].to] ELSE status
      /\ due' = IF found /\ stmt[d].delayed THEN [due EXCEPT ![n] = FALSE] ELSE due
  BY DEF RunStatement
<1>2. n \in Messages /\ stmt[d].to \in Outcomes /\ tx[d] = Nothing
  BY <1>1, TokenFacts DEF IInv, OneCall
<1>3. status \in [Messages -> Statuses]
  BY DEF IInv, Types
<1>4. due' \in [Messages -> BOOLEAN] /\ \A m \in Messages \ {n} : due'[m] = due[m]
  BY <1>1, <1>2 DEF ChosenIsDue
<1>5. \A m \in Messages : status'[m] = "leased" => due'[m]
  <2>1. CASE found
    BY <1>1, <1>2, <1>3, <1>4, <2>1 DEF ChosenIsDue, Outcomes
  <2>2. CASE ~found
    BY <1>1, <2>2 DEF ChosenIsDue
  <2>. QED
    BY <2>1, <2>2
<1>6. ASSUME NEW e \in Dispatchers, tx[e] # Nothing, NEW m \in tx[e].chosen
      PROVE  due'[m]
  <2>1. e # d /\ m \in Locked(e) /\ m \in Messages
    BY <1>2, <1>6, TokenFacts DEF Locked
  <2>2. m # n
    BY <1>1, <2>1 DEF LockedByOthers
  <2>. QED
    BY <1>4, <1>6, <2>1, <2>2 DEF ChosenIsDue
<1>. QED
  BY <1>1, <1>4, <1>5, <1>6 DEF ChosenIsDue

LEMMA ChosenIsDueNext ==
  ASSUME IInv, ChosenIsDue, [Next]_vars
  PROVE  ChosenIsDue'
<1>. USE DEF ChosenIsDue
<1>0. status \in [Messages -> Statuses] /\ tx \in [Dispatchers -> Transactions \cup {Nothing}]
  BY DEF IInv, Types
<1>1. ASSUME NEW m \in Messages, AddInTransaction(m)
      PROVE  ChosenIsDue'
  <2>1. \A d \in Dispatchers : tx[d] # Nothing => m \notin tx[d].chosen
    BY <1>1 DEF AddInTransaction, IInv, Locks, Lapsed, Waiting
  <2>. QED
    BY <1>0, <1>1, <2>1 DEF AddInTransaction
<1>2. ASSUME NEW m \in Messages, BecomesDue(m) \/ Lapse(m)
      PROVE  ChosenIsDue'
  <2>1. /\ UNCHANGED <<status, tx>> /\ due' \in [Messages -> BOOLEAN]
        /\ \A n \in Messages : due[n] => due'[n]
    BY <1>2 DEF BecomesDue, Lapse
  <2>2. \A d \in Dispatchers : tx[d] # Nothing => tx[d].chosen \subseteq Messages
    BY TokenFacts
  <2>. QED
    BY <2>1, <2>2
<1>3. ASSUME NEW S \in SUBSET Messages, PurgePublished(S)
      PROVE  ChosenIsDue'
  BY <1>0, <1>3 DEF PurgePublished
<1>4. ASSUME NEW d \in Dispatchers, BeginLease(d)
      PROVE  ChosenIsDue'
  <2>1. PICK chosen :
          /\ \A m \in chosen : due[m]
          /\ tx' = [tx EXCEPT ![d] = [lapsed |-> Expired, chosen |-> chosen]]
          /\ UNCHANGED <<status, due>>
    BY <1>4 DEF BeginLease, rowVars
  <2>. QED
    BY <1>0, <2>1
<1>5. ASSUME NEW d \in Dispatchers, CommitLease(d)
      PROVE  ChosenIsDue'
  <2>1. /\ tx[d] # Nothing /\ UNCHANGED due
        /\ status' = [m \in Messages |-> IF m \in tx[d].chosen THEN "leased"
                                         ELSE IF m \in tx[d].lapsed THEN "failed" ELSE status[m]]
        /\ tx' = [tx EXCEPT ![d] = Nothing]
    BY <1>5 DEF CommitLease
  <2>2. \A m \in Messages : status'[m] = "leased" => due'[m]
    BY <2>1
  <2>. QED
    BY <1>0, <2>1, <2>2
<1>6. ASSUME NEW d \in Dispatchers, RollBackLease(d) \/ Crash(d)
      PROVE  ChosenIsDue'
  <2>1. UNCHANGED <<status, due>> /\ tx' = [tx EXCEPT ![d] = Nothing]
    BY <1>6 DEF RollBackLease, Crash, rowVars
  <2>. QED
    BY <1>0, <2>1
<1>7. ASSUME NEW d \in Dispatchers,
             \/ Send(d) \/ EndPublish(d) \/ CancelPublish(d) \/ CancelCall(d) \/ Stop(d)
             \/ Restart(d)
      PROVE  ChosenIsDue'
  BY <1>7 DEF Send, EndPublish, PublishReturns, PublishRaises, CancelPublish, Mark, CancelCall,
    Stop, Restart, rowVars
<1>8. CASE UNCHANGED vars
  BY <1>8 DEF vars
<1>. QED
  BY <1>1, <1>2, <1>3, <1>4, <1>5, <1>6, <1>7, <1>8, StatementKeepsDue DEF Next, EndLease

(* DjangoModelOutboxStore forgets no row: what it leases stays due until   *)
(* mark_failed gives the lease back, so a lapsed lease is in the next      *)
(* query; and a thread that waits for a row lock holds none.               *)
THEOREM NoRowIsForgotten == Spec => []RowsGoOn
<1>1. Init => ChosenIsDue
  BY DEF Init, ChosenIsDue
<1>2. IInv /\ ChosenIsDue /\ [Next]_vars => ChosenIsDue'
  BY ChosenIsDueNext
<1>3. IInv /\ ChosenIsDue => RowsGoOn
  BY DEF IInv, OneCall, ChosenIsDue, RowsGoOn, Stored, Kept, Locked
<1>. QED
  BY <1>1, <1>2, <1>3, Invariance, PTL DEF Spec
=============================================================================
