----------------------------- MODULE Registries -----------------------------
(***************************************************************************)
(* The parts of an application's process that are changed while they are   *)
(* used, side by side: registries, subscription handles, the local engine, *)
(* health checks, the lifespan of a worker and batches of publishes.  Here *)
(* they share no state and never call one another, so a behaviour          *)
(* exercises one of them.                                                  *)
(***************************************************************************)
EXTENDS Dispatch, EventSchemas, Plugins, Subscriptions, LocalEngine, Health, Lifespan,
  Publish

VARIABLE part

Parts == {"dispatch", "schemas", "catalog", "serializers", "subscriptions", "local", "health",
          "lifespan", "batch"}

vars == <<part, dispatchVars, schemaVars, pluginVars, subscriptionVars, localVars, healthVars,
          lifespanVars, batchVars>>

Init ==
  /\ part \in Parts
  /\ DispatchInit /\ SchemaInit /\ PluginInit /\ SubscriptionInit /\ LocalInit /\ HealthInit
  /\ LifespanInit /\ PublishInit
  /\ part # "dispatch" => family = "router"
  /\ part # "catalog" => catalog = "engines"
  /\ part # "serializers" => default = NoProvider
  /\ part # "batch" => /\ strategy = "fixed" /\ ~stopOnError
                       /\ free = CHOOSE n \in Concurrencies : TRUE

\* The step of the one part leaves the others alone.
Step(p) ==
  /\ part = p /\ UNCHANGED part
  /\ p # "dispatch" => UNCHANGED dispatchVars
  /\ p # "schemas" => UNCHANGED schemaVars
  /\ p # "catalog" => UNCHANGED catalogVars
  /\ p # "serializers" => UNCHANGED serializerVars
  /\ p # "subscriptions" => UNCHANGED subscriptionVars
  /\ p # "local" => UNCHANGED localVars
  /\ p # "health" => UNCHANGED healthVars
  /\ p # "lifespan" => UNCHANGED lifespanVars
  /\ p # "batch" => UNCHANGED batchVars

Next ==
  \/ Step("dispatch") /\ DispatchNext
  \/ Step("schemas") /\ SchemaNext
  \/ Step("catalog") /\ CatalogNext
  \/ Step("serializers") /\ SerializerNext
  \/ Step("subscriptions") /\ SubscriptionNext
  \/ Step("local") /\ LocalNext
  \/ Step("health") /\ HealthNext
  \/ Step("lifespan") /\ LifespanNext
  \/ Step("batch") /\ PublishNext

Spec == Init /\ [][Next]_vars

=============================================================================
