----------------------------- MODULE HttpServer -----------------------------
(***************************************************************************)
(* routeRequest: what the diagnostic server answers.  The health probes    *)
(* are the service's; behind the reconciliation path is the fail-closed    *)
(* reconciler, which looks at one request and has no state.                *)
(***************************************************************************)
EXTENDS Integers

Paths == {"/live", "/healthz", "/startup", "/startupz", "/ready", "/readyz", "/metrics",
          "/config-schema", "/reconcile/outbox", "elsewhere"}

Healths == {"ok", "unhealthy"}

(* What the service's probes say, and what the process was started with.   *)
Server == [liveness : Healths, startup : Healths, readiness : Healths,
           tokenConfigured : BOOLEAN, stopSwitch : BOOLEAN]

Request == [method : {"GET", "POST", "other"}, path : Paths,
            authorized : BOOLEAN,        \* the bearer token is the configured one
            body : {"object", "other", "tooLarge"},
            mode : {"apply", "other"},
            confirmed : BOOLEAN]         \* protectedConfirmation is the right one

(* runtimeHealthEndpointResponse.                                          *)
HealthCode(health) == IF health = "ok" THEN 200 ELSE 503

(* The fail-closed reconciler's report.                                    *)
ReportStatus(server, request) ==
    CASE server.stopSwitch -> "kill_switch_active"
      [] ~server.stopSwitch /\ request.mode = "apply" /\ ~request.confirmed -> "failed_closed"
      [] ~server.stopSwitch /\ request.mode = "apply" /\ request.confirmed -> "applied"
      [] OTHER -> "dry_run"

ReportCode(status) ==
    CASE status = "dry_run" -> 200
      [] status = "kill_switch_active" -> 423
      [] OTHER -> 409

(* handleReconciliationRequest; the reconciler is always there.            *)
ReconciliationCode(server, request) ==
    CASE ~server.tokenConfigured -> 503
      [] server.tokenConfigured /\ ~request.authorized -> 401
      [] server.tokenConfigured /\ request.authorized /\ request.body # "object" -> 400
      [] OTHER -> ReportCode(ReportStatus(server, request))

(* The GET routes.                                                         *)
GetCode(server, path) ==
    CASE path \in {"/live", "/healthz"} -> HealthCode(server.liveness)
      [] path \in {"/startup", "/startupz"} -> HealthCode(server.startup)
      [] path \in {"/ready", "/readyz"} -> HealthCode(server.readiness)
      [] path \in {"/metrics", "/config-schema"} -> 200
      [] OTHER -> 404

Reconciles(request) == request.method = "POST" /\ request.path = "/reconcile/outbox"

(* routeRequest.                                                           *)
AnswerCode(server, request) ==
    CASE Reconciles(request) -> ReconciliationCode(server, request)
      [] ~Reconciles(request) /\ request.method # "GET" -> 405
      [] OTHER -> GetCode(server, request.path)
=============================================================================
