------------------------------- MODULE UiApi -------------------------------
(***************************************************************************)
(* The request function of the web interface, src/ui/src/api.js: the       *)
(* module-level token and scope, the timeout and abort of an attempt, the  *)
(* retries, and what a 401 does to the session.  A call is one use of an   *)
(* exported function of api.js; `ui' is the browser tab, `srv' the service *)
(* behind the calls, `net' the answers on their way back.                  *)
(***************************************************************************)
EXTENDS Naturals, FiniteSets

CONSTANTS Callers,      \* the components of the page that have a call open
          Calls,        \* the calls they make, reads and writes
          Tokens,       \* bearer tokens a login can return
          None,         \* no token
          MaxExecuted   \* bound: executions counted per call

VARIABLES ui, srv, net
vars == <<ui, srv, net>>

-----------------------------------------------------------------------------
(* The exported calls, by the method they use. *)

AuthReads == {"fetchInfo", "fetchHealth", "fetchSystemMetrics",
  "getSystemQuotas", "getOjoReleases", "refreshSession",
  "getCurrentUserNoRedirect", "getAuthMode"}
AuthWrites == {"login", "enrollMFA", "verifyMFA", "disableMFA", "logout",
  "resetUserMFA", "resetUserPasswordTemp", "getOIDCAuthorizeUrl",
  "exchangeOIDCCode", "register"}
AdminReads == {"getCurrentUser", "listApiKeys", "getApiKeyShares",
  "getAuditLogs", "exportAuditLogs", "getUsers", "getGroups"}
AdminWrites == {"updateCurrentUser", "setApiKeyHidden", "createApiKey",
  "updateApiKey", "regenerateApiKeyOtlpToken", "deleteApiKey",
  "replaceApiKeyShares", "deleteApiKeyShare", "createUser", "updateUser",
  "deleteUser", "createGroup"}
AlertReads == {"getPermissions", "getRoleDefaults", "getActiveAgents",
  "getAgents", "getAgentMetricVolume", "getAlerts", "getAlertsByFilter",
  "getAlertGroups", "getSilences"}
AlertWrites == {"updateGroup", "deleteGroup", "updateGroupMembers",
  "updateUserPermissions", "updateGroupPermissions", "updateUserPassword",
  "createSilence", "deleteSilence", "postAlerts", "deleteAlerts"}
IncidentReads == {"getAlertRules", "getPublicAlertRules", "getIncidents",
  "getIncidentsSummary", "getJiraConfig", "listJiraProjects",
  "listJiraProjectsByIntegration", "listJiraIssueTypes",
  "listIncidentJiraComments"}
IncidentWrites == {"setAlertRuleHidden", "setSilenceHidden",
  "updateIncident", "createIncidentJira", "updateJiraConfig",
  "importAlertRules"}
ChannelReads == {"getAllowedChannelTypes", "listJiraIntegrations",
  "getNotificationChannels", "listMetricNames", "evaluatePromql",
  "listMetricLabels", "listMetricLabelValues"}
ChannelWrites == {"setJiraIntegrationHidden", "createJiraIntegration",
  "updateJiraIntegration", "deleteJiraIntegration", "createAlertRule",
  "updateAlertRule", "deleteAlertRule", "testAlertRule",
  "setNotificationChannelHidden", "createNotificationChannel",
  "updateNotificationChannel", "deleteNotificationChannel",
  "testNotificationChannel"}
QueryReads == {"queryLogs", "getLabels", "getLabelValues", "aggregateLogs",
  "getLogVolume", "searchTraces", "fetchTempoServices", "getTrace",
  "getRcaAnalyzeConfigTemplate", "listRcaJobs", "getRcaJob",
  "getRcaJobResult", "getRcaReportById", "getRcaMlWeights",
  "getRcaDeployments"}
QueryWrites == {"searchLogs", "filterLogs", "createRcaAnalyzeJob",
  "deleteRcaReport", "fetchRcaMetricAnomalies", "fetchRcaLogPatterns",
  "fetchRcaLogBursts", "fetchRcaTraceAnomalies", "fetchRcaCorrelate",
  "fetchRcaTopology", "fetchRcaSloBurn", "fetchRcaForecast",
  "fetchRcaGranger", "fetchRcaBayesian", "submitRcaMlWeightFeedback",
  "resetRcaMlWeights"}
GrafanaReads == {"searchDashboards", "getDashboard",
  "getDashboardFilterMeta", "getDatasources", "getDatasource",
  "getDatasourceFilterMeta", "getFolders"}
GrafanaWrites == {"createGrafanaBootstrapSession", "createDashboard",
  "updateDashboard", "deleteDashboard", "toggleDashboardHidden",
  "createDatasource", "updateDatasource", "deleteDatasource",
  "toggleDatasourceHidden", "createFolder", "deleteFolder",
  "updateFolder", "toggleFolderHidden"}

Reads == UNION {AuthReads, AdminReads, AlertReads, IncidentReads,
                ChannelReads, QueryReads, GrafanaReads}
Writes == UNION {AuthWrites, AdminWrites, AlertWrites, IncidentWrites,
                 ChannelWrites, QueryWrites, GrafanaWrites}

(* What the module takes for granted of its constants. *)
ConstantsFit == /\ MaxExecuted \in Nat \ {0}
                /\ None \notin Tokens
                /\ Calls \subseteq Reads \cup Writes

(* isIdempotentMethod: GET is the only idempotent method api.js sends. *)
Repeatable(call) == TRUE
Idempotent(call) == call \in Reads

(* The calls whose 401 ends the session: /api/auth/me and the refresh, and *)
(* not getCurrentUserNoRedirect, which switches handleSessionExpiry off.   *)
EndsSession(call) == call \in {"getCurrentUser", "refreshSession",
                               "updateCurrentUser"}

-----------------------------------------------------------------------------
(* One call in the browser: its phase, attempt number, the retries it may  *)
(* use, the token its headers hold and whether its caller gave up.         *)

Phases == {"idle", "fetch", "wait", "body", "ok", "failed"}
Statuses == {"ok", "unauthorized", "busy", "error"}

NoCall == [phase |-> "idle", name |-> None, attempt |-> 0, retries |-> 0,
           token |-> None, aborted |-> FALSE]
CallRecords == [phase : Phases, name : Calls \cup {None}, attempt : 0..1,
                retries : 0..1, token : Tokens \cup {None},
                aborted : BOOLEAN]

TypeOK == /\ ui \in [token : Tokens \cup {None},
                     call : [Callers -> CallRecords]]
          /\ srv \in [Callers -> 0..MaxExecuted]
          /\ net \in [Callers -> Statuses \cup {"none"}]

Init == /\ ui = [token |-> None, call |-> [c \in Callers |-> NoCall]]
        /\ srv = [c \in Callers |-> 0]
        /\ net = [c \in Callers |-> "none"]

SetCall(c, call) == ui' = [ui EXCEPT !.call[c] = call]
Open(c) == ui.call[c].phase \in {"fetch", "wait", "body"}

(* A component calls an exported function: the headers are merged once,    *)
(* with the token of this moment, and the retries are one for a GET unless *)
(* the caller asks for none.  The polls of the hooks pass maxRetries: 0.   *)
Request(c, name, retries) ==
  /\ ~Open(c)
  /\ retries = 1 => Idempotent(name)
  /\ SetCall(c, [phase |-> "fetch", name |-> name, attempt |-> 0,
                 retries |-> retries, token |-> ui.token,
                 aborted |-> FALSE])
  /\ srv' = [srv EXCEPT ![c] = 0]
  /\ net' = [net EXCEPT ![c] = "none"]

(* The service executes the attempt and answers.  An attempt it does not   *)
(* authorize is not executed; one it answers with 429, 503 or 504 may have *)
(* been, behind the gateway that gave up.                                  *)
Serve(c, status) ==
  /\ ui.call[c].phase = "fetch" /\ net[c] = "none"
  /\ \/ /\ status \in {"ok", "error", "busy"} /\ srv[c] < MaxExecuted
        /\ srv' = [srv EXCEPT ![c] = @ + 1]
     \/ /\ status \in {"unauthorized", "busy"}
        /\ srv' = srv
  /\ net' = [net EXCEPT ![c] = status]
  /\ UNCHANGED ui

(* shouldRetryRequest: attempts left, an idempotent method, no abort by    *)
(* the caller, and a timeout or one of 429, 503 and 504.                   *)
RetryForEver(call, reason) ==
  Idempotent(call.name) /\ reason \in {"timeout", "busy"}
ShouldRetry(call, reason) ==
  /\ call.attempt < call.retries
  /\ Idempotent(call.name)
  /\ reason \in {"timeout", "busy"}

Again(call) == [call EXCEPT !.phase = "wait", !.attempt = @ + 1]
Ended(call, phase) == [call EXCEPT !.phase = phase]

(* The headers of the answer arrive; the timer and the listener of the     *)
(* attempt are removed before the body is read.  A 401 of a session call   *)
(* clears the module's token whatever token the request carried.           *)
Answer(c) ==
  LET call == ui.call[c] IN
  /\ call.phase = "fetch" /\ net[c] # "none"
  /\ IF net[c] = "ok"
     THEN SetCall(c, Ended(call, "body"))
     ELSE IF net[c] = "busy" /\ ShouldRetry(call, "busy")
     THEN SetCall(c, Again(call))
     ELSE ui' = [ui EXCEPT !.call[c] = Ended(call, "failed"),
                           !.token = IF net[c] = "unauthorized"
                                        /\ EndsSession(call.name)
                                     THEN None ELSE @]
  /\ net' = [net EXCEPT ![c] = "none"]
  /\ UNCHANGED srv

ReadBody(c) == /\ ui.call[c].phase = "body"
               /\ SetCall(c, Ended(ui.call[c], "ok"))
               /\ UNCHANGED <<srv, net>>

(* createTimeoutSignal: the timer aborts the fetch of this attempt.        *)
Timeout(c) ==
  LET call == ui.call[c] IN
  /\ call.phase = "fetch"
  /\ SetCall(c, IF ShouldRetry(call, "timeout") THEN Again(call)
                                                ELSE Ended(call, "failed"))
  /\ net' = [net EXCEPT ![c] = "none"]
  /\ UNCHANGED srv

(* fetch rejects with a network error, or the caller's signal aborts the   *)
(* attempt: neither is retried.  An abort during the wait is seen when the *)
(* next attempt is made.                                                   *)
NetworkError(c) == /\ ui.call[c].phase = "fetch"
                   /\ SetCall(c, Ended(ui.call[c], "failed"))
                   /\ net' = [net EXCEPT ![c] = "none"]
                   /\ UNCHANGED srv
Abort(c) ==
  LET call == ui.call[c] IN
  /\ \/ /\ call.phase = "fetch"
        /\ SetCall(c, [Ended(call, "failed") EXCEPT !.aborted = TRUE])
     \/ /\ call.phase = "wait" /\ ~call.aborted
        /\ SetCall(c, [call EXCEPT !.aborted = TRUE])
  /\ net' = [net EXCEPT ![c] = "none"]
  /\ UNCHANGED srv

(* sleep(120 * attempt) is over: the next attempt. *)
Wake(c) ==
  LET call == ui.call[c] IN
  /\ call.phase = "wait"
  /\ SetCall(c, Ended(call, IF call.aborted THEN "failed" ELSE "fetch"))
  /\ UNCHANGED <<srv, net>>

(* A login or a logout of AuthContext. *)
SetAuthToken(t) == /\ t # ui.token
                   /\ ui' = [ui EXCEPT !.token = t]
                   /\ UNCHANGED <<srv, net>>

Next ==
  \/ \E c \in Callers, name \in Calls, r \in 0..1 : Request(c, name, r)
  \/ \E c \in Callers, s \in Statuses : Serve(c, s)
  \/ \E c \in Callers : \/ Answer(c) \/ ReadBody(c) \/ Timeout(c)
                        \/ NetworkError(c) \/ Abort(c) \/ Wake(c)
  \/ \E t \in Tokens \cup {None} : SetAuthToken(t)

Progress(c) == Answer(c) \/ ReadBody(c) \/ Timeout(c) \/ Wake(c)
Fairness == \A c \in Callers : WF_vars(Progress(c))
Spec == Init /\ [][Next]_vars /\ Fairness

-----------------------------------------------------------------------------
(* However the attempts of a call end - timeout, busy answer, abort - the  *)
(* service executes a write at most once for one use of its function: no   *)
(* POST, PUT, PATCH or DELETE is repeated behind the caller's back.        *)
WriteExecutedOnce ==
  \A c \in Callers : ui.call[c].name \in Writes => srv[c] <= 1

(* Every call settles, whether or not the service answers: its timer runs  *)
(* out, and the attempts are numbered.                                     *)
Busy == \E c \in Callers : Open(c)
=============================================================================
