---------------------------- MODULE UsageService ----------------------------
(***************************************************************************)
(* The background sampler of llm-usage (usage_service) and its clients:    *)
(* one socket path, a continuous service that a user may install, and the  *)
(* ephemeral service a piped client starts when nobody answers.  Services  *)
(* and clients run in processes of their own; the socket path, latest.json *)
(* and the configured provider visibility are all they share.              *)
(*                                                                         *)
(* A service has the name of the client that started it, or Continuous.    *)
(* A sample is its age, the environment it was read in and whether it      *)
(* skipped providers as hidden.                                            *)
(***************************************************************************)
EXTENDS Integers

CONSTANTS
    Clients,      \* runs of llm-usage
    Continuous,   \* the installed service
    NoOne,        \* no service
    Cases,        \* the clients that run, piped or tty, in which environment, the configured visibility,
                  \* how often the continuous service is started and something fails, is stopped, killed or edited
    DefaultEnv,   \* the continuous service's environment
    Interval,     \* LLM_USAGE_SERVICE_INTERVAL
    SampleTime,   \* bound on the duration of a sample
    OldAge        \* ages are counted up to this one

ASSUME ServiceAssumption ==
    /\ {Interval, SampleTime, OldAge} \subseteq Nat \ {0} /\ OldAge > Interval + SampleTime
    /\ Continuous \notin Clients /\ NoOne \notin Clients \cup {Continuous}

Services == Clients \cup {Continuous}

VARIABLES
    svc,      \* service -> its process
    cl,       \* client -> its process
    path,     \* what the socket path names: a service, living or dead, or NoOne
    latest,   \* latest.json
    narrow,   \* [usage].providers hides a provider
    spare      \* what is left of the case's bounds

svars == <<svc, cl, path, latest, narrow, spare>>

NoSample == [age |-> OldAge + 1, env |-> DefaultEnv, hidden |-> FALSE]
SampleAs(env, hidden) == [age |-> 0, env |-> env, hidden |-> hidden]
EnvOf(s) == IF s = Continuous THEN DefaultEnv ELSE cl[s].env

OffService == [pc |-> "off", stop |-> FALSE, lock |-> NoOne, hides |-> FALSE, took |-> 0, due |-> 0, latest |-> NoSample,
               behind |-> FALSE]
NewClient(kind, env) == [pc |-> IF kind = "none" THEN "done" ELSE "ask", kind |-> kind, env |-> env, to |-> NoOne, val |-> NoSample, ans |-> NoSample,
                         excused |-> FALSE]
ServiceInit ==
    /\ svc = [s \in Services |-> OffService]
    /\ \E k \in Cases : /\ cl = [c \in Clients |-> NewClient(k.runs[c].kind, k.runs[c].env)]
                         /\ spare = [starts |-> k.starts, faults |-> k.faults] /\ narrow = k.narrow
    /\ path = NoOne
    /\ latest \in {NoSample} \cup [age : {0, OldAge}, env : {DefaultEnv}, hidden : {narrow}]

Serving(s) == s # NoOne /\ svc[s].pc \in {"up", "idle"}
\* _stale_socket: nobody accepts a connection.
StaleSocket == ~Serving(path)
Up(s) == svc[s].pc # "off"

-----------------------------------------------------------------------------
(* The service: run_service and UsageSampler. *)

\* --service-start, --service-install, the service manager.
StartService ==
    /\ ~Up(Continuous) /\ spare.starts > 0
    /\ svc' = [svc EXCEPT ![Continuous] = [OffService EXCEPT !.pc = "boot"]]
    /\ spare' = [spare EXCEPT !.starts = @ - 1]
    /\ UNCHANGED <<cl, path, latest, narrow>>

\* A socket nobody serves is found ...
CheckSocket(s) ==
    /\ svc[s].pc = "boot"
    /\ svc' = [svc EXCEPT ![s].pc = IF path # NoOne /\ StaleSocket THEN "unlink" ELSE "bind"]
    /\ UNCHANGED <<cl, path, latest, narrow, spare>>
\* ... and whatever has the name by then is removed.
UnlinkStale(s) ==
    /\ svc[s].pc = "unlink"
    /\ path' = NoOne /\ svc' = [svc EXCEPT ![s].pc = "bind"]
    /\ UNCHANGED <<cl, latest, narrow, spare>>
\* ThreadingUnixServer: the socket is renamed onto the path; requests are served from now on.
Bind(s) ==
    /\ svc[s].pc = "bind"
    /\ path' = s /\ svc' = [svc EXCEPT ![s].pc = "up"]
    /\ UNCHANGED <<cl, latest, narrow, spare>>

\* sample_once takes the sampler's lock and reads the configuration ...
TakeLock(s, who) == [svc EXCEPT ![s].lock = who, ![s].hides = narrow, ![s].took = 0]
BeginSample(s) ==
    /\ \/ svc[s].pc = "up" \/ (svc[s].pc = "idle" /\ s = Continuous /\ ~svc[s].stop /\ svc[s].due = 0)
    /\ svc[s].lock = NoOne
    /\ svc' = TakeLock(s, s)
    /\ UNCHANGED <<cl, path, latest, narrow, spare>>
\* ... and stores what the providers answered.
Sampled(s) ==
    LET sample == SampleAs(EnvOf(s), svc[s].hides)
    IN  /\ latest' = sample
        /\ svc' = [svc EXCEPT ![s].pc = IF svc[s].lock = s THEN "idle" ELSE @, ![s].lock = NoOne, ![s].latest = sample,
                     ![s].due = IF svc[s].lock = Continuous THEN Interval ELSE @, ![s].behind = FALSE]
EndSample(s) ==
    /\ svc[s].lock = s /\ Sampled(s)
    /\ UNCHANGED <<cl, path, narrow, spare>>
\* The first sample ends the service when it fails, a later one leaves the old data.
FailSample(s) ==
    /\ svc[s].lock = s /\ spare.faults > 0
    /\ svc' = [svc EXCEPT ![s].lock = NoOne, ![s].pc = IF @ = "up" THEN "closing" ELSE @, ![s].due = Interval,
                 ![s].behind = TRUE]
    /\ spare' = [spare EXCEPT !.faults = @ - 1]
    /\ UNCHANGED <<cl, path, latest, narrow>>

\* stop_event is seen between samples.
SeeStop(s) ==
    /\ svc[s].pc = "idle" /\ svc[s].stop /\ svc[s].lock # s
    /\ svc' = [svc EXCEPT ![s].pc = "closing"]
    /\ UNCHANGED <<cl, path, latest, narrow, spare>>
\* The process ends: the path is removed, whoever owns it by now; open requests end without an answer.
Exit(s) ==
    /\ svc[s].pc = "closing"
    /\ path' = NoOne /\ svc' = [svc EXCEPT ![s] = OffService]
    /\ cl' = [c \in Clients |-> IF cl[c].to = s THEN [cl[c] EXCEPT !.to = NoOne] ELSE cl[c]]
    /\ UNCHANGED <<latest, narrow, spare>>

\* SIGTERM before the handlers are installed ends the process, later it sets stop_event.
Terminate(s) ==
    IF svc[s].pc \in {"boot", "unlink", "bind"} THEN [svc EXCEPT ![s] = OffService] ELSE [svc EXCEPT ![s].stop = Up(s)]
\* stop_service: a shutdown request to whoever serves, else the service manager.
StopService ==
    /\ Up(Continuous) /\ spare.faults > 0
    /\ svc' = IF Serving(path) THEN [svc EXCEPT ![path].stop = TRUE] ELSE Terminate(Continuous)
    /\ spare' = [spare EXCEPT !.faults = @ - 1]
    /\ UNCHANGED <<cl, path, latest, narrow>>

-----------------------------------------------------------------------------
(* A request: UsageRequestHandler and UsageSampler.snapshot. *)

Asking(c) == cl[c].pc \in {"asked", "asked2"}
Loaded(c) == cl[c].pc \in {"loaded", "loaded2"}
\* The answer ends the request; a second one is followed by a shutdown.  An answer is excused
\* from being recent when the service is behind or samples for another client only.
Answered(c, sample) ==
    [cl EXCEPT ![c].to = NoOne, ![c].ans = sample, ![c].excused = svc'[cl[c].to].behind \/ cl[c].to \in Clients \ {c},
               ![c].val = NoSample, ![c].pc = IF @ \in {"asked", "loaded"} THEN "check" ELSE "down1"]

\* The lock is waited for, so a sample in progress is waited for.
AnswerLatest(c) ==
    LET s == cl[c].to
    IN  /\ Asking(c) /\ s # NoOne /\ svc[s].lock = NoOne /\ svc[s].latest # NoSample
        /\ UNCHANGED <<svc, path, latest, narrow, spare>>
        /\ cl' = Answered(c, svc[s].latest)
\* A service without a sample takes the file's, whatever its age.
LoadFile(c) ==
    LET s == cl[c].to
    IN  /\ Asking(c) /\ s # NoOne /\ svc[s].lock = NoOne /\ svc[s].latest = NoSample /\ latest # NoSample
        /\ cl' = [cl EXCEPT ![c].val = latest, ![c].pc = IF @ = "asked" THEN "loaded" ELSE "loaded2"]
        /\ UNCHANGED <<svc, path, latest, narrow, spare>>
\* It is kept as the service's own, even over a sample made in between.
StoreLoaded(c) ==
    LET s == cl[c].to
    IN  /\ Loaded(c) /\ s # NoOne /\ svc[s].lock = NoOne
        /\ svc' = [svc EXCEPT ![s].latest = cl[c].val, ![s].behind = TRUE]
        /\ cl' = Answered(c, cl[c].val)
        /\ UNCHANGED <<path, latest, narrow, spare>>
\* Neither: the handler samples for itself.
HandlerSample(c) ==
    LET s == cl[c].to
    IN  /\ Asking(c) /\ s # NoOne /\ svc[s].lock = NoOne /\ svc[s].latest = NoSample /\ latest = NoSample
        /\ svc' = TakeLock(s, c)
        /\ UNCHANGED <<cl, path, latest, narrow, spare>>
\* The handler goes on although its client may have gone away.
HandlerSampled(s) ==
    /\ Up(s) /\ svc[s].lock \in Clients \ {s}
    /\ Sampled(s)
    /\ LET c == svc[s].lock
       IN  cl' = IF cl[c].to = s /\ Asking(c) THEN Answered(c, SampleAs(EnvOf(s), svc[s].hides)) ELSE cl
    /\ UNCHANGED <<path, narrow, spare>>

-----------------------------------------------------------------------------
(* A client: request_snapshot, start_ephemeral_service, render_once_via_service. *)

GoTo(c, pc) == [cl EXCEPT ![c].pc = pc, ![c].to = NoOne, ![c].val = NoSample]
\* What follows a request that brought nothing: only a piped run starts a sampler.
Fallback(c) == IF cl[c].pc \in {"asked2", "loaded2", "ask2"} THEN "down2" ELSE IF cl[c].kind = "piped" THEN "cache" ELSE "check"
Connect(c) ==
    /\ cl[c].pc \in {"ask", "ask2"}
    /\ cl' = IF StaleSocket THEN GoTo(c, Fallback(c))
             ELSE [cl EXCEPT ![c].to = path, ![c].pc = IF @ = "ask" THEN "asked" ELSE "asked2"]
    /\ UNCHANGED <<svc, path, latest, narrow, spare>>
\* The five seconds of a request are over, or the service ended.
GiveUp(c) ==
    /\ Asking(c) \/ Loaded(c)
    /\ cl[c].to # NoOne => svc[cl[c].to].lock # NoOne
    /\ cl' = GoTo(c, Fallback(c))
    /\ UNCHANGED <<svc, path, latest, narrow, spare>>

\* service_payload_matches_environment.
Matches(sample, c) == sample # NoSample /\ sample.env = cl[c].env
\* Mutant: a file of any age.
CachedLatestAnyAge(c) == Matches(latest, c)
\* _cached_latest_snapshot.
CachedLatest(c) == Matches(latest, c) /\ latest.age <= Interval
ReadCache(c) ==
    /\ cl[c].pc = "cache"
    /\ cl' = IF CachedLatest(c) THEN [GoTo(c, "check") EXCEPT ![c].ans = latest] ELSE GoTo(c, "spawn")
    /\ UNCHANGED <<svc, path, latest, narrow, spare>>
CheckSpawn(c) ==
    /\ cl[c].pc = "spawn" /\ path # NoOne /\ StaleSocket
    /\ cl' = GoTo(c, "unlink")
    /\ UNCHANGED <<svc, path, latest, narrow, spare>>
Spawn(c) ==
    /\ \/ cl[c].pc = "spawn" /\ ~(path # NoOne /\ StaleSocket) /\ path' = path
       \/ cl[c].pc = "unlink" /\ path' = NoOne
    /\ svc' = [svc EXCEPT ![c] = [OffService EXCEPT !.pc = "boot"]]
    /\ cl' = GoTo(c, "poll")
    /\ UNCHANGED <<latest, narrow, spare>>
\* Mutant: the end of the process is not noticed.
PollSocketOnly(c) ==
    /\ cl[c].pc = "poll" /\ ~StaleSocket
    /\ cl' = GoTo(c, IF Up(c) THEN "ask2" ELSE "check")
    /\ UNCHANGED <<svc, path, latest, narrow, spare>>
\* Until its process ends, somebody serves, or the deadline passes.
PollSampler(c) ==
    /\ cl[c].pc = "poll"
    /\ cl' = GoTo(c, IF Up(c) THEN "ask2" ELSE "check")
    /\ UNCHANGED <<svc, path, latest, narrow, spare>>

\* Mutant: the process is not waited for, so not terminated either.
AskShutdownOnly(c) ==
    /\ cl[c].pc \in {"down1", "down2"}
    /\ svc' = IF Serving(path) THEN [svc EXCEPT ![path].stop = TRUE] ELSE svc
    /\ cl' = [cl EXCEPT ![c].pc = IF @ = "down1" THEN "down2" ELSE "check"]
    /\ UNCHANGED <<path, latest, narrow, spare>>
\* shutdown goes to whoever serves the path by now.
AskShutdown(c) ==
    /\ cl[c].pc \in {"down1", "down2"}
    /\ svc' = IF Serving(path) THEN [svc EXCEPT ![path].stop = TRUE] ELSE svc
    /\ cl' = [cl EXCEPT ![c].pc = IF @ = "down1" THEN "down2" ELSE "wait"]
    /\ UNCHANGED <<path, latest, narrow, spare>>
\* proc.wait(2), then terminate.
WaitForEnd(c) ==
    /\ cl[c].pc = "wait"
    /\ svc' = IF Up(c) THEN Terminate(c) ELSE svc
    /\ cl' = [cl EXCEPT ![c].pc = "check"]
    /\ UNCHANGED <<path, latest, narrow, spare>>

\* Mutant: the snapshot is shown as it comes.
UsableAsIs(c) == cl[c].ans # NoSample
\* _provider_data_via_service, _service_hid_visible_provider.
Usable(c) == Matches(cl[c].ans, c) /\ (cl[c].ans.hidden => narrow)
\* The report: the service's data, or the providers read here.
Report(c) ==
    /\ cl[c].pc = "check"
    /\ cl' = [cl EXCEPT ![c].pc = "done", ![c].ans = IF Usable(c) THEN @ ELSE SampleAs(cl[c].env, narrow)]
    /\ UNCHANGED <<svc, path, latest, narrow, spare>>

-----------------------------------------------------------------------------
(* The world. *)

\* A client is killed, or interrupted while it waits for its sampler.
KillClient(c) ==
    /\ spare.faults > 0 /\ cl[c].pc \notin {"ask", "done", "dead"}
    /\ cl' = GoTo(c, "dead") /\ spare' = [spare EXCEPT !.faults = @ - 1]
    /\ UNCHANGED <<svc, path, latest, narrow>>
EditConfig ==
    /\ spare.faults > 0
    /\ narrow' = ~narrow /\ spare' = [spare EXCEPT !.faults = @ - 1]
    /\ UNCHANGED <<svc, cl, path, latest>>

Older(sample) == IF sample.age < OldAge THEN [sample EXCEPT !.age = @ + 1] ELSE sample
InFlight(c) == cl[c].pc \notin {"done", "dead"}
\* A client takes time only while it waits for a sample or for its sampler to serve.
Waiting(c) ==
    \/ cl[c].pc \in {"ask", "done", "dead"}
    \/ (Asking(c) \/ Loaded(c)) /\ cl[c].to # NoOne /\ svc[cl[c].to].lock # NoOne
    \/ cl[c].pc = "poll" /\ Up(c) /\ StaleSocket
\* Time does not outrun a first or due sample, one that has taken its time, or a service that stops.
ServiceTick ==
    /\ \E c \in Clients : InFlight(c)
    /\ \A c \in Clients : Waiting(c)
    /\ \A s \in Services : /\ svc[s].lock # NoOne => svc[s].took < SampleTime
                           /\ svc[s].pc # "closing" /\ ~(svc[s].pc = "idle" /\ svc[s].stop /\ svc[s].lock # s)
                           /\ svc[s].lock = NoOne => svc[s].pc # "up" /\ (svc[s].pc = "idle" /\ s = Continuous => svc[s].due > 0)
    /\ svc' = [s \in Services |-> [svc[s] EXCEPT !.latest = Older(@), !.due = IF @ > 0 /\ svc[s].lock = NoOne THEN @ - 1 ELSE @,
                                     !.took = IF svc[s].lock # NoOne THEN @ + 1 ELSE @]]
    /\ cl' = [c \in Clients |-> IF InFlight(c) THEN [cl[c] EXCEPT !.val = Older(@), !.ans = Older(@)] ELSE cl[c]]
    /\ latest' = Older(latest)
    /\ UNCHANGED <<path, narrow, spare>>

ServiceStep(s) ==
    \/ CheckSocket(s) \/ UnlinkStale(s) \/ Bind(s) \/ BeginSample(s) \/ EndSample(s) \/ FailSample(s) \/ SeeStop(s)
    \/ Exit(s) \/ HandlerSampled(s)
ClientStep(c) ==
    \/ Connect(c) \/ GiveUp(c) \/ ReadCache(c) \/ CheckSpawn(c) \/ Spawn(c) \/ PollSampler(c) \/ AskShutdown(c) \/ WaitForEnd(c)
    \/ Report(c) \/ AnswerLatest(c) \/ LoadFile(c) \/ StoreLoaded(c) \/ HandlerSample(c)
ServiceNext ==
    \/ \E s \in Services : ServiceStep(s)
    \/ \E c \in Clients : ClientStep(c) \/ KillClient(c)
    \/ StartService \/ StopService \/ EditConfig \/ ServiceTick

ServiceFairness == \A s \in Services : WF_svars(ServiceStep(s)) /\ (s \in Clients => WF_svars(ClientStep(s)))
ServiceSpec == ServiceInit /\ [][ServiceNext]_svars /\ ServiceFairness

-----------------------------------------------------------------------------
(* Properties. *)

\* What a client reports, by whichever way it came (the file, the continuous
\* service, its own sampler or a direct read), was read in the client's own
\* environment, lacks no provider as hidden that the configuration shows at that
\* time, and is at most an interval old, since a request waits for the sample that
\* is being made.  Excused from the last are services that are behind, because sampling failed or because they took
\* the file before their first sample, and another client's sampler, which does not
\* sample again (service_payload_matches_environment, _service_hid_visible_provider,
\* UsageSampler.snapshot, _cached_latest_snapshot).
ReportIsRight ==
    [][\A c \in Clients : cl[c].pc # "done" /\ cl'[c].pc = "done" =>
          /\ cl'[c].ans.env = cl[c].env
          /\ cl'[c].ans.hidden => narrow
          /\ ~cl'[c].excused => cl'[c].ans.age <= Interval]_svars

\* Every client that is not killed reports, whatever the services do, and a client
\* that reports does not leave its sampler running (request_snapshot).
ClientsFinish ==
    \A c \in Clients : /\ <>(cl[c].pc \in {"done", "dead"})
                       /\ (cl[c].pc = "done") ~> (svc[c].pc = "off")

=============================================================================
