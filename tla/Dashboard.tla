------------------------------ MODULE Dashboard ------------------------------
(***************************************************************************)
(* The detail page of the dashboard (apps/dashboard/src) on an EventFeed:  *)
(* App.tsx with its refetches of the selected job, JobDetail.tsx with its  *)
(* replay, and the WebSocket of useJobEvents.ts.                           *)
(*                                                                         *)
(* A refetch is a call: sent, served by the API from what is committed at  *)
(* that moment, and answered later; calls may overtake each other.  What   *)
(* is shown of a job is its version.  The time an event is under way is    *)
(* part of the feed's delay: it is broadcast when it is received.          *)
(*                                                                         *)
(* The overview is left out: refreshOverview() reads and sets stats, jobs  *)
(* and error, of which the detail page sees nothing.                       *)
(***************************************************************************)
EXTENDS EventFeed, Sequences

CONSTANTS
    None,        \* no job, no answer
    MaxCalls,    \* bound on the calls under way
    MaxReplays,  \* bound on the clicks on Replay
    Faulty,      \* the kinds of fault that may happen
    MaxFaults    \* bound on the faults of one behaviour, of all kinds

\* feed      the feed misses a change
\* drop      the WebSocket is lost, or not established
\* crash     the API process dies and is started again
\* rest      a call fails
\* reorder   an answer overtakes that of an earlier refetch
\* coalesce  an event is replaced by another job's before a render
FaultKinds == {"feed", "drop", "crash", "rest", "reorder", "coalesce"}

ASSUME DashboardAssumption ==
    /\ None \notin Jobs /\ MaxCalls \in Nat /\ MaxReplays \in Nat
    /\ Faulty \subseteq FaultKinds /\ MaxFaults \in Nat

VARIABLES
    conn,           \* connectionState
    lastEvent,      \* the job that the last event names
    selectedJobId,
    selectedJob,    \* what is shown of it: a job and its version
    calls,          \* the calls under way, in the order they were sent
    replays,        \* how many more clicks on Replay there may be
    faults,         \* how many more there may be
    harm            \* auxiliary: whether an event was lost, the answer of a
                    \* call was lost or came at a bad moment

pageVars == <<lastEvent, selectedJobId, selectedJob>>
vars     == <<feedVars, conn, pageVars, calls, replays, faults, harm>>

\* A call: detail is getJob(job), replay is replayJob(job), later ok or
\* refused.  `for` is the job that was selected, `live` whether the page a
\* replay was sent from is still there.
Call == [ kind : {"detail", "replay", "ok", "refused"},
          job  : Jobs,
          for  : Jobs,
          seen : (0..MaxVersions) \cup {None},  \* the version, once served,
                                                \* or made by the replay
          live : BOOLEAN ]

Ask(kind, job, for) == [kind |-> kind, job |-> job, for |-> for,
                        seen |-> None, live |-> TRUE]

refreshSelectedJob(id) == <<Ask("detail", id, id)>>

TypeOK ==
    /\ FeedTypeOK
    /\ conn          \in {"connecting", "open", "closed"}
    /\ lastEvent     \in Jobs \cup {None}
    /\ selectedJobId \in Jobs \cup {None}
    /\ selectedJob   \in [id : Jobs, version : 0..MaxVersions] \cup {None}
    /\ calls         \in Seq(Call) /\ Len(calls) <= MaxCalls
    /\ replays       \in 0..MaxReplays
    /\ faults        \in 0..MaxFaults
    /\ harm          \in SUBSET {"event", "answer"}

Init ==
    /\ FeedInit
    /\ conn          = "connecting"
    /\ lastEvent     = None
    /\ selectedJobId = None
    /\ selectedJob   = None
    /\ calls         = <<>>
    /\ replays       = MaxReplays
    /\ faults        = MaxFaults
    /\ harm          = {}

Fault(kind) == kind \in Faulty /\ faults > 0 /\ faults' = faults - 1

FaultIf(kind, condition) == IF condition THEN Fault(kind) ELSE UNCHANGED faults

HarmIf(what, condition) ==
    harm' = IF condition THEN harm \cup {what} ELSE harm

Send(cs) == Len(calls) + Len(cs) <= MaxCalls /\ calls' = calls \o cs

Without(i) == SubSeq(calls, 1, i - 1) \o SubSeq(calls, i + 1, Len(calls))

-----------------------------------------------------------------------------
(* The feed, and useJobEvents().                                           *)

JobChanges(j) ==
    /\ Change(j)
    /\ FaultIf("feed", missed' # missed)
    /\ UNCHANGED <<conn, pageVars, calls, replays, harm>>

FeedLoses ==
    /\ ~ missed /\ Lose
    /\ Fault("feed")
    /\ UNCHANGED <<conn, pageVars, calls, replays, harm>>

\* Mutant: the selected job is not fetched again.
MutEventEffect(event, id) == <<>>

\* The effect of [lastEvent, selectedJobId], as far as the job goes.
EventEffect(event, id) ==
    IF event # None /\ event = id THEN refreshSelectedJob(id) ELSE <<>>

\* broadcast() to a tab that is connected: onmessage sets lastEvent, and the
\* effect runs after the render.
Receive(j) ==
    /\ conn = "open"
    /\ Tell({j})
    /\ lastEvent' = j
    /\ Send(EventEffect(j, selectedJobId))
    /\ UNCHANGED <<conn, selectedJobId, selectedJob, replays, faults, harm>>

\* Two events between two renders: the effect sees the second one only.
ReceiveTwo(i, j) ==
    /\ conn = "open" /\ i # j
    /\ Tell({i, j})
    /\ Fault("coalesce") /\ HarmIf("event", TRUE)
    /\ lastEvent' = j
    /\ Send(EventEffect(j, selectedJobId))
    /\ UNCHANGED <<conn, selectedJobId, selectedJob, replays>>

\* broadcast() to a tab that is not, or that the event never reaches.
BroadcastMissed(j) ==
    /\ conn # "open"
    /\ Tell({j})
    /\ HarmIf("event", TRUE)
    /\ UNCHANGED <<conn, pageVars, calls, replays, faults>>

Open ==
    /\ conn = "connecting"
    /\ conn' = "open"
    /\ UNCHANGED <<feedVars, pageVars, calls, replays, faults, harm>>

\* onclose, after a loss or an error.
Close ==
    /\ conn # "closed"
    /\ Fault("drop")
    /\ conn' = "closed"
    /\ UNCHANGED <<feedVars, pageVars, calls, replays, harm>>

\* The reconnect timer, after its backoff.
Reconnect ==
    /\ conn = "closed"
    /\ conn' = "connecting"
    /\ UNCHANGED <<feedVars, pageVars, calls, replays, faults, harm>>

-----------------------------------------------------------------------------
(* App() and JobDetail().                                                  *)

\* handleSelect(), on a row of the list; both effects run.  What selectedJob
\* holds stays.
handleSelect(id) ==
    /\ selectedJobId = None
    /\ selectedJobId' = id
    /\ Send(refreshSelectedJob(id) \o EventEffect(lastEvent, id))
    /\ UNCHANGED <<feedVars, conn, lastEvent, selectedJob, replays, faults,
                   harm>>

\* handleBack(): JobDetail is unmounted, and its replay goes on without it.
handleBack ==
    /\ selectedJobId # None /\ selectedJob # None
    /\ selectedJobId' = None
    /\ selectedJob' = None
    /\ calls' = [i \in DOMAIN calls |->
                   [calls[i] EXCEPT !.live = calls[i].kind = "detail"]]
    /\ UNCHANGED <<feedVars, conn, lastEvent, replays, faults, harm>>

\* handleReplay(), for the job that is shown.  The button is disabled while a
\* replay sent from this page is under way.
handleReplay ==
    /\ replays > 0
    /\ selectedJobId # None /\ selectedJob # None
    /\ \A i \in DOMAIN calls : calls[i].kind = "detail" \/ ~ calls[i].live
    /\ Send(<<Ask("replay", selectedJob.id, selectedJobId)>>)
    /\ replays' = replays - 1
    /\ UNCHANGED <<feedVars, conn, pageVars, faults, harm>>

-----------------------------------------------------------------------------
(* The calls of api/client.ts.                                             *)

\* GET /api/jobs/:id.
ServeJob(i) ==
    /\ calls[i].kind = "detail" /\ calls[i].seen = None
    /\ calls' = [calls EXCEPT ![i].seen = version[calls[i].job]]
    /\ UNCHANGED <<feedVars, conn, pageVars, replays, faults, harm>>

Overtakes(i) == \E k \in 1..(i - 1) : calls[k].kind = "detail"

\* refreshSelectedJob() goes on, whatever is selected by now.
DetailAnswered(i) ==
    /\ calls[i].kind = "detail" /\ calls[i].seen # None
    /\ selectedJob' = [id |-> calls[i].job, version |-> calls[i].seen]
    /\ calls' = Without(i)
    /\ FaultIf("reorder", Overtakes(i)) /\ HarmIf("answer", Overtakes(i))
    /\ UNCHANGED <<feedVars, conn, lastEvent, selectedJobId, replays>>

\* POST /api/jobs/:id/replay is accepted: claimReplay() changes the job.
ReplayAccepted(i) ==
    /\ calls[i].kind = "replay"
    /\ Change(calls[i].job)
    /\ FaultIf("feed", missed' # missed)
    /\ calls' = [calls EXCEPT ![i].kind = "ok",
                              ![i].seen = version'[calls[i].job]]
    /\ UNCHANGED <<conn, pageVars, replays, harm>>

\* It is refused (401, 404, 409, 429).
ReplayRefused(i) ==
    /\ calls[i].kind = "replay"
    /\ calls' = [calls EXCEPT ![i].kind = "refused"]
    /\ UNCHANGED <<feedVars, conn, pageVars, replays, faults, harm>>

\* Mutant: the page is not told that the replay was accepted.
MutOnReplayed(call) == <<>>

\* Mutant: the job that is selected by the time of the answer is fetched.
MutOnReplayedNow(call) ==
    IF call.kind = "ok" THEN refreshSelectedJob(selectedJobId) ELSE <<>>

\* onReplayed(), with the job that was selected at the click.
onReplayed(call) ==
    IF call.kind = "ok" THEN refreshSelectedJob(call.for) ELSE <<>>

\* handleReplay() goes on.
ReplayAnswered(i) ==
    LET stray == calls[i].kind = "ok" /\ calls[i].for # selectedJobId IN
    /\ calls[i].kind \in {"ok", "refused"}
    /\ calls' = Without(i) \o onReplayed(calls[i])
    /\ HarmIf("answer", stray)
    /\ UNCHANGED <<feedVars, conn, pageVars, replays, faults>>

\* The call throws, and the page stays as it is.
CallFails(i) ==
    /\ Fault("rest") /\ HarmIf("answer", TRUE)
    /\ calls' = Without(i)
    /\ UNCHANGED <<feedVars, conn, pageVars, replays>>

\* The API goes down: its sockets are closed, its calls fail.
Crash ==
    /\ Fault("crash") /\ HarmIf("answer", calls # <<>>)
    /\ conn' = "closed"
    /\ calls' = <<>>
    /\ UNCHANGED <<feedVars, pageVars, replays>>

-----------------------------------------------------------------------------
Answer(i) == \/ ServeJob(i) \/ DetailAnswered(i)
             \/ ReplayAccepted(i) \/ ReplayRefused(i) \/ ReplayAnswered(i)

Next ==
    \/ \E j \in Jobs : JobChanges(j) \/ Receive(j) \/ BroadcastMissed(j)
    \/ \E i, j \in Jobs : ReceiveTwo(i, j)
    \/ FeedLoses \/ Open \/ Close \/ Reconnect \/ Crash
    \/ handleBack \/ handleReplay \/ \E id \in Jobs : handleSelect(id)
    \/ \E i \in DOMAIN calls : Answer(i) \/ CallFails(i)

Spec == Init /\ [][Next]_vars

\* The feed keeps its promise, calls are answered in turn, timers run out.  An
\* event is only ever held back by the bound on calls, hence the strong
\* fairness.  Nothing makes the operator click.
Fairness ==
    /\ \A j \in Jobs : SF_vars(/\ ~ missed /\ j \in untold
                               /\ Receive(j) \/ BroadcastMissed(j))
    /\ WF_vars(Open) /\ WF_vars(Reconnect)
    /\ WF_vars(calls # <<>> /\ Answer(1))

FairSpec == Spec /\ Fairness

-----------------------------------------------------------------------------
(* Properties.                                                             *)

DetailCurrent == selectedJobId # None =>
    selectedJob = [id |-> selectedJobId, version |-> version[selectedJobId]]

\* The detail page always gets to show the selected job as it is, unless the
\* feed misses a change, an event is sent to a tab that is not connected or is
\* overwritten before a render, or a call fails, is overtaken, or is a replay
\* that is answered on another page: nothing else, a WebSocket or an API that
\* goes down between two changes included, keeps the operator from seeing the
\* job as it is (App's effects, refreshSelectedJob()).
DetailCatchesUp == []<> (DetailCurrent \/ missed \/ harm # {})

\* An operator who replays a job and stays with it gets to see the replay, or
\* something newer, even if there are no events at all (handleReplay(),
\* onReplayed()).
ReplaySeen == \A j \in Jobs : \A v \in 1..MaxVersions :
    (\E i \in DOMAIN calls : /\ calls[i].kind = "ok" /\ calls[i].seen = v
                             /\ calls[i].job = j /\ calls[i].for = j)
      ~> \/ selectedJobId # j
         \/ selectedJob # None /\ selectedJob.id = j /\ selectedJob.version >= v
         \/ "answer" \in harm

==============================================================================
