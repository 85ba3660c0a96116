-------------------------- MODULE DashboardProofs --------------------------
(***************************************************************************)
(* Theorems about Dashboard for every value of its constants: the page's   *)
(* state and its calls keep their types, and the page uses the event feed  *)
(* as EventFeed allows.                                                    *)
(***************************************************************************)
EXTENDS Dashboard, SequenceTheorems, TLAPS

\* The calls under way.
CallsOK == calls \in Seq(Call) /\ Len(calls) <= MaxCalls

\* A call that is sent is well-typed, and so is what an effect sends.
LEMMA AskTypes ==
    ASSUME NEW j \in Jobs, NEW id \in Jobs
    PROVE  /\ \A kind \in {"detail", "replay"} : Ask(kind, j, id) \in Call
           /\ refreshSelectedJob(id) \in Seq(Call)
           /\ Len(refreshSelectedJob(id)) = 1
  <1>1. \A kind \in {"detail", "replay"} : Ask(kind, j, id) \in Call
    BY DEF Ask, Call
  <1>2. Ask("detail", id, id) \in Call
    BY DEF Ask, Call
  <1> HIDE DEF Ask
  <1> QED BY <1>1, <1>2 DEF refreshSelectedJob

\* The effect of an event sends nothing, or one call.
LEMMA EffectType ==
    ASSUME NEW event, NEW id \in Jobs \cup {None}
    PROVE  /\ EventEffect(event, id) \in Seq(Call)
           /\ Len(EventEffect(event, id)) \in 0..1
  <1>1. CASE event # None /\ event = id
    <2>1. id \in Jobs
      BY <1>1
    <2> QED BY <1>1, <2>1, AskTypes DEF EventEffect
  <1>2. CASE ~ (event # None /\ event = id)
    BY <1>2 DEF EventEffect
  <1> QED BY <1>1, <1>2

\* What is sent comes after what is under way, within the bound.
LEMMA SendType ==
    ASSUME CallsOK, NEW cs \in Seq(Call), Send(cs)
    PROVE  CallsOK'
  BY ConcatProperties DEF CallsOK, Send

\* An answered call leaves the others.
LEMMA WithoutType ==
    ASSUME CallsOK, NEW i \in DOMAIN calls
    PROVE  /\ Without(i) \in Seq(Call)
           /\ Len(Without(i)) = Len(calls) - 1
  <1> USE DEF CallsOK
  <1>1. i \in 1..Len(calls) /\ Len(calls) \in Nat
    OBVIOUS
  <1>2. /\ SubSeq(calls, 1, i - 1) \in Seq(Call)
        /\ Len(SubSeq(calls, 1, i - 1)) = i - 1
    BY <1>1, SubSeqProperties
  <1>3. /\ SubSeq(calls, i + 1, Len(calls)) \in Seq(Call)
        /\ Len(SubSeq(calls, i + 1, Len(calls))) = Len(calls) - i
    BY <1>1, SubSeqProperties
  <1> DEFINE a == SubSeq(calls, 1, i - 1)
             b == SubSeq(calls, i + 1, Len(calls))
  <1>4. Without(i) = a \o b
    BY DEF Without
  <1> HIDE DEF a, b
  <1>5. a \in Seq(Call) /\ Len(a) = i - 1
    BY <1>2 DEF a
  <1>6. b \in Seq(Call) /\ Len(b) = Len(calls) - i
    BY <1>3 DEF b
  <1>7. a \o b \in Seq(Call) /\ Len(a \o b) = Len(a) + Len(b)
    BY <1>5, <1>6, ConcatProperties
  <1> QED BY <1>1, <1>4, <1>5, <1>6, <1>7

\* Calls are rewritten one by one and stay a sequence of calls.
LEMMA RewriteType ==
    ASSUME CallsOK, NEW c, calls' = [i \in DOMAIN calls |-> c[i]],
           \A i \in DOMAIN calls : c[i] \in Call
    PROVE  CallsOK'
  <1>1. DOMAIN calls = 1..Len(calls) /\ Len(calls) \in Nat
    BY DEF CallsOK
  <1>2. calls' \in [1..Len(calls) -> Call]
    BY <1>1
  <1>3. calls' \in Seq(Call)
    BY <1>1, <1>2, SeqDef
  <1>4. Len(calls') = Len(calls)
    BY <1>1, <1>2, <1>3, LenProperties
  <1> QED BY <1>3, <1>4 DEF CallsOK

\* The rest of the page's state.
PageOK ==
    /\ conn          \in {"connecting", "open", "closed"}
    /\ lastEvent     \in Jobs \cup {None}
    /\ selectedJobId \in Jobs \cup {None}
    /\ selectedJob   \in [id : Jobs, version : 0..MaxVersions] \cup {None}
    /\ replays       \in 0..MaxReplays

\* TypeOK, part by part.
LEMMA TypeParts ==
    TypeOK <=> /\ FeedTypeOK /\ PageOK /\ CallsOK
               /\ faults \in 0..MaxFaults /\ harm \in SUBSET {"event", "answer"}
  BY DEF TypeOK, PageOK, CallsOK

\* A step of the feed keeps the feed's types, and is a step of EventFeed.
LEMMA FeedTypes ==
    ASSUME FeedTypeOK
    PROVE  /\ \A j \in Jobs : Change(j) => FeedTypeOK' /\ FeedNext
           /\ \A S \in SUBSET Jobs : Tell(S) => FeedTypeOK' /\ FeedNext
           /\ Lose => FeedTypeOK' /\ FeedNext
           /\ UNCHANGED feedVars => FeedTypeOK'
  <1>1. ASSUME NEW j \in Jobs, Change(j) PROVE FeedTypeOK' /\ FeedNext
    <2>1. version' \in [Jobs -> 0..MaxVersions]
      BY <1>1, FeedAssumption DEF FeedTypeOK, Change
    <2>2. untold' \in SUBSET Jobs
      BY <1>1 DEF FeedTypeOK, Change
    <2>3. missed' \in BOOLEAN
      BY <1>1, Zenon DEF FeedTypeOK, Change
    <2>4. FeedNext
      BY <1>1 DEF FeedNext
    <2> QED BY <2>1, <2>2, <2>3, <2>4 DEF FeedTypeOK
  <1>2. ASSUME NEW S \in SUBSET Jobs, Tell(S) PROVE FeedTypeOK' /\ FeedNext
    BY <1>2 DEF FeedTypeOK, Tell, FeedNext
  <1>3. ASSUME Lose PROVE FeedTypeOK' /\ FeedNext
    BY <1>3 DEF FeedTypeOK, Lose, FeedNext
  <1>4. UNCHANGED feedVars => FeedTypeOK'
    BY DEF FeedTypeOK, feedVars
  <1> QED BY <1>1, <1>2, <1>3, <1>4

\* Faults are counted down and harm is one of its kinds.
LEMMA CountTypes ==
    ASSUME faults \in 0..MaxFaults, harm \in SUBSET {"event", "answer"}
    PROVE  /\ \A k : Fault(k) => faults' \in 0..MaxFaults
           /\ \A k, c : FaultIf(k, c) => faults' \in 0..MaxFaults
           /\ \A k \in {"event", "answer"} : \A c :
                 HarmIf(k, c) => harm' \in SUBSET {"event", "answer"}
  <1>1. \A k : Fault(k) => faults' \in 0..MaxFaults
    BY DashboardAssumption DEF Fault
  <1>2. \A k, c : FaultIf(k, c) => faults' \in 0..MaxFaults
    BY <1>1 DEF FaultIf
  <1>3. ASSUME NEW k \in {"event", "answer"}, NEW c, HarmIf(k, c)
        PROVE  harm' \in SUBSET {"event", "answer"}
    BY <1>3 DEF HarmIf
  <1> QED BY <1>1, <1>2, <1>3

-----------------------------------------------------------------------------
(* The steps.                                                              *)

\* What a step has to keep: the types, and EventFeed's rules.
Kept == TypeOK' /\ [FeedNext]_feedVars

\* The parts a step leaves alone keep their types.
LEMMA Rest ==
    ASSUME TypeOK
    PROVE  /\ UNCHANGED <<conn, pageVars, replays>> => PageOK'
           /\ UNCHANGED calls => CallsOK'
           /\ UNCHANGED faults => faults' \in 0..MaxFaults
           /\ UNCHANGED harm => harm' \in SUBSET {"event", "answer"}
  BY TypeParts DEF PageOK, CallsOK, pageVars

\* Changes of jobs, their events and the WebSocket.
LEMMA FeedSteps ==
    ASSUME TypeOK,
           \/ \E j \in Jobs : JobChanges(j) \/ Receive(j) \/ BroadcastMissed(j)
           \/ \E i, j \in Jobs : ReceiveTwo(i, j)
           \/ FeedLoses \/ Open \/ Close \/ Reconnect \/ Crash
    PROVE  Kept
  <1>0. /\ FeedTypeOK /\ PageOK /\ CallsOK
        /\ faults \in 0..MaxFaults /\ harm \in SUBSET {"event", "answer"}
    BY TypeParts
  <1>1. ASSUME NEW j \in Jobs, JobChanges(j) PROVE Kept
    <2>1. FeedTypeOK' /\ FeedNext
      BY <1>0, <1>1, FeedTypes DEF JobChanges
    <2>2. PageOK' /\ CallsOK' /\ harm' \in SUBSET {"event", "answer"}
      BY <1>1, Rest DEF JobChanges
    <2>3. faults' \in 0..MaxFaults
      BY <1>0, <1>1, CountTypes DEF JobChanges
    <2> QED BY <2>1, <2>2, <2>3, TypeParts DEF Kept, TypeOK, PageOK, CallsOK
  <1>2. ASSUME NEW j \in Jobs, Receive(j) PROVE Kept
    <2>1. FeedTypeOK' /\ FeedNext
      BY <1>0, <1>2, FeedTypes DEF Receive
    <2>2. CallsOK'
      BY <1>0, <1>2, EffectType, SendType DEF Receive, PageOK
    <2>3. PageOK'
      BY <1>0, <1>2 DEF Receive, PageOK
    <2>4. faults' \in 0..MaxFaults /\ harm' \in SUBSET {"event", "answer"}
      BY <1>2, Rest DEF Receive
    <2> QED BY <2>1, <2>2, <2>3, <2>4 DEF Kept, TypeOK, PageOK, CallsOK
  <1>3. ASSUME NEW i \in Jobs, NEW j \in Jobs, ReceiveTwo(i, j) PROVE Kept
    <2>1. FeedTypeOK' /\ FeedNext
      <3>1. {i, j} \in SUBSET Jobs
        OBVIOUS
      <3> QED BY <1>0, <1>3, <3>1, FeedTypes DEF ReceiveTwo
    <2>2. CallsOK'
      BY <1>0, <1>3, EffectType, SendType DEF ReceiveTwo, PageOK
    <2>3. PageOK'
      BY <1>0, <1>3 DEF ReceiveTwo, PageOK
    <2>4. faults' \in 0..MaxFaults /\ harm' \in SUBSET {"event", "answer"}
      BY <1>0, <1>3, CountTypes DEF ReceiveTwo
    <2> QED BY <2>1, <2>2, <2>3, <2>4 DEF Kept, TypeOK, PageOK, CallsOK
  <1>4. ASSUME NEW j \in Jobs, BroadcastMissed(j) PROVE Kept
    <2>1. FeedTypeOK' /\ FeedNext
      BY <1>0, <1>4, FeedTypes DEF BroadcastMissed
    <2>2. PageOK' /\ CallsOK' /\ faults' \in 0..MaxFaults
      BY <1>4, Rest DEF BroadcastMissed
    <2>3. harm' \in SUBSET {"event", "answer"}
      BY <1>0, <1>4, CountTypes DEF BroadcastMissed
    <2> QED BY <2>1, <2>2, <2>3 DEF Kept, TypeOK, PageOK, CallsOK
  <1>5. CASE FeedLoses
    <2>1. FeedTypeOK' /\ FeedNext
      BY <1>0, <1>5, FeedTypes DEF FeedLoses
    <2>2. PageOK' /\ CallsOK' /\ harm' \in SUBSET {"event", "answer"}
      BY <1>5, Rest DEF FeedLoses
    <2>3. faults' \in 0..MaxFaults
      BY <1>0, <1>5, CountTypes DEF FeedLoses
    <2> QED BY <2>1, <2>2, <2>3 DEF Kept, TypeOK, PageOK, CallsOK
  <1>6. CASE Open \/ Close \/ Reconnect \/ Crash
    <2>1. UNCHANGED feedVars /\ FeedTypeOK'
      BY <1>0, <1>6, FeedTypes DEF Open, Close, Reconnect, Crash
    <2>2. PageOK'
      BY <1>0, <1>6 DEF Open, Close, Reconnect, Crash, PageOK, pageVars
    <2>3. CallsOK'
      <3>1. CASE UNCHANGED calls
        BY <3>1, Rest
      <3>2. CASE calls' = <<>>
        BY <3>2, DashboardAssumption, EmptySeq DEF CallsOK
      <3> QED BY <1>6, <3>1, <3>2 DEF Open, Close, Reconnect, Crash
    <2>4. faults' \in 0..MaxFaults /\ harm' \in SUBSET {"event", "answer"}
      BY <1>0, <1>6, Rest, CountTypes DEF Open, Close, Reconnect, Crash
    <2> QED BY <2>1, <2>2, <2>3, <2>4 DEF Kept, TypeOK, PageOK, CallsOK
  <1> QED BY <1>1, <1>2, <1>3, <1>4, <1>5, <1>6

\* The operator's clicks.
LEMMA ClickSteps ==
    ASSUME TypeOK, handleBack \/ handleReplay \/ \E id \in Jobs : handleSelect(id)
    PROVE  Kept
  <1>0. /\ FeedTypeOK /\ PageOK /\ CallsOK
        /\ faults \in 0..MaxFaults /\ harm \in SUBSET {"event", "answer"}
    BY TypeParts
  <1>1. UNCHANGED feedVars /\ FeedTypeOK'
    BY <1>0, FeedTypes DEF handleBack, handleReplay, handleSelect
  <1>2. faults' \in 0..MaxFaults /\ harm' \in SUBSET {"event", "answer"}
    BY Rest DEF handleBack, handleReplay, handleSelect
  <1>3. PageOK'
    <2>1. CASE handleReplay
      BY <1>0, <2>1, DashboardAssumption DEF handleReplay, PageOK, pageVars
    <2>2. CASE handleBack \/ \E id \in Jobs : handleSelect(id)
      BY <1>0, <2>2 DEF handleBack, handleSelect, PageOK
    <2> QED BY <2>1, <2>2
  <1>4. CallsOK'
    <2>1. CASE handleBack
      <3> DEFINE c == [i \in DOMAIN calls |->
                         [calls[i] EXCEPT !.live = calls[i].kind = "detail"]]
      <3>1. \A i \in DOMAIN calls : c[i] \in Call
        <4> SUFFICES ASSUME NEW i \in DOMAIN calls PROVE c[i] \in Call
          OBVIOUS
        <4>1. calls[i] \in Call
          BY <1>0, ElementOfSeq DEF CallsOK
        <4>2. (calls[i].kind = "detail") \in BOOLEAN
          OBVIOUS
        <4>3. \A b \in BOOLEAN : [calls[i] EXCEPT !.live = b] \in Call
          BY <4>1 DEF Call
        <4> QED BY <4>2, <4>3
      <3>2. calls' = [i \in DOMAIN calls |-> c[i]]
        BY <2>1 DEF handleBack
      <3> HIDE DEF c
      <3> QED BY <1>0, <3>1, <3>2, RewriteType
    <2>2. CASE handleReplay
      <3>1. selectedJob.id \in Jobs /\ selectedJobId \in Jobs
        BY <1>0, <2>2 DEF handleReplay, PageOK
      <3> DEFINE a == Ask("replay", selectedJob.id, selectedJobId)
      <3>2. a \in Call
        BY <3>1, AskTypes
      <3>3. Send(<<a>>)
        BY <2>2 DEF handleReplay
      <3> HIDE DEF a
      <3>4. <<a>> \in Seq(Call)
        BY <3>2
      <3> QED BY <1>0, <3>3, <3>4, SendType
    <2>3. ASSUME NEW id \in Jobs, handleSelect(id) PROVE CallsOK'
      <3> DEFINE r == refreshSelectedJob(id)
                 e == EventEffect(lastEvent, id)
      <3>1. r \in Seq(Call) /\ e \in Seq(Call)
        BY AskTypes, EffectType
      <3>2. Send(r \o e)
        BY <2>3 DEF handleSelect
      <3> HIDE DEF r, e
      <3>3. r \o e \in Seq(Call)
        BY <3>1, ConcatProperties
      <3> QED BY <1>0, <3>2, <3>3, SendType
    <2> QED BY <2>1, <2>2, <2>3
  <1> QED BY <1>1, <1>2, <1>3, <1>4 DEF Kept, TypeOK, PageOK, CallsOK

\* One call is rewritten.
LEMMA OneRewritten ==
    ASSUME CallsOK, NEW i \in DOMAIN calls, NEW c \in Call,
           calls' = [calls EXCEPT ![i] = c]
    PROVE  CallsOK'
  <1>1. i \in 1..Len(calls)
    BY DEF CallsOK
  <1>2. calls' \in Seq(Call) /\ Len(calls') = Len(calls)
    BY <1>1, ExceptSeq DEF CallsOK
  <1> QED BY <1>2 DEF CallsOK

\* The calls are served and answered, or fail.
LEMMA CallSteps ==
    ASSUME TypeOK, NEW i \in DOMAIN calls, Answer(i) \/ CallFails(i)
    PROVE  Kept
  <1>0. /\ FeedTypeOK /\ PageOK /\ CallsOK
        /\ faults \in 0..MaxFaults /\ harm \in SUBSET {"event", "answer"}
    BY TypeParts
  <1>1. calls[i] \in Call
    BY <1>0, ElementOfSeq DEF CallsOK
  <1>2. /\ calls[i].job \in Jobs /\ calls[i].for \in Jobs
        /\ calls[i].seen # None => calls[i].seen \in 0..MaxVersions
    BY <1>1 DEF Call
  <1>3. /\ Without(i) \in Seq(Call) /\ Len(Without(i)) = Len(calls) - 1
        /\ Len(calls) \in Nat /\ Len(calls) <= MaxCalls /\ MaxCalls \in Nat
    BY <1>0, WithoutType, DashboardAssumption, LenProperties DEF CallsOK
  <1>4. CASE ServeJob(i)
    <2>1. FeedTypeOK' /\ UNCHANGED feedVars
      BY <1>0, <1>4, FeedTypes DEF ServeJob
    <2>2. /\ PageOK' /\ faults' \in 0..MaxFaults
          /\ harm' \in SUBSET {"event", "answer"}
      BY <1>4, Rest DEF ServeJob
    <2> DEFINE c == [calls[i] EXCEPT !.seen = version[calls[i].job]]
    <2>3. c \in Call
      BY <1>0, <1>1, <1>2 DEF Call, FeedTypeOK
    <2>4. calls' = [calls EXCEPT ![i] = c]
      BY <1>4 DEF ServeJob
    <2> HIDE DEF c
    <2>5. CallsOK'
      BY <1>0, <2>3, <2>4, OneRewritten
    <2> QED BY <2>1, <2>2, <2>5 DEF Kept, TypeOK, PageOK, CallsOK
  <1>5. CASE DetailAnswered(i) \/ CallFails(i)
    <2>1. FeedTypeOK' /\ UNCHANGED feedVars
      BY <1>0, <1>5, FeedTypes DEF DetailAnswered, CallFails
    <2>2. PageOK'
      <3>1. CASE DetailAnswered(i)
        <4>1. selectedJob' \in [id : Jobs, version : 0..MaxVersions]
          BY <1>2, <3>1 DEF DetailAnswered
        <4> QED BY <1>0, <3>1, <4>1 DEF DetailAnswered, PageOK
      <3>2. CASE CallFails(i)
        BY <3>2, Rest DEF CallFails
      <3> QED BY <1>5, <3>1, <3>2
    <2>3. faults' \in 0..MaxFaults /\ harm' \in SUBSET {"event", "answer"}
      BY <1>0, <1>5, CountTypes DEF DetailAnswered, CallFails
    <2>4. calls' = Without(i)
      BY <1>5 DEF DetailAnswered, CallFails
    <2>5. CallsOK'
      BY <1>3, <2>4 DEF CallsOK
    <2> QED BY <2>1, <2>2, <2>3, <2>5 DEF Kept, TypeOK, PageOK, CallsOK
  <1>6. CASE ReplayAccepted(i) \/ ReplayRefused(i)
    <2>1. FeedTypeOK' /\ [FeedNext]_feedVars
      BY <1>0, <1>2, <1>6, FeedTypes DEF ReplayAccepted, ReplayRefused
    <2>2. PageOK' /\ harm' \in SUBSET {"event", "answer"}
      BY <1>6, Rest DEF ReplayAccepted, ReplayRefused
    <2>3. faults' \in 0..MaxFaults
      BY <1>0, <1>6, Rest, CountTypes DEF ReplayAccepted, ReplayRefused
    <2>4. ASSUME ReplayAccepted(i) PROVE CallsOK'
      <3> DEFINE v == version'[calls[i].job]
                 c == [calls[i] EXCEPT !.kind = "ok", !.seen = v]
      <3>1. v \in 0..MaxVersions
        BY <1>2, <2>1 DEF FeedTypeOK
      <3>2. calls' = [calls EXCEPT ![i] = c]
        BY <2>4 DEF ReplayAccepted
      <3> HIDE DEF v
      <3>3. c \in Call
        BY <1>1, <3>1 DEF Call
      <3> HIDE DEF c
      <3> QED BY <1>0, <3>2, <3>3, OneRewritten
    <2>5. ASSUME ReplayRefused(i) PROVE CallsOK'
      <3> DEFINE c == [calls[i] EXCEPT !.kind = "refused"]
      <3>1. c \in Call
        BY <1>1 DEF Call
      <3>2. calls' = [calls EXCEPT ![i] = c]
        BY <2>5 DEF ReplayRefused
      <3> HIDE DEF c
      <3> QED BY <1>0, <3>1, <3>2, OneRewritten
    <2>6. CallsOK'
      BY <1>6, <2>4, <2>5
    <2> QED BY <2>1, <2>2, <2>3, <2>6 DEF Kept, TypeOK, PageOK, CallsOK
  <1>7. CASE ReplayAnswered(i)
    <2>1. FeedTypeOK' /\ UNCHANGED feedVars
      BY <1>0, <1>7, FeedTypes DEF ReplayAnswered
    <2>2. PageOK' /\ faults' \in 0..MaxFaults
      BY <1>7, Rest DEF ReplayAnswered
    <2>3. harm' \in SUBSET {"event", "answer"}
      BY <1>0, <1>7, CountTypes DEF ReplayAnswered
    <2> DEFINE a == Without(i)
               b == onReplayed(calls[i])
    <2>4. b \in Seq(Call) /\ Len(b) \in 0..1
      <3>1. CASE calls[i].kind = "ok"
        BY <1>2, <3>1, AskTypes DEF onReplayed
      <3>2. CASE calls[i].kind # "ok"
        BY <3>2 DEF onReplayed
      <3> QED BY <3>1, <3>2
    <2>5. a \in Seq(Call) /\ Len(a) = Len(calls) - 1 /\ calls' = a \o b
      BY <1>3, <1>7 DEF ReplayAnswered
    <2> HIDE DEF a, b
    <2>6. a \o b \in Seq(Call) /\ Len(a \o b) = Len(a) + Len(b)
      BY <2>4, <2>5, ConcatProperties
    <2>7. Len(calls') <= MaxCalls
      <3> DEFINE n == Len(calls)
                 k == Len(b)
                 m == Len(calls')
      <3>1. n \in Nat /\ n <= MaxCalls /\ MaxCalls \in Nat
        BY <1>3
      <3>2. k \in 0..1
        BY <2>4
      <3>3. m = (n - 1) + k
        BY <2>5, <2>6
      <3> HIDE DEF n, k, m
      <3>4. m <= MaxCalls
        BY <3>1, <3>2, <3>3
      <3> QED BY <3>4 DEF m
    <2>8. CallsOK'
      BY <2>5, <2>6, <2>7 DEF CallsOK
    <2> QED BY <2>1, <2>2, <2>3, <2>8 DEF Kept, TypeOK, PageOK, CallsOK
  <1> QED BY <1>4, <1>5, <1>6, <1>7 DEF Answer

\* Every step keeps the types and is a step of the feed, or none of its own.
LEMMA StepKept == TypeOK /\ [Next]_vars => Kept
  <1> SUFFICES ASSUME TypeOK, [Next]_vars PROVE Kept
    OBVIOUS
  <1>1. CASE UNCHANGED vars
    BY <1>1 DEF vars, feedVars, pageVars, Kept, TypeOK, FeedTypeOK
  <1> QED BY <1>1, FeedSteps, ClickSteps, CallSteps DEF Next

\* The page starts well-typed.
LEMMA TypeInit == Init => TypeOK
  <1> SUFFICES ASSUME Init PROVE TypeOK
    OBVIOUS
  <1>1. FeedTypeOK
    <2>1. missed \in BOOLEAN
      BY Zenon DEF Init, FeedInit
    <2>2. version \in [Jobs -> 0..MaxVersions] /\ untold \in SUBSET Jobs
      BY FeedAssumption DEF Init, FeedInit
    <2> QED BY <2>1, <2>2 DEF FeedTypeOK
  <1>2. CallsOK
    BY DashboardAssumption, EmptySeq DEF Init, CallsOK
  <1>3. PageOK /\ faults \in 0..MaxFaults /\ harm \in SUBSET {"event", "answer"}
    BY DashboardAssumption DEF Init, PageOK
  <1> QED BY <1>1, <1>2, <1>3, TypeParts

\* Whatever overtakes whatever, a call names a job and an answer a version
\* that exists, what is shown is such an answer, and the answer of a replay,
\* which sends a call in turn, does not exceed the bound on calls.
THEOREM DashboardTypeCorrect == Spec => []TypeOK
  <1>1. TypeOK /\ [Next]_vars => TypeOK'
    BY StepKept DEF Kept
  <1> QED BY <1>1, TypeInit, PTL DEF Spec

\* The page keeps to EventFeed's rules: jobs change and events come as the
\* feed allows, so what ChangePoller is shown to implement is what the
\* dashboard is checked on.  An accepted replay is one of the changes.
THEOREM UsesFeed == Spec => FeedSpec
  <1>1. Init => FeedInit
    BY DEF Init
  <1>2. TypeOK /\ [Next]_vars => [FeedNext]_feedVars
    BY StepKept DEF Kept
  <1> QED BY <1>1, <1>2, DashboardTypeCorrect, PTL DEF Spec, FeedSpec

=============================================================================
