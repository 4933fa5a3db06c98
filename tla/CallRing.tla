------------------------------ MODULE CallRing ------------------------------
(***************************************************************************)
(* An inbound call looking for somebody to answer it: the caller waits in  *)
(* a conference while the API rings the agents of a step of the call flow, *)
(* all at once (simulcall) or one per attempt (dial, round robin), and is  *)
(* sent on when none of them answers (apps/api/src/phone-call,             *)
(* apps/api/src/twilio/twilio-webhook.controller.ts, call-flow).           *)
(*                                                                         *)
(* The API keeps what it knows of the ring in one JSON column, metaValue,  *)
(* which every webhook reads, changes and writes back whole. Webhooks are  *)
(* served concurrently and every await is a step. Twilio is external: it   *)
(* keeps the calls and the conference, and delivers webhooks in any order. *)
(* What it is asked may fail, and so may any statement: most failures are  *)
(* logged, and the webhook goes on as if nothing had happened.             *)
(***************************************************************************)
EXTENDS Naturals, FiniteSets, Sequences

CONSTANTS
    Agent,
    CallFlow,    \* call flows: for each ring its agents, and which rings are
                 \* attempts of a round robin
    Handler,     \* webhooks the API can be serving at once
    MaxLegs,     \* bound on calls to agents
    MaxAsks,     \* bound on the rings the caller is sent to
    MaxFaults    \* bound on requests and statements that fail

Leg == 1 .. MaxLegs

ASSUME RingAssumption ==
    /\ CallFlow \subseteq [rings : Seq(Seq(Agent)), robin : SUBSET Nat]
    /\ {MaxLegs, MaxFaults} \subseteq Nat /\ MaxAsks \in Nat \ {0}

VARIABLES
    flow,      \* the call flow of the number called
    caller,    \* the caller's call: where it is, for which ring, after how many requests
    hosted,    \* the conference was opened by the caller, and reports its events
    leg,       \* the calls to agents, for which ring and which request of the caller
    meta,      \* phone_calls.metaValue
    answered,  \* phone_calls.answeredAt is set
    hooks,     \* webhooks Twilio has not delivered yet
    run,       \* webhooks being served
    faults,    \* faults left
    crossed,   \* a write of metaValue has undone another
    unread,    \* the flag was cleared under a webhook about to read it
    stray,     \* an agent answered when no conference of the caller was open
    early,     \* calls to agents whose end was served before they were on record
    late,      \* calls to agents put on record when no conference of the caller was open
    loose,     \* calls to agents that could not be hung up, or not be put on record
    stuck,     \* requests of the caller out of whose conference a redirection failed
    kept,      \* the caller's call could not be hung up
    cut        \* a webhook was not served to its end

ringVars == <<flow, caller, hosted, leg, meta, answered, hooks, run, faults, crossed,
              unread, stray, early, late, loose, stuck, kept, cut>>

-----------------------------------------------------------------------------
(* Records                                                                  *)

\* Ring 0 is none, the ring after the last is what follows: voicemail or goodbye.
Meta == [ring : Nat, sids : SUBSET Leg, failed : BOOLEAN]

Hook == [kind : {"twiml", "dialEnd", "callerJoin", "left", "agentJoin", "agentLeft", "unanswered"},
         ring : Nat,
         n    : 0 .. MaxAsks,
         leg  : {0} \cup Leg]

\* A webhook of the caller's call, or the conference; and one of an agent's call.
OfCaller(kind, ring, n) == [kind |-> kind, ring |-> ring, n |-> n, leg |-> 0]
OfAgent(kind, l) == [kind |-> kind, ring |-> 0, n |-> 0, leg |-> l]

Pc == {"idle", "answered", "target", "targetWrite", "dialRead", "dial", "store", "storeWrite",
       "join", "mark", "joinHang", "joinWrite", "purge", "purgeHang", "purgeWrite", "remove",
       "removeWrite", "check", "flag", "failed", "redirect", "clear", "clearWrite",
       "hangCaller"}

Serving == [pc   : Pc,
            hook : Hook,
            saw  : Meta,              \* metaValue as it was read
            old  : BOOLEAN,           \* somebody has written it since
            to   : Seq(Agent),        \* agents still to be called
            hang : SUBSET Leg,        \* calls still to be hung up
            leg  : {0} \cup Leg]      \* the call just placed

NoMeta == [ring |-> 0, sids |-> {}, failed |-> FALSE]

Idle == [pc |-> "idle", hook |-> OfCaller("twiml", 0, 0), saw |-> NoMeta, old |-> FALSE, to |-> <<>>, hang |-> {}, leg |-> 0]

\* The state has its types at every moment, and the ring on record is one of the flow.
CallTypeOK ==
    /\ flow \in CallFlow
    /\ caller \in [at : {"asks", "waits", "message", "over"}, ring : Nat, n : 1 .. MaxAsks]
    /\ hosted \in BOOLEAN
    /\ leg \in [Leg -> [at : {"none", "ringing", "in", "over", "dropped"},
                       ring : Nat, n : 0 .. MaxAsks]]
    /\ meta \in Meta /\ meta.ring <= Len(flow.rings)
    /\ answered \in BOOLEAN
    /\ hooks \subseteq Hook
    /\ run \in [Handler -> Serving]
    /\ faults \in 0 .. MaxFaults
    /\ crossed \in BOOLEAN
    /\ unread \in BOOLEAN
    /\ stray \in BOOLEAN
    /\ early \subseteq Leg
    /\ late \subseteq Leg
    /\ loose \subseteq Leg
    /\ stuck \subseteq 1 .. MaxAsks
    /\ kept \in BOOLEAN
    /\ cut \in BOOLEAN

\* handleIncomingVoice has created the row and executes the first step.
RingInit ==
    /\ flow \in CallFlow
    /\ caller = [at |-> "asks", ring |-> 1, n |-> 1]
    /\ hosted = FALSE
    /\ leg = [l \in Leg |-> [at |-> "none", ring |-> 0, n |-> 0]]
    /\ meta = NoMeta
    /\ answered = FALSE
    /\ hooks = {OfCaller("twiml", 1, 1)}
    /\ run = [h \in Handler |-> Idle]
    /\ faults = MaxFaults
    /\ crossed = FALSE
    /\ unread = FALSE
    /\ stray = FALSE
    /\ early = {}
    /\ late = {}
    /\ loose = {}
    /\ stuck = {}
    /\ kept = FALSE
    /\ cut = FALSE

-----------------------------------------------------------------------------
(* Twilio: the calls and the conference                                     *)

In == {l \in Leg : leg[l].at = "in"}

\* Everybody in the conference is there with endConferenceOnExit: when one leaves it
\* ends for all. It reports to the API only if the caller opened it. The caller's
\* participant-leave and conference-end run the same handler: "left" is either.
Reports == IF ~hosted THEN {}
           ELSE {OfCaller("left", 0, caller.n)} \cup {OfAgent("agentLeft", l) : l \in In}

Emptied == [l \in Leg |-> IF l \in In THEN [leg[l] EXCEPT !.at = "over"] ELSE leg[l]]

\* The caller's call ends: by the caller, or hung up by the API.
CallerGoes(more) ==
    /\ caller' = [caller EXCEPT !.at = "over"]
    /\ IF caller.at = "waits"
       THEN leg' = Emptied /\ hosted' = FALSE /\ hooks' = more \cup Reports
       ELSE UNCHANGED <<leg, hosted>> /\ hooks' = more

\* An agent's call in the conference ends; a caller there asks for the action of the <Dial>.
AgentGoes(l, more) ==
    /\ leg' = Emptied
    /\ hosted' = FALSE
    /\ IF caller.at = "waits"
       THEN /\ caller.n < MaxAsks
            /\ caller' = [caller EXCEPT !.at = "asks", !.n = @ + 1]
            /\ hooks' = more \cup Reports
                             \cup {OfCaller("dialEnd", caller.ring, caller.n + 1)}
       ELSE UNCHANGED caller /\ hooks' = more \cup Reports

\* hangupCall of an agent's call, whatever it is doing. Asked to "complete" a call that
\* rings, Twilio may report it as not answered or as completed, which the API ignores.
Hangs(l) ==
    \/ /\ leg[l].at = "ringing"
       /\ \/ leg' = [leg EXCEPT ![l].at = "over"] /\ hooks' = hooks \cup {OfAgent("unanswered", l)}
          \/ leg' = [leg EXCEPT ![l].at = "dropped"] /\ UNCHANGED hooks
       /\ UNCHANGED <<caller, hosted>>
    \/ leg[l].at = "in" /\ AgentGoes(l, hooks)
    \/ leg[l].at \in {"over", "dropped"} /\ UNCHANGED <<leg, hooks, caller, hosted>>

twilio == <<caller, hosted, leg, hooks>>
known == <<meta, answered>>
lapses == <<loose, stuck, kept, cut>>
given == <<flow, faults, lapses>>
notes == <<crossed, unread, stray, early, late>>

\* The caller hangs up.
CallerHangsUp ==
    /\ caller.at # "over"
    /\ CallerGoes(hooks)
    /\ UNCHANGED <<known, run, given, notes>>

\* An agent picks up and enters the conference, or opens it.
AgentAnswers(l) ==
    /\ leg[l].at = "ringing"
    /\ leg' = [leg EXCEPT ![l].at = "in"]
    /\ hooks' = hooks \cup (IF hosted THEN {OfAgent("agentJoin", l)} ELSE {})
    /\ stray' = (stray \/ ~hosted)
    /\ UNCHANGED <<caller, hosted, known, run, given, crossed, unread, early, late>>

\* Busy, no answer in time, not registered.
AgentFails(l) ==
    /\ leg[l].at = "ringing"
    /\ leg' = [leg EXCEPT ![l].at = "over"]
    /\ hooks' = hooks \cup {OfAgent("unanswered", l)}
    /\ UNCHANGED <<caller, hosted, known, run, given, notes>>

\* An agent ends the conversation.
AgentHangsUp(l) ==
    /\ leg[l].at = "in"
    /\ AgentGoes(l, hooks)
    /\ UNCHANGED <<known, run, given, notes>>

-----------------------------------------------------------------------------
(* The webhooks                                                             *)

Is(h, pc) == run[h].pc = pc
Goes(h, pc) == run' = [run EXCEPT ![h].pc = pc]
Ends(h) == run' = [run EXCEPT ![h] = Idle]
Reads(h, pc) == run' = [run EXCEPT ![h].pc = pc, ![h].saw = meta, ![h].old = FALSE]

\* A webhook that has read metaValue and is still to write it.
Holding == {"targetWrite", "storeWrite", "mark", "joinHang", "joinWrite", "purgeHang",
            "purgeWrite", "removeWrite", "flag", "clearWrite"}

\* metaValue is written back as it was read but for one field: what the others hold is old.
Writes(h, new, next) ==
    /\ meta' = new
    /\ crossed' = (crossed \/ run[h].old)
    /\ run' = [g \in Handler |->
                 IF g = h THEN IF next = "idle" THEN Idle
                               ELSE [run[h] EXCEPT !.pc = next, !.saw = NoMeta, !.old = FALSE]
                 ELSE [run[g] EXCEPT !.old = @ \/ run[g].pc \in Holding]]

\* Mutants: the list of calls is overwritten, or written back whole.
AddedAlone(sids, l) == {l}
WithoutNone(sids, l) == sids

\* push, and filter by another SID
Added(sids, l) == sids \cup {l}

Without(sids, l) == sids \ {l}

\* Mutant: one call may be left.
NoneLeftButOne(m) == Cardinality(m.sids) <= 1

NoneLeft(m) == m.sids = {}

\* Mutant: one step too many.
PastByOne(ring) == ring > Len(flow.rings) + 1

\* No step, or no attempt, is left to ring anybody.
Past(ring) == ring > Len(flow.rings)

FirstStep == [twiml |-> "target", dialEnd |-> "answered", callerJoin |-> "dialRead",
              left |-> "purge", agentJoin |-> "join",
              agentLeft |-> "hangCaller", unanswered |-> "remove"]

\* A webhook arrives.
Deliver(h) ==
    /\ Is(h, "idle")
    /\ \E k \in hooks :
          /\ hooks' = hooks \ {k}
          /\ run' = [run EXCEPT ![h] = [Idle EXCEPT !.pc = FirstStep[k.kind], !.hook = k]]
    /\ UNCHANGED <<caller, hosted, leg, known, given, notes>>

\* The caller's request is still the one Twilio waits for.
Wanted(h) == caller.at = "asks" /\ caller.n = run[h].hook.n

(* wasCallAnswered: a call that was answered ends here, and so does an attempt of a      *)
(* round robin; otherwise the flow goes on.                                              *)
DialEnded(h) ==
    /\ Is(h, "answered")
    /\ IF answered \/ run[h].hook.ring \in flow.robin
       THEN /\ caller' = IF Wanted(h) THEN [caller EXCEPT !.at = "over"] ELSE caller
            /\ Ends(h)
       ELSE /\ UNCHANGED caller
            /\ run' = [run EXCEPT ![h].pc = "target", ![h].hook.ring = @ + 1]
    /\ UNCHANGED <<hosted, leg, known, hooks, given, notes>>

\* executeStep: past the last ring there is a message, voicemail or goodbye.
LeaveMessage(h) ==
    /\ Is(h, "target") /\ Past(run[h].hook.ring)
    /\ caller' = IF Wanted(h) THEN [caller EXCEPT !.at = "message", !.ring = run[h].hook.ring]
                 ELSE caller
    /\ Ends(h)
    /\ UNCHANGED <<hosted, leg, known, hooks, given, notes>>

\* storeConferenceTarget.
TargetRead(h) ==
    /\ Is(h, "target") /\ ~Past(run[h].hook.ring)
    /\ Reads(h, "targetWrite")
    /\ UNCHANGED <<twilio, known, given, notes>>

\* The caller enters the conference, or finds an agent who has opened it.
Enters(h) ==
    IF Wanted(h)
    THEN /\ caller' = [caller EXCEPT !.at = "waits", !.ring = run[h].hook.ring]
         /\ hosted' = (In = {})
         /\ hooks' = hooks \cup IF In = {} THEN {OfCaller("callerJoin", 0, caller.n)} ELSE {}
    ELSE UNCHANGED <<caller, hosted, hooks>>

TargetWrite(h) ==
    /\ Is(h, "targetWrite")
    /\ Writes(h, [run[h].saw EXCEPT !.ring = run[h].hook.ring], "idle")
    /\ Enters(h)
    /\ UNCHANGED <<leg, answered, given, unread, stray, early, late>>

-----------------------------------------------------------------------------
(* The caller has joined: dialAgentIntoConference                           *)

DialRead(h) ==
    /\ Is(h, "dialRead")
    /\ IF meta.ring = 0 THEN Ends(h)
       ELSE run' = [run EXCEPT ![h].pc = "dial", ![h].hook.ring = meta.ring,
                               ![h].to = flow.rings[meta.ring]]
    /\ UNCHANGED <<twilio, known, given, notes>>

\* Calls are numbered in the order they are placed.
NextLeg(l) == leg[l].at = "none" /\ \A m \in Leg : m < l => leg[m].at # "none"

\* dialSingleAgentIntoConference: the call is placed, and put on record afterwards.
Dial(h) ==
    /\ Is(h, "dial") /\ run[h].to # <<>>
    /\ \E l \in Leg :
          /\ NextLeg(l)
          /\ leg' = [leg EXCEPT ![l] = [at |-> "ringing", ring |-> run[h].hook.ring,
                                       n |-> run[h].hook.n]]
          /\ run' = [run EXCEPT ![h].pc = "store", ![h].to = Tail(@), ![h].leg = l]
    /\ UNCHANGED <<caller, hosted, known, hooks, given, notes>>

DialDone(h) ==
    /\ Is(h, "dial") /\ run[h].to = <<>>
    /\ Ends(h)
    /\ UNCHANGED <<twilio, known, given, notes>>

\* storeAgentCallSid.
StoreRead(h) ==
    /\ Is(h, "store")
    /\ Reads(h, "storeWrite")
    /\ UNCHANGED <<twilio, known, given, notes>>

StoreWrite(h) ==
    /\ Is(h, "storeWrite")
    /\ Writes(h, [run[h].saw EXCEPT !.sids = Added(@, run[h].leg)], "dial")
    /\ late' = IF hosted THEN late ELSE late \cup {run[h].leg}
    /\ UNCHANGED <<twilio, answered, given, unread, stray, early>>

-----------------------------------------------------------------------------
(* An agent has joined: handleAgentJoinedConference                         *)

JoinRead(h) ==
    /\ Is(h, "join")
    /\ Reads(h, "mark")
    /\ UNCHANGED <<twilio, known, given, notes>>

\* The status becomes in-progress; the other calls on record are hung up one by one.
JoinMark(h) ==
    /\ Is(h, "mark")
    /\ answered' = TRUE
    /\ LET others == Without(run[h].saw.sids, run[h].hook.leg) IN
          IF others = {} THEN Ends(h)
          ELSE run' = [run EXCEPT ![h].pc = "joinHang", ![h].hang = others]
    /\ UNCHANGED <<twilio, meta, given, notes>>

\* The next call of the list; behind the last one the record is written.
Strikes(h, l, next) ==
    run' = [run EXCEPT ![h].hang = @ \ {l}, ![h].pc = IF run[h].hang = {l} THEN next ELSE @]

HangOne(h, next) == \E l \in run[h].hang : Hangs(l) /\ Strikes(h, l, next)

JoinHang(h) ==
    /\ Is(h, "joinHang")
    /\ HangOne(h, "joinWrite")
    /\ UNCHANGED <<known, given, notes>>

JoinWrite(h) ==
    /\ Is(h, "joinWrite")
    /\ Writes(h, [run[h].saw EXCEPT !.sids = {run[h].hook.leg}], "idle")
    /\ UNCHANGED <<twilio, answered, given, unread, stray, early, late>>

-----------------------------------------------------------------------------
(* The caller has left, or the conference ended: terminatePendingAgentCalls *)

PurgeRead(h) ==
    /\ Is(h, "purge")
    /\ IF NoneLeft(meta) THEN Ends(h)
       ELSE run' = [run EXCEPT ![h].pc = "purgeHang", ![h].saw = meta, ![h].old = FALSE, ![h].hang = meta.sids]
    /\ UNCHANGED <<twilio, known, given, notes>>

PurgeHang(h) ==
    /\ Is(h, "purgeHang")
    /\ HangOne(h, "purgeWrite")
    /\ UNCHANGED <<known, given, notes>>

PurgeWrite(h) ==
    /\ Is(h, "purgeWrite")
    /\ Writes(h, [run[h].saw EXCEPT !.sids = {}], "idle")
    /\ UNCHANGED <<twilio, answered, given, unread, stray, early, late>>

\* An agent has left the conference: the caller's call is hung up.
HangCaller(h) ==
    /\ Is(h, "hangCaller")
    /\ IF caller.at = "over" THEN UNCHANGED twilio ELSE CallerGoes(hooks)
    /\ Ends(h)
    /\ UNCHANGED <<known, given, notes>>

-----------------------------------------------------------------------------
(* An agent did not answer: handleAgentCallStatus, service and controller   *)

Storing(l) == \E g \in Handler : run[g].leg = l /\ run[g].pc \in {"store", "storeWrite"}

RemoveRead(h) ==
    /\ Is(h, "remove")
    /\ Reads(h, "removeWrite")
    /\ UNCHANGED <<twilio, known, given, notes>>

\* removeAgentCallSid.
RemoveWrite(h) ==
    /\ Is(h, "removeWrite")
    /\ LET l == run[h].hook.leg IN
          /\ Writes(h, [run[h].saw EXCEPT !.sids = Without(@, l)], "check")
          /\ early' = IF Storing(l) THEN early \cup {l} ELSE early
    /\ UNCHANGED <<twilio, answered, given, unread, stray, late>>

\* No call is left on record: the ring has failed.
Check(h) ==
    /\ Is(h, "check")
    /\ IF NoneLeft(meta) THEN Reads(h, "flag") ELSE Goes(h, "failed")
    /\ UNCHANGED <<twilio, known, given, notes>>

Flag(h) ==
    /\ Is(h, "flag")
    /\ Writes(h, [run[h].saw EXCEPT !.failed = TRUE], "failed")
    /\ UNCHANGED <<twilio, answered, given, unread, stray, early, late>>

\* didConferenceAttemptFail.
FailedRead(h) ==
    /\ Is(h, "failed")
    /\ IF meta.failed THEN Goes(h, "redirect") ELSE Ends(h)
    /\ UNCHANGED <<twilio, known, given, notes>>

\* The caller is taken out of the conference and sent to the next attempt or step.
Redirect(h) ==
    /\ Is(h, "redirect")
    /\ LET next == leg[run[h].hook.leg].ring + 1 IN
          IF caller.at = "over" THEN UNCHANGED twilio
          ELSE /\ caller.n < MaxAsks
               /\ caller' = [at |-> "asks", ring |-> next, n |-> caller.n + 1]
               /\ hooks' = hooks \cup {OfCaller("twiml", next, caller.n + 1)}
                                 \cup IF caller.at = "waits" THEN Reports ELSE {}
               /\ IF caller.at = "waits" THEN leg' = Emptied /\ hosted' = FALSE
                  ELSE UNCHANGED <<leg, hosted>>
    /\ Goes(h, "clear")
    /\ UNCHANGED <<known, given, notes>>

\* clearConferenceAttemptFailed.
ClearRead(h) ==
    /\ Is(h, "clear")
    /\ Reads(h, "clearWrite")
    /\ UNCHANGED <<twilio, known, given, notes>>

ClearWrite(h) ==
    /\ Is(h, "clearWrite")
    /\ Writes(h, [run[h].saw EXCEPT !.failed = FALSE], "idle")
    /\ unread' = (unread \/ \E g \in Handler : Is(g, "failed"))
    /\ UNCHANGED <<twilio, answered, given, stray, early, late>>

-----------------------------------------------------------------------------
(* Failures: a request to Twilio is refused, or a statement throws           *)

Fault == faults > 0 /\ faults' = faults - 1 /\ UNCHANGED flow

\* storeConferenceTarget: logged, and the caller enters the conference all the same.
TargetFails(h) ==
    /\ Is(h, "targetWrite") \/ (Is(h, "target") /\ ~Past(run[h].hook.ring))
    /\ Fault
    /\ Enters(h)
    /\ Ends(h)
    /\ UNCHANGED <<leg, known, notes, lapses>>

\* Elsewhere in a request of the caller's call: an apology, and the call ends.
AskFails(h) ==
    /\ run[h].pc \in {"answered", "target", "targetWrite"}
    /\ Fault
    /\ caller' = IF Wanted(h) THEN [caller EXCEPT !.at = "over"] ELSE caller
    /\ Ends(h)
    /\ UNCHANGED <<hosted, leg, hooks, known, notes, lapses>>

\* The call cannot be placed: logged, and the next agent is tried.
DialFails(h) ==
    /\ Is(h, "dial") /\ run[h].to # <<>>
    /\ Fault
    /\ run' = [run EXCEPT ![h].to = Tail(@)]
    /\ UNCHANGED <<twilio, known, notes, lapses>>

\* The call is placed and cannot be put on record: the same.
StoreFails(h) ==
    /\ run[h].pc \in {"store", "storeWrite"}
    /\ Fault
    /\ run' = [run EXCEPT ![h].pc = "dial"]
    /\ loose' = loose \cup {run[h].leg}
    /\ UNCHANGED <<twilio, known, notes, stuck, kept, cut>>

\* An agent's call cannot be hung up: logged, and written off like the others.
HangFails(h, next) ==
    /\ Fault
    /\ \E l \in run[h].hang :
          /\ leg[l].at \in {"ringing", "in"}
          /\ loose' = loose \cup {l}
          /\ Strikes(h, l, next)
    /\ UNCHANGED <<twilio, known, notes, stuck, kept, cut>>

JoinHangFails(h) == Is(h, "joinHang") /\ HangFails(h, "joinWrite")
PurgeHangFails(h) == Is(h, "purgeHang") /\ HangFails(h, "purgeWrite")

\* The caller's call cannot be hung up: logged.
HangCallerFails(h) ==
    /\ Is(h, "hangCaller") /\ caller.at # "over"
    /\ Fault
    /\ kept' = TRUE
    /\ Ends(h)
    /\ UNCHANGED <<twilio, known, notes, loose, stuck, cut>>

\* The caller cannot be redirected, or the call flow is gone or its step another one:
\* the flag is cleared all the same.
RedirectFails(h) ==
    /\ Is(h, "redirect") /\ caller.at # "over"
    /\ Fault
    /\ stuck' = IF caller.at = "waits" THEN stuck \cup {caller.n} ELSE stuck
    /\ Goes(h, "clear")
    /\ UNCHANGED <<twilio, known, notes, loose, kept, cut>>

\* A statement of another webhook throws, or the process stops: what the webhook has
\* still to do is not done, and Twilio does not repeat it.
IsCut(h) ==
    /\ run[h].pc \notin {"idle", "answered", "target", "targetWrite"}
    /\ Fault
    /\ cut' = TRUE
    /\ loose' = IF run[h].pc \in {"store", "storeWrite"} THEN loose \cup {run[h].leg} ELSE loose
    /\ Ends(h)
    /\ UNCHANGED <<twilio, known, notes, stuck, kept>>

-----------------------------------------------------------------------------
Flows(h) == DialEnded(h) \/ LeaveMessage(h) \/ TargetRead(h) \/ TargetWrite(h)
Dials(h) == DialRead(h) \/ Dial(h) \/ DialDone(h) \/ StoreRead(h) \/ StoreWrite(h)
Joins(h) == JoinRead(h) \/ JoinMark(h) \/ JoinHang(h) \/ JoinWrite(h)
Purges(h) == PurgeRead(h) \/ PurgeHang(h) \/ PurgeWrite(h) \/ HangCaller(h)
Moves(h) == RemoveRead(h) \/ RemoveWrite(h) \/ Check(h) \/ Flag(h) \/ FailedRead(h)
            \/ Redirect(h) \/ ClearRead(h) \/ ClearWrite(h)

Fails(h) == TargetFails(h) \/ AskFails(h) \/ DialFails(h) \/ StoreFails(h) \/ JoinHangFails(h)
            \/ PurgeHangFails(h) \/ HangCallerFails(h) \/ RedirectFails(h) \/ IsCut(h)

Works(h) == Flows(h) \/ Dials(h) \/ Joins(h) \/ Purges(h) \/ Moves(h)

RingNext ==
    \/ CallerHangsUp
    \/ \E l \in Leg : AgentAnswers(l) \/ AgentFails(l) \/ AgentHangsUp(l)
    \/ \E h \in Handler : Deliver(h) \/ Works(h) \/ Fails(h)

RingSpec == RingInit /\ [][RingNext]_ringVars

-----------------------------------------------------------------------------
(* Properties                                                               *)

Quiet == hooks = {} /\ \A h \in Handler : Is(h, "idle")
Ringing == {l \in Leg : leg[l].at = "ringing"}
Dialing == \E h \in Handler : run[h].pc \in {"dial", "store", "storeWrite"}

\* Once every webhook has been served, a caller still in the conference, for whom an
\* agent has been called since the caller entered it, has an agent in it or a phone
\* ringing. Otherwise the caller listens to a ring tone for ever: nothing but an agent's
\* end makes handleAgentCallStatus move the caller on. It holds whichever calls cannot be
\* placed, put on record or hung up, and though the conference target may not be stored.
\* It fails only if two webhooks wrote metaValue over each other, if the flag was cleared
\* under a webhook that was about to read it, if an agent's call ended before it was on
\* record, if an agent answered while the caller was between two conferences, if the API
\* hung up agents itself for an event of an earlier ring, if the redirection out of this
\* conference failed, if the caller's call could not be hung up, or if a webhook was not
\* served to its end; and if no agent could be called at all.
NobodyWaitsAlone ==
    (/\ Quiet
     /\ caller.at = "waits" /\ caller.n \notin stuck
     /\ \E l \in Leg : leg[l].n = caller.n)
    => \/ In \cup Ringing # {}
       \/ crossed \/ unread \/ stray \/ early # {} \/ kept \/ cut
       \/ \E l \in Leg : leg[l].at = "dropped"

\* Once every webhook has been served, no phone rings for a caller who has hung up:
\* terminatePendingAgentCalls hangs up what it reads. The exceptions are a call put on
\* record when no conference opened by the caller was there to report that the caller
\* leaves it, a call that could not be hung up or put on record (the API strikes the one
\* off the record and never knew the other), writes of metaValue that crossed, and a
\* webhook that was not served to its end.
NobodyRingsForTheGone ==
    Quiet /\ caller.at = "over" => Ringing \subseteq late \cup loose \/ crossed \/ cut

\* handleAgentCallStatus takes a ring for failed (and the caller out of it) only when
\* every call of the ring is over: none rings, none is being answered. The exceptions
\* are a call that could not be hung up or put on record, webhooks that crossed, as
\* above, and a ring whose agents are still being called: they are called one after
\* another, and the first may fail before the next is called. A webhook that was not
\* served to its end is none.
MovesOnWhenAllFailed ==
    [][\A h \in Handler :
          Is(h, "check") /\ run'[h].pc = "flag" =>
             \/ \A l \in Leg \ loose : leg[l].ring = leg[run[h].hook.leg].ring
                                         => leg[l].at \in {"over", "dropped"}
             \/ crossed \/ Dialing]_ringVars
=============================================================================
