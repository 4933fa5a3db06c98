--------------------------- MODULE CallRing_proofs ---------------------------
(***************************************************************************)
(* Theorems about the ring of an inbound call, for any call flows, number  *)
(* of webhooks served at once, calls and failures: what the API may take   *)
(* from metaValue when it gives a ring up, or hangs the agents up.         *)
(***************************************************************************)
EXTENDS CallRing, TLAPS

-----------------------------------------------------------------------------
(* The inductive invariants                                                 *)

Live(l) == leg[l].at \in {"ringing", "in"}
Done(l) == leg[l].at \in {"over", "dropped"}

\* A webhook about a call names one, and no answer is reported of calls that are over.
HookOK(k) ==
    /\ k.kind \in {"agentJoin", "agentLeft", "unanswered"} => k.leg \in Leg
    /\ k.kind = "unanswered" => Done(k.leg)

Legs == [Leg -> [at : {"none", "ringing", "in", "over", "dropped"}, ring : Nat,
                 n : 0 .. MaxAsks]]

\* The calls, the conference and the webhooks to come.
WorldInv ==
    /\ caller \in [at : {"asks", "waits", "message", "over"}, ring : Nat, n : 1 .. MaxAsks]
    /\ hosted \in BOOLEAN
    /\ leg \in Legs
    /\ hooks \subseteq Hook
    /\ \A l \in Leg : leg[l].at = "none" <=> leg[l].ring = 0
    /\ hosted => caller.at = "waits"
    /\ \A k \in hooks : HookOK(k)

\* What the API keeps.
KnownInv ==
    /\ flow \in CallFlow
    /\ meta \in Meta /\ meta.ring <= Len(flow.rings)
    /\ answered \in BOOLEAN
    /\ faults \in 0 .. MaxFaults
    /\ crossed \in BOOLEAN
    /\ unread \in BOOLEAN
    /\ stray \in BOOLEAN
    /\ early \subseteq Leg
    /\ late \subseteq Leg
    /\ loose \subseteq Leg
    /\ stuck \subseteq 1 .. MaxAsks
    /\ kept \in BOOLEAN
    /\ cut \in BOOLEAN

JoinPcs == {"join", "mark", "joinHang", "joinWrite"}
MovePcs == {"remove", "removeWrite", "check", "flag", "failed", "redirect", "clear", "clearWrite"}
DialPcs == {"dial", "store", "storeWrite"}

\* A webhook being served: each part of its handler runs for the kind it is about.
ServedOK(w) ==
    /\ w \in Serving
    /\ HookOK(w.hook)
    /\ w.saw.ring <= Len(flow.rings)
    /\ w.pc = "targetWrite" => w.hook.ring <= Len(flow.rings)
    /\ w.pc \in JoinPcs => w.hook.kind = "agentJoin"
    /\ w.pc \in MovePcs => w.hook.kind = "unanswered"
    /\ w.pc \in DialPcs => w.hook.ring # 0
    /\ w.pc \in {"store", "storeWrite"} => w.leg \in Leg

ServedInv == run \in [Handler -> Serving] /\ \A h \in Handler : ServedOK(run[h])

TypeInv == WorldInv /\ KnownInv /\ ServedInv

\* What a webhook has read is what there is, unless somebody has written since.
SawOK(w) == w.pc \in Holding /\ ~w.old => w.saw = meta

\* The calls a webhook hangs up before it writes: those behind it are over, or could not
\* be hung up.
HangOK(w) ==
    /\ w.pc \in {"joinHang", "joinWrite"} =>
          \A l \in w.saw.sids : l \in w.hang \/ l = w.hook.leg \/ Done(l) \/ l \in loose
    /\ w.pc \in {"purgeHang", "purgeWrite"} =>
          \A l \in w.saw.sids : l \in w.hang \/ Done(l) \/ l \in loose
    /\ w.pc \in {"joinWrite", "purgeWrite"} => w.hang = {}

\* As long as no writes crossed, the calls that ring or are answered are on record, or
\* about to be; but for those that could not be put on record or hung up.
Stores(w, l) == w.pc \in {"store", "storeWrite"} /\ w.leg = l
Stored(l) == \E g \in Handler : Stores(run[g], l)

OnRecord == ~crossed => \A l \in Leg \ loose : Live(l) => l \in meta.sids \/ Stored(l)

\* A phone that rings is put on record too late, or could not be hung up, or the caller is
\* still there, or the webhook that will hang it up has not been served to the end.
HangsUp(w, l) == w.pc = "purge" \/ (w.pc = "purgeHang" /\ l \in w.hang)
LeftToServe == \E k \in hooks : k.kind = "left"

Accounted ==
    ~crossed /\ ~cut => \A l \in Leg : leg[l].at = "ringing" =>
                           \/ l \in late \cup loose \/ Stored(l) \/ hosted \/ LeftToServe
                           \/ \E g \in Handler : HangsUp(run[g], l)

RecordInv ==
    /\ \A h \in Handler : SawOK(run[h]) /\ HangOK(run[h])
    /\ OnRecord
    /\ Accounted

RingInv == TypeInv /\ RecordInv

-----------------------------------------------------------------------------
(* Steps of the calls and the conference                                    *)

\* What every step but the placing of a call does to the calls: none starts to ring or
\* to be answered that did not, what is over stays over, and when the caller's
\* conference goes a webhook reports it.
Calm ==
    /\ \A l \in Leg : /\ Done(l) => leg'[l].at = leg[l].at
                      /\ leg'[l].at = "ringing" => leg[l].at = "ringing"
                      /\ leg'[l].at \in {"ringing", "in"} => Live(l)
                      /\ leg'[l].ring = leg[l].ring
    /\ hooks \subseteq hooks'
    /\ hosted => hosted' \/ \E k \in hooks' : k.kind = "left"

LEMMA HookStays ==
    ASSUME NEW k, HookOK(k),
           \A l \in Leg : Done(l) => leg'[l].at = leg[l].at
    PROVE  HookOK(k)'
  BY DEF HookOK, Done

LEMMA ReportsAreHooks ==
    ASSUME WorldInv
    PROVE  /\ Reports \subseteq Hook
           /\ \A k \in Reports : k.kind \in {"left", "agentLeft"} /\ HookOK(k)
           /\ hosted => \E k \in Reports : k.kind = "left"
  <1>1. /\ caller.n \in 0 .. MaxAsks /\ MaxAsks \in Nat /\ MaxLegs \in Nat
        /\ 0 \in Nat /\ 0 \in 0 .. MaxAsks
    BY RingAssumption DEF WorldInv
  <1>2. OfCaller("left", 0, caller.n) \in Hook
    BY <1>1 DEF OfCaller, Hook
  <1>3. \A l \in In : OfAgent("agentLeft", l) \in Hook
    BY <1>1 DEF OfAgent, Hook, In
  <1>4. Reports \subseteq Hook
    BY <1>2, <1>3 DEF Reports
  <1>5. \A k \in Reports : k.kind \in {"left", "agentLeft"} /\ HookOK(k)
    BY DEF Reports, OfCaller, OfAgent, HookOK, In
  <1>6. hosted => \E k \in Reports : k.kind = "left"
    <2>1. hosted => OfCaller("left", 0, caller.n) \in Reports
      BY DEF Reports
    <2>2. OfCaller("left", 0, caller.n).kind = "left"
      BY DEF OfCaller
    <2> QED BY <2>1, <2>2
  <1> QED BY <1>4, <1>5, <1>6

LEMMA CallersHook ==
    ASSUME NEW kind \in {"twiml", "dialEnd", "callerJoin"}, NEW ring \in Nat,
           NEW n \in 0 .. MaxAsks
    PROVE  OfCaller(kind, ring, n) \in Hook /\ HookOK(OfCaller(kind, ring, n))
  BY DEF OfCaller, Hook, HookOK

LEMMA AgentsHook ==
    ASSUME NEW kind \in {"agentJoin", "unanswered"}, NEW l \in Leg
    PROVE  /\ OfAgent(kind, l) \in Hook
           /\ OfAgent(kind, l).kind = kind /\ OfAgent(kind, l).leg = l
  <1>1. MaxAsks \in Nat /\ 0 \in 0 .. MaxAsks
    BY RingAssumption
  <1> QED BY <1>1 DEF OfAgent, Hook

LEMMA EmptiedIsLegs ==
    ASSUME WorldInv
    PROVE  /\ Emptied \in Legs
           /\ \A l \in Leg : /\ Emptied[l].ring = leg[l].ring
                             /\ leg[l].at = "in" => Emptied[l].at = "over"
                             /\ leg[l].at # "in" => Emptied[l].at = leg[l].at
  BY DEF WorldInv, Legs, Emptied, In

\* The conference empties, or nothing happens to the calls; hooks are added.
LEMMA EmptyingIsCalm ==
    ASSUME WorldInv, NEW more, more \subseteq Hook, \A k \in more : HookOK(k),
           hooks' = hooks \cup more,
           \/ leg' = leg
           \/ leg' = Emptied
    PROVE  /\ leg' \in Legs
           /\ hooks' \subseteq Hook /\ \A k \in hooks' : HookOK(k)'
           /\ \A l \in Leg : leg'[l].at = "none" <=> leg'[l].ring = 0
           /\ \A l \in Leg : /\ Done(l) => leg'[l].at = leg[l].at
                             /\ leg'[l].at = "ringing" => leg[l].at = "ringing"
                             /\ leg'[l].at \in {"ringing", "in"} => Live(l)
                             /\ leg'[l].ring = leg[l].ring
           /\ hooks \subseteq hooks'
  <1>1. leg \in Legs /\ Emptied \in Legs
    BY EmptiedIsLegs DEF WorldInv
  <1>2. \A l \in Leg : /\ Done(l) => leg'[l].at = leg[l].at
                       /\ leg'[l].at = "ringing" => leg[l].at = "ringing"
                       /\ leg'[l].at \in {"ringing", "in"} => Live(l)
                       /\ leg'[l].ring = leg[l].ring
    BY EmptiedIsLegs DEF Done, Live
  <1>3. \A l \in Leg : leg'[l].at = "none" <=> leg'[l].ring = 0
    BY EmptiedIsLegs DEF WorldInv
  <1>4. \A k \in hooks' : HookOK(k)'
    BY <1>2, HookStays DEF WorldInv
  <1> QED BY <1>1, <1>2, <1>3, <1>4 DEF WorldInv

LEMMA CallerGoesCalmly ==
    ASSUME WorldInv, CallerGoes(hooks)
    PROVE  WorldInv' /\ Calm
  <1>1. caller' \in [at : {"asks", "waits", "message", "over"}, ring : Nat, n : 1 .. MaxAsks]
        /\ caller'.at = "over"
    BY DEF CallerGoes, WorldInv
  <1>2. CASE caller.at = "waits"
    <2>1. hooks' = hooks \cup Reports /\ leg' = Emptied /\ hosted' = FALSE
      BY <1>2 DEF CallerGoes
    <2> QED BY <1>1, <2>1, ReportsAreHooks, EmptyingIsCalm DEF WorldInv, Calm
  <1>3. CASE caller.at # "waits"
    <2>1. hooks' = hooks \cup {} /\ leg' = leg /\ hosted' = hosted /\ ~hosted
      BY <1>3 DEF CallerGoes, WorldInv
    <2> QED BY <1>1, <2>1, EmptyingIsCalm DEF WorldInv, Calm
  <1> QED BY <1>2, <1>3

LEMMA AgentGoesCalmly ==
    ASSUME WorldInv, NEW l \in Leg, AgentGoes(l, hooks)
    PROVE  WorldInv' /\ Calm
  <1>1. CASE caller.at = "waits"
    <2> DEFINE ask == OfCaller("dialEnd", caller.ring, caller.n + 1)
    <2>1. /\ caller.ring \in Nat /\ caller.n \in 1 .. MaxAsks /\ MaxAsks \in Nat
          /\ caller.n < MaxAsks
      BY <1>1, RingAssumption DEF AgentGoes, WorldInv
    <2>2. caller.n + 1 \in 0 .. MaxAsks /\ caller.n + 1 \in 1 .. MaxAsks
      BY <2>1
    <2>3. ask \in Hook /\ HookOK(ask)
      BY <2>1, <2>2, CallersHook
    <2>4. /\ caller' \in [at : {"asks", "waits", "message", "over"}, ring : Nat, n : 1 .. MaxAsks]
          /\ leg' = Emptied /\ hosted' = FALSE
      BY <1>1, <2>2 DEF AgentGoes, WorldInv
    <2>5. hooks' = hooks \cup (Reports \cup {ask})
      BY <1>1 DEF AgentGoes
    <2> HIDE DEF ask
    <2>6. /\ Reports \cup {ask} \subseteq Hook
          /\ \A k \in Reports \cup {ask} : HookOK(k)
          /\ hosted => \E k \in hooks' : k.kind = "left"
      BY <2>3, <2>5, ReportsAreHooks
    <2> QED BY <2>4, <2>5, <2>6, EmptyingIsCalm DEF WorldInv, Calm
  <1>2. CASE caller.at # "waits"
    <2>1. hooks' = hooks \cup Reports /\ leg' = Emptied /\ hosted' = FALSE /\ caller' = caller
      BY <1>2 DEF AgentGoes
    <2> QED BY <2>1, ReportsAreHooks, EmptyingIsCalm DEF WorldInv, Calm
  <1> QED BY <1>1, <1>2

\* A call that rings ends, or is answered.
LEMMA RingingEndsCalmly ==
    ASSUME WorldInv, NEW l \in Leg, leg[l].at = "ringing", caller' = caller, hosted' = hosted,
           leg' \in Legs, leg'[l].ring = leg[l].ring, leg'[l].at \in {"in", "over", "dropped"},
           \A m \in Leg : m # l => leg'[m] = leg[m],
           NEW more, more \subseteq Hook, hooks' = hooks \cup more,
           \A k \in more : HookOK(k)'
    PROVE  WorldInv' /\ Calm
  <1>1. \A m \in Leg : /\ Done(m) => leg'[m].at = leg[m].at
                       /\ leg'[m].at = "ringing" => leg[m].at = "ringing"
                       /\ leg'[m].at \in {"ringing", "in"} => Live(m)
                       /\ leg'[m].ring = leg[m].ring
                       /\ leg'[m].at = "none" <=> leg[m].at = "none"
    BY DEF Done, Live
  <1>2. \A k \in hooks' : HookOK(k)'
    BY <1>1, HookStays DEF WorldInv
  <1> QED BY <1>1, <1>2 DEF WorldInv, Calm

LEMMA LegEnds ==
    ASSUME WorldInv, NEW l \in Leg, NEW at \in {"in", "over", "dropped"},
           leg' = [leg EXCEPT ![l].at = at]
    PROVE  /\ leg' \in Legs /\ leg'[l].ring = leg[l].ring /\ leg'[l].at = at
           /\ \A m \in Leg : m # l => leg'[m] = leg[m]
  BY DEF WorldInv, Legs

LEMMA HangsCalmly ==
    ASSUME WorldInv, NEW l \in Leg, Hangs(l)
    PROVE  WorldInv' /\ Calm /\ Done(l)'
  <1>1. CASE leg[l].at = "ringing" /\ leg' = [leg EXCEPT ![l].at = "over"]
             /\ hooks' = hooks \cup {OfAgent("unanswered", l)} /\ UNCHANGED <<caller, hosted>>
    <2> DEFINE more == {OfAgent("unanswered", l)}
    <2>1. /\ leg' \in Legs /\ leg'[l].ring = leg[l].ring /\ leg'[l].at = "over"
          /\ \A m \in Leg : m # l => leg'[m] = leg[m]
      BY <1>1, LegEnds
    <2>2. more \subseteq Hook /\ \A k \in more : HookOK(k)'
      BY <2>1, AgentsHook DEF HookOK, Done
    <2>3. hooks' = hooks \cup more /\ caller' = caller /\ hosted' = hosted
      BY <1>1
    <2> HIDE DEF more
    <2>4. WorldInv' /\ Calm
      BY <1>1, <2>1, <2>2, <2>3, RingingEndsCalmly
    <2> QED BY <2>1, <2>4 DEF Done
  <1>2. CASE leg[l].at = "ringing" /\ leg' = [leg EXCEPT ![l].at = "dropped"]
             /\ UNCHANGED <<hooks, caller, hosted>>
    <2> DEFINE more == {}
    <2>1. /\ leg' \in Legs /\ leg'[l].ring = leg[l].ring /\ leg'[l].at = "dropped"
          /\ \A m \in Leg : m # l => leg'[m] = leg[m]
      BY <1>2, LegEnds
    <2>2. /\ hooks' = hooks \cup more /\ caller' = caller /\ hosted' = hosted
          /\ more \subseteq Hook /\ \A k \in more : HookOK(k)'
      BY <1>2
    <2> HIDE DEF more
    <2>3. WorldInv' /\ Calm
      BY <1>2, <2>1, <2>2, RingingEndsCalmly
    <2> QED BY <2>1, <2>3 DEF Done
  <1>3. CASE leg[l].at = "in" /\ AgentGoes(l, hooks)
    <2>1. leg' = Emptied
      BY <1>3 DEF AgentGoes
    <2>2. leg'[l].at = "over"
      BY <1>3, <2>1, EmptiedIsLegs
    <2> QED BY <1>3, <2>2, AgentGoesCalmly DEF Done
  <1>4. CASE leg[l].at \in {"over", "dropped"} /\ UNCHANGED <<leg, hooks, caller, hosted>>
    <2>1. hooks' = hooks \cup {} /\ leg' = leg
      BY <1>4
    <2> QED BY <1>4, <2>1, EmptyingIsCalm DEF WorldInv, Calm, Done
  <1> QED BY <1>1, <1>2, <1>3, <1>4 DEF Hangs

-----------------------------------------------------------------------------
(* Steps of the webhooks                                                    *)

LEMMA RingsOfFlow ==
    ASSUME KnownInv
    PROVE  /\ flow.rings \in Seq(Seq(Agent)) /\ Len(flow.rings) \in Nat
           /\ \A r \in 1 .. Len(flow.rings) : flow.rings[r] \in Seq(Agent)
  <1>1. flow.rings \in Seq(Seq(Agent))
    BY RingAssumption DEF KnownInv
  <1> QED BY <1>1

LEMMA IdleServes ==
    ASSUME KnownInv
    PROVE  ServedOK(Idle) /\ Idle \in Serving /\ NoMeta \in Meta
  <1>1. /\ MaxAsks \in Nat /\ 0 \in 0 .. MaxAsks /\ Len(flow.rings) \in Nat
        /\ OfCaller("twiml", 0, 0) \in Hook /\ HookOK(OfCaller("twiml", 0, 0))
    BY RingAssumption, RingsOfFlow, CallersHook
  <1>2. NoMeta \in Meta /\ NoMeta.ring = 0
    BY DEF NoMeta, Meta
  <1>3. Idle \in Serving
    BY <1>1, <1>2 DEF Idle, Serving, Pc
  <1>4. Idle.pc = "idle" /\ Idle.hook = OfCaller("twiml", 0, 0) /\ Idle.saw = NoMeta
    BY DEF Idle
  <1> QED BY <1>1, <1>2, <1>3, <1>4 DEF ServedOK, JoinPcs, MovePcs, DialPcs

\* Calls that are over stay over.
EndsStay == \A l \in Leg : Done(l) => leg'[l].at = leg[l].at

LEMMA ServedStays ==
    ASSUME NEW w, ServedOK(w), EndsStay, flow' = flow
    PROVE  ServedOK(w)'
  <1>1. HookOK(w.hook)'
    BY HookStays DEF ServedOK, EndsStay
  <1> QED BY <1>1 DEF ServedOK

LEMMA HangStays ==
    ASSUME NEW w \in Serving, HangOK(w), EndsStay, loose \subseteq loose'
    PROVE  HangOK(w)'
  <1>1. \A l \in w.saw.sids : l \in Leg
    BY DEF Serving, Meta
  <1> QED BY <1>1 DEF HangOK, EndsStay, Done

-----------------------------------------------------------------------------
(* Steps that leave metaValue alone                                         *)

\* The calls as Calm has them; the caller's conference, or the webhook that reports its
\* end, is still there, or served by w.
CalmFor(w) ==
    /\ \A l \in Leg : /\ Done(l) => leg'[l].at = leg[l].at
                      /\ leg'[l].at = "ringing" => leg[l].at = "ringing"
                      /\ leg'[l].at \in {"ringing", "in"} => Live(l)
    /\ hosted => hosted' \/ LeftToServe'
    /\ LeftToServe => LeftToServe' \/ w.pc = "purge"

LEMMA CalmIsFor ==
    ASSUME NEW w, Calm
    PROVE  CalmFor(w)
  BY DEF Calm, CalmFor, LeftToServe

LEMMA UnchangedIsCalm ==
    ASSUME UNCHANGED <<leg, hosted, hooks>>
    PROVE  Calm
  <1>1. leg' = leg /\ hosted' = hosted /\ hooks' = hooks
    OBVIOUS
  <1> QED BY <1>1 DEF Calm, Live

\* What could not be done stays so.
LapsesGrow ==
    /\ loose \subseteq loose' /\ loose' \subseteq Leg
    /\ stuck \subseteq stuck' /\ stuck' \subseteq 1 .. MaxAsks
    /\ kept' \in BOOLEAN /\ (kept => kept')
    /\ cut' \in BOOLEAN /\ (cut => cut')

LEMMA GivenStays ==
    ASSUME RingInv, UNCHANGED given
    PROVE  /\ flow' = flow /\ faults' = faults /\ faults' \in 0 .. MaxFaults
           /\ loose' = loose /\ stuck' = stuck /\ kept' = kept /\ cut' = cut /\ LapsesGrow
  <1>1. /\ flow' = flow /\ faults' = faults
        /\ loose' = loose /\ stuck' = stuck /\ kept' = kept /\ cut' = cut
    BY DEF given, lapses
  <1> QED BY <1>1 DEF LapsesGrow, RingInv, TypeInv, KnownInv

\* One webhook goes on, from run[h] to w.
LEMMA ServingKeeps ==
    ASSUME RingInv, NEW h \in Handler, NEW w \in Serving, run' = [run EXCEPT ![h] = w],
           CalmFor(w), WorldInv', flow' = flow, meta' = meta, answered' \in BOOLEAN,
           faults' \in 0 .. MaxFaults, LapsesGrow,
           UNCHANGED <<crossed, unread, stray, early, late>>,
           ServedOK(w), SawOK(w), HangOK(w)',
           \A l \in Leg : Stores(run[h], l) => Stores(w, l) \/ l \in loose',
           \A l \in Leg : HangsUp(run[h], l) /\ leg'[l].at = "ringing" /\ ~crossed /\ ~cut' =>
               HangsUp(w, l) \/ Stored(l) \/ l \in loose'
    PROVE  RingInv'
  <1>1. /\ flow' = flow /\ meta' = meta /\ crossed' = crossed /\ unread' = unread /\ stray' = stray
        /\ early' = early /\ late' = late
    OBVIOUS
  <1>2. KnownInv'
    BY <1>1 DEF RingInv, TypeInv, KnownInv, LapsesGrow
  <1>3. /\ run \in [Handler -> Serving] /\ run' \in [Handler -> Serving]
        /\ run'[h] = w /\ \A g \in Handler : g # h => run'[g] = run[g]
    BY DEF RingInv, TypeInv, ServedInv
  <1>4. EndsStay
    BY DEF CalmFor, EndsStay
  <1>5. \A g \in Handler : ServedOK(run[g]) /\ SawOK(run[g]) /\ HangOK(run[g])
    BY DEF RingInv, TypeInv, ServedInv, RecordInv
  <1>6. \A g \in Handler : ServedOK(run[g])'
    <2> SUFFICES ASSUME NEW g \in Handler
                 PROVE  ServedOK(run[g])'
      OBVIOUS
    <2>1. CASE g = h
      <3>1. ServedOK(w)'
        BY <1>1, <1>4, ServedStays
      <3> QED BY <1>3, <2>1, <3>1 DEF ServedOK
    <2>2. CASE g # h
      <3>1. ServedOK(run[g])
        BY <1>5
      <3> DEFINE v == run[g]
      <3>2. ServedOK(v)' /\ run'[g] = v
        BY <1>1, <1>3, <1>4, <1>5, <2>2, ServedStays
      <3> QED BY <3>2 DEF ServedOK
    <2> QED BY <2>1, <2>2
  <1>7. TypeInv'
    BY <1>2, <1>3, <1>6 DEF TypeInv, ServedInv
  <1>8. \A g \in Handler : SawOK(run[g])' /\ HangOK(run[g])'
    <2> SUFFICES ASSUME NEW g \in Handler
                 PROVE  SawOK(run[g])' /\ HangOK(run[g])'
      OBVIOUS
    <2>1. CASE g = h
      BY <1>1, <1>3, <2>1 DEF SawOK
    <2>2. CASE g # h
      <3>1. run'[g] = run[g] /\ run[g] \in Serving
        BY <1>3, <2>2
      <3>2. HangOK(run[g])'
        BY <1>4, <1>5, <3>1, HangStays DEF LapsesGrow
      <3> QED BY <1>1, <1>5, <3>1, <3>2 DEF SawOK
    <2> QED BY <2>1, <2>2
  <1>9. \A l \in Leg : Stored(l) => Stored(l)' \/ l \in loose'
    BY <1>3 DEF Stored
  <1>10. OnRecord'
    BY <1>1, <1>9 DEF RingInv, RecordInv, OnRecord, CalmFor, Live, LapsesGrow
  <1>11. Accounted'
    <2> SUFFICES ASSUME ~crossed, ~cut', NEW l \in Leg, leg'[l].at = "ringing"
                 PROVE  \/ l \in late' \cup loose' \/ Stored(l)' \/ hosted' \/ LeftToServe'
                        \/ \E g \in Handler : HangsUp(run'[g], l)
      BY <1>1 DEF Accounted, HangsUp
    <2>1. leg[l].at = "ringing"
      BY DEF CalmFor
    <2>2. \/ l \in late \cup loose \/ Stored(l) \/ hosted \/ LeftToServe
          \/ \E g \in Handler : HangsUp(run[g], l)
      BY <2>1 DEF RingInv, RecordInv, Accounted, LapsesGrow
    <2>3. CASE LeftToServe
      BY <1>3, <2>3 DEF CalmFor, HangsUp
    <2>4. ASSUME NEW g \in Handler, HangsUp(run[g], l)
          PROVE  Stored(l)' \/ l \in loose' \/ \E f \in Handler : HangsUp(run'[f], l)
      BY <1>3, <1>9, <2>4
    <2> QED BY <1>1, <1>9, <2>2, <2>3, <2>4 DEF CalmFor, LapsesGrow
  <1> QED BY <1>7, <1>8, <1>10, <1>11 DEF RingInv, RecordInv

\* The same, when nothing happens to the calls of the agents or to the conference.
LEMMA LocalKeeps ==
    ASSUME RingInv, NEW h \in Handler, NEW w \in Serving, run' = [run EXCEPT ![h] = w],
           UNCHANGED <<hosted, leg, hooks, flow, meta, notes>>, answered' \in BOOLEAN,
           faults' \in 0 .. MaxFaults, LapsesGrow,
           caller' \in [at : {"asks", "waits", "message", "over"}, ring : Nat, n : 1 .. MaxAsks],
           hosted => caller'.at = "waits",
           ServedOK(w), SawOK(w), HangOK(w),
           \A l \in Leg : Stores(run[h], l) => Stores(w, l) \/ l \in loose',
           \A l \in Leg : HangsUp(run[h], l) /\ leg[l].at = "ringing" /\ ~crossed /\ ~cut' =>
               HangsUp(w, l) \/ Stored(l) \/ l \in loose'
    PROVE  RingInv'
  <1>1. /\ hosted' = hosted /\ leg' = leg /\ hooks' = hooks /\ flow' = flow /\ meta' = meta
        /\ UNCHANGED <<crossed, unread, stray, early, late>>
    BY DEF notes
  <1>2. WorldInv'
    BY <1>1 DEF RingInv, TypeInv, WorldInv, HookOK, Done
  <1>3. CalmFor(w)
    BY <1>1, UnchangedIsCalm, CalmIsFor
  <1>4. HangOK(w)'
    BY <1>1 DEF HangOK, Done, LapsesGrow
  <1> QED BY <1>1, <1>2, <1>3, <1>4, ServingKeeps

LEMMA InvParts ==
    ASSUME RingInv, NEW h \in Handler
    PROVE  /\ WorldInv /\ KnownInv /\ run \in [Handler -> Serving] /\ run[h] \in Serving
           /\ ServedOK(run[h]) /\ SawOK(run[h]) /\ HangOK(run[h])
           /\ meta \in Meta /\ meta.ring <= Len(flow.rings) /\ faults \in 0 .. MaxFaults
           /\ answered \in BOOLEAN
           /\ caller \in [at : {"asks", "waits", "message", "over"}, ring : Nat, n : 1 .. MaxAsks]
           /\ hosted => caller.at = "waits"
  BY DEF RingInv, TypeInv, ServedInv, RecordInv, WorldInv, KnownInv

HangPcs == {"joinHang", "joinWrite", "purgeHang", "purgeWrite"}

\* A webhook reads metaValue.
LEMMA ReadingKeeps ==
    ASSUME RingInv, NEW h \in Handler, NEW pc \in Pc \ HangPcs, Reads(h, pc),
           UNCHANGED <<twilio, known, given, notes>>,
           pc = "targetWrite" => run[h].hook.ring <= Len(flow.rings),
           pc \in JoinPcs => run[h].hook.kind = "agentJoin",
           pc \in MovePcs => run[h].hook.kind = "unanswered",
           pc \in DialPcs => run[h].hook.ring # 0,
           pc \in {"store", "storeWrite"} => run[h].leg \in Leg,
           run[h].pc \in {"store", "storeWrite"} => pc \in {"store", "storeWrite"},
           run[h].pc \notin {"purge", "purgeHang"}
    PROVE  RingInv'
  <1> DEFINE w == [run[h] EXCEPT !.pc = pc, !.saw = meta, !.old = FALSE]
  <1>1. run' = [run EXCEPT ![h] = w]
    BY InvParts DEF Reads
  <1>2. /\ w \in Serving
        /\ w.pc = pc /\ w.hook = run[h].hook /\ w.saw = meta /\ w.leg = run[h].leg
    BY InvParts DEF Serving
  <1> HIDE DEF w
  <1>3. ServedOK(w) /\ SawOK(w) /\ HangOK(w)
    BY <1>2, InvParts DEF ServedOK, SawOK, HangOK, HangPcs
  <1>4. \A l \in Leg : Stores(run[h], l) => Stores(w, l)
    BY <1>2 DEF Stores
  <1>5. \A l \in Leg : ~HangsUp(run[h], l)
    BY DEF HangsUp
  <1> QED BY <1>1, <1>2, <1>3, <1>4, <1>5, InvParts, GivenStays, LocalKeeps DEF twilio, known

\* A webhook goes on without reading or writing anything.
LEMMA GoingKeeps ==
    ASSUME RingInv, NEW h \in Handler, NEW pc \in Pc \ (HangPcs \cup Holding), Goes(h, pc),
           UNCHANGED <<twilio, known, given, notes>>,
           pc \in JoinPcs => run[h].hook.kind = "agentJoin",
           pc \in MovePcs => run[h].hook.kind = "unanswered",
           pc \notin DialPcs \cup {"targetWrite"},
           run[h].pc \notin {"purge", "purgeHang", "store", "storeWrite"}
    PROVE  RingInv'
  <1> DEFINE w == [run[h] EXCEPT !.pc = pc]
  <1>1. run' = [run EXCEPT ![h] = w]
    BY InvParts DEF Goes
  <1>2. /\ w \in Serving
        /\ w.pc = pc /\ w.hook = run[h].hook /\ w.saw = run[h].saw /\ w.leg = run[h].leg
    BY InvParts DEF Serving
  <1> HIDE DEF w
  <1>3. ServedOK(w) /\ SawOK(w) /\ HangOK(w)
    BY <1>2, InvParts DEF ServedOK, SawOK, HangOK, HangPcs, DialPcs
  <1>4. \A l \in Leg : ~HangsUp(run[h], l) /\ ~Stores(run[h], l)
    BY DEF HangsUp, Stores
  <1> QED BY <1>1, <1>2, <1>3, <1>4, InvParts, GivenStays, LocalKeeps DEF twilio, known

\* A webhook has been served.
LEMMA EndingKeeps ==
    ASSUME RingInv, NEW h \in Handler, Ends(h),
           UNCHANGED <<hosted, leg, hooks, flow, meta, notes>>, answered' \in BOOLEAN,
           faults' \in 0 .. MaxFaults, LapsesGrow,
           caller' \in [at : {"asks", "waits", "message", "over"}, ring : Nat, n : 1 .. MaxAsks],
           hosted => caller'.at = "waits",
           run[h].pc \in {"store", "storeWrite"} => run[h].leg \in loose',
           cut' \/ run[h].pc # "purgeHang",
           cut' \/ (run[h].pc = "purge" => meta.sids = {})
    PROVE  RingInv'
  <1>1. Idle \in Serving /\ ServedOK(Idle)
    BY InvParts, IdleServes
  <1>2. SawOK(Idle) /\ HangOK(Idle)
    BY DEF SawOK, HangOK, Idle, Holding
  <1>3. \A l \in Leg : Stores(run[h], l) => l \in loose'
    BY DEF Stores
  <1>4. \A l \in Leg : HangsUp(run[h], l) /\ leg[l].at = "ringing" /\ ~crossed /\ ~cut' =>
           Stored(l) \/ l \in loose'
    BY DEF HangsUp, RingInv, RecordInv, OnRecord, Live, LapsesGrow
  <1>5. run' = [run EXCEPT ![h] = Idle]
    BY DEF Ends
  <1> QED BY <1>1, <1>2, <1>3, <1>4, <1>5, InvParts, LocalKeeps

-----------------------------------------------------------------------------
(* Steps that write metaValue                                               *)

LEMMA OthersAge ==
    ASSUME NEW w \in Serving, NEW o \in BOOLEAN, NEW v, v = [w EXCEPT !.old = w.old \/ o]
    PROVE  /\ v \in Serving /\ v.pc = w.pc /\ v.hook = w.hook /\ v.saw = w.saw
           /\ v.hang = w.hang /\ v.leg = w.leg /\ v.old = (w.old \/ o)
  BY DEF Serving

\* A webhook writes new and goes on at next; nothing it has read is in its hands any
\* more, and what the others hold is old.
LEMMA WritingServes ==
    ASSUME RingInv, NEW h \in Handler, NEW new \in Meta,
           NEW next \in {"idle", "check", "dial", "failed"}, Writes(h, new, next),
           EndsStay, flow' = flow, loose \subseteq loose',
           next \in MovePcs => run[h].hook.kind = "unanswered",
           next = "dial" => run[h].hook.ring # 0
    PROVE  /\ ServedInv'
           /\ \A g \in Handler : SawOK(run[g])' /\ HangOK(run[g])'
           /\ \A g \in Handler : \A l : g # h =>
                 /\ Stores(run[g], l) = Stores(run[g], l)'
                 /\ HangsUp(run[g], l) = HangsUp(run[g], l)'
  <1> DEFINE v(g) == IF g = h THEN IF next = "idle" THEN Idle
                                   ELSE [run[h] EXCEPT !.pc = next, !.saw = NoMeta, !.old = FALSE]
                     ELSE [run[g] EXCEPT !.old = run[g].old \/ run[g].pc \in Holding]
  <1>1. run' = [g \in Handler |-> v(g)]
    BY DEF Writes
  <1>2. Idle \in Serving /\ ServedOK(Idle) /\ Idle.pc = "idle" /\ NoMeta \in Meta /\ NoMeta.ring = 0
        /\ Len(flow.rings) \in Nat
    BY InvParts, IdleServes, RingsOfFlow DEF Idle, NoMeta
  <1>3. next \in Pc /\ next \notin Holding \cup HangPcs
    BY DEF Pc, Holding, HangPcs
  <1>4. /\ v(h) \in Serving /\ ServedOK(v(h)) /\ v(h).pc = next
    <2>1. CASE next = "idle"
      BY <1>2, <2>1
    <2>2. CASE next # "idle"
      <3> DEFINE u == [run[h] EXCEPT !.pc = next, !.saw = NoMeta, !.old = FALSE]
      <3>1. run[h] \in Serving /\ ServedOK(run[h])
        BY InvParts
      <3>2. v(h) = u
        BY <2>2
      <3> HIDE DEF v
      <3>3. u \in Serving /\ u.pc = next /\ u.hook = run[h].hook /\ u.saw = NoMeta
        BY <1>2, <1>3, <3>1 DEF Serving
      <3> HIDE DEF u
      <3>4. next \notin JoinPcs \cup {"targetWrite", "store", "storeWrite"}
        BY DEF JoinPcs
      <3> QED BY <1>2, <3>1, <3>2, <3>3, <3>4 DEF ServedOK, DialPcs, MovePcs
    <2> QED BY <2>1, <2>2
  <1>5. \A g \in Handler : g # h =>
           /\ v(g) \in Serving /\ v(g).pc = run[g].pc /\ v(g).hook = run[g].hook
           /\ v(g).saw = run[g].saw /\ v(g).hang = run[g].hang /\ v(g).leg = run[g].leg
           /\ v(g).old = (run[g].old \/ run[g].pc \in Holding)
    <2> SUFFICES ASSUME NEW g \in Handler, g # h
                 PROVE  /\ v(g) \in Serving /\ v(g).pc = run[g].pc /\ v(g).hook = run[g].hook
                        /\ v(g).saw = run[g].saw /\ v(g).hang = run[g].hang /\ v(g).leg = run[g].leg
                        /\ v(g).old = (run[g].old \/ run[g].pc \in Holding)
      OBVIOUS
    <2> DEFINE o == run[g].pc \in Holding
    <2>1. run[g] \in Serving /\ o \in BOOLEAN
      BY InvParts
    <2>2. v(g) = [run[g] EXCEPT !.old = run[g].old \/ o]
      OBVIOUS
    <2> HIDE DEF v, o
    <2>3. /\ v(g) \in Serving /\ v(g).pc = run[g].pc /\ v(g).hook = run[g].hook
          /\ v(g).saw = run[g].saw /\ v(g).hang = run[g].hang /\ v(g).leg = run[g].leg
          /\ v(g).old = (run[g].old \/ o)
      BY <2>1, <2>2, OthersAge
    <2> QED BY <2>3 DEF o
  <1> HIDE DEF v
  <1>6. \A g \in Handler : run'[g] = v(g) /\ v(g) \in Serving
    BY <1>1, <1>4, <1>5
  <1>7. run' \in [Handler -> Serving]
    BY <1>1, <1>6
  <1>8. \A g \in Handler : ServedOK(v(g))
    BY <1>4, <1>5, InvParts DEF ServedOK
  <1>9. \A g \in Handler : ServedOK(run[g])'
    BY <1>6, <1>8, ServedStays
  <1>10. \A g \in Handler : SawOK(run[g])' /\ HangOK(run[g])'
    <2> SUFFICES ASSUME NEW g \in Handler
                 PROVE  SawOK(run[g])' /\ HangOK(run[g])'
      OBVIOUS
    <2>1. CASE g = h
      BY <1>3, <1>4, <1>6, <2>1 DEF SawOK, HangOK, HangPcs
    <2>2. CASE g # h
      <3>1. /\ run'[g].pc = run[g].pc /\ run'[g].saw = run[g].saw /\ run'[g].hang = run[g].hang
            /\ run'[g].hook = run[g].hook /\ run'[g].old = (run[g].old \/ run[g].pc \in Holding)
        BY <1>5, <1>6, <2>2
      <3>2. run[g] \in Serving /\ HangOK(run[g])
        BY InvParts
      <3>3. HangOK(run[g])'
        <4>1. \A l \in run[g].saw.sids : Done(l) => Done(l)'
          BY <3>2 DEF Serving, Meta, EndsStay, Done
        <4> QED BY <3>1, <3>2, <4>1 DEF HangOK
      <3> QED BY <3>1, <3>3 DEF SawOK
    <2> QED BY <2>1, <2>2
  <1>11. \A g \in Handler : \A l : g # h => /\ Stores(run[g], l) = Stores(run[g], l)'
                                        /\ HangsUp(run[g], l) = HangsUp(run[g], l)'
    BY <1>5, <1>6 DEF Stores, HangsUp
  <1> QED BY <1>7, <1>9, <1>10, <1>11 DEF ServedInv

\* The calls whose record is in new are those that were, if nothing crossed.
LEMMA WritingKeeps ==
    ASSUME RingInv, NEW h \in Handler, NEW new \in Meta, new.ring <= Len(flow.rings),
           NEW next \in {"idle", "check", "dial", "failed"}, Writes(h, new, next),
           next \in MovePcs => run[h].hook.kind = "unanswered",
           next = "dial" => run[h].hook.ring # 0,
           run[h].pc \in Holding \ {"purgeHang"},
           WorldInv', hooks \subseteq hooks', hosted => hosted',
           UNCHANGED <<leg, answered, given>>,
           unread' \in BOOLEAN /\ stray' \in BOOLEAN, early' \subseteq Leg, late' \subseteq Leg, late \subseteq late',
           ~run[h].old => \A l \in meta.sids : Live(l) => l \in new.sids \cup loose,
           \A l \in Leg : Stores(run[h], l) => l \in new.sids /\ (hosted' \/ l \in late')
    PROVE  RingInv'
  <1>1. /\ flow' = flow /\ faults' = faults /\ answered' = answered /\ leg' = leg
        /\ loose' = loose /\ stuck' = stuck /\ kept' = kept /\ cut' = cut
        /\ meta' = new /\ crossed' = (crossed \/ run[h].old)
    BY GivenStays DEF Writes
  <1>2. EndsStay
    BY <1>1 DEF EndsStay
  <1>3. /\ ServedInv'
        /\ \A g \in Handler : SawOK(run[g])' /\ HangOK(run[g])'
        /\ \A g \in Handler : \A l : g # h => /\ Stores(run[g], l) = Stores(run[g], l)'
                                          /\ HangsUp(run[g], l) = HangsUp(run[g], l)'
    BY <1>1, <1>2, WritingServes
  <1>4. KnownInv'
    BY <1>1, InvParts DEF KnownInv, Serving
  <1>5. LeftToServe => LeftToServe'
    BY DEF LeftToServe
  <1>6. \A l \in Leg : Stored(l) => Stored(l)' \/ (l \in new.sids /\ (hosted' \/ l \in late'))
    <2> SUFFICES ASSUME NEW l \in Leg, NEW g \in Handler, Stores(run[g], l)
                 PROVE  Stored(l)' \/ (l \in new.sids /\ (hosted' \/ l \in late'))
      BY DEF Stored
    <2>1. CASE g = h
      BY <2>1
    <2>2. CASE g # h
      BY <1>3, <2>2 DEF Stored
    <2> QED BY <2>1, <2>2
  <1>7. OnRecord'
    BY <1>1, <1>6 DEF OnRecord, Live, RingInv, RecordInv
  <1>8. Accounted'
    <2> SUFFICES ASSUME ~crossed, ~cut, NEW l \in Leg, leg[l].at = "ringing"
                 PROVE  \/ l \in late' \cup loose \/ Stored(l)' \/ hosted' \/ LeftToServe'
                        \/ \E g \in Handler : HangsUp(run'[g], l)
      BY <1>1 DEF Accounted, HangsUp
    <2>1. \/ l \in late \cup loose \/ Stored(l) \/ hosted \/ LeftToServe
          \/ \E g \in Handler : HangsUp(run[g], l)
      BY DEF RingInv, RecordInv, Accounted
    <2>2. ~HangsUp(run[h], l)
      BY DEF HangsUp, Holding
    <2>3. ASSUME NEW g \in Handler, HangsUp(run[g], l)
          PROVE  HangsUp(run'[g], l)
      BY <1>3, <2>2, <2>3 DEF HangsUp
    <2> QED BY <1>5, <1>6, <2>1, <2>3
  <1> QED BY <1>3, <1>4, <1>7, <1>8 DEF RingInv, TypeInv, RecordInv

-----------------------------------------------------------------------------
(* Steps of Twilio                                                          *)

LEMMA OutsideKeeps ==
    ASSUME RingInv, Calm, WorldInv', stray' \in BOOLEAN,
           UNCHANGED <<known, run, given, crossed, unread, early, late>>
    PROVE  RingInv'
  <1>1. /\ flow' = flow /\ faults' = faults /\ answered' = answered /\ meta' = meta /\ run' = run
        /\ crossed' = crossed /\ unread' = unread /\ early' = early /\ late' = late
        /\ loose' = loose /\ stuck' = stuck /\ kept' = kept /\ cut' = cut
    BY GivenStays DEF known
  <1>2. EndsStay
    BY DEF Calm, EndsStay
  <1>3. KnownInv'
    BY <1>1 DEF RingInv, TypeInv, KnownInv
  <1>4. \A h \in Handler : ServedOK(run[h])' /\ HangOK(run[h])' /\ SawOK(run[h])'
    <2> SUFFICES ASSUME NEW h \in Handler
                 PROVE  ServedOK(run[h])' /\ HangOK(run[h])' /\ SawOK(run[h])'
      OBVIOUS
    <2>1. run[h] \in Serving /\ ServedOK(run[h]) /\ HangOK(run[h]) /\ SawOK(run[h])
      BY InvParts
    <2>2. ServedOK(run[h])'
      <3>1. HookOK(run[h].hook)'
        BY <1>1, <1>2, <2>1 DEF HookOK, ServedOK, EndsStay, Done
      <3> QED BY <1>1, <2>1, <3>1 DEF ServedOK
    <2>3. HangOK(run[h])'
      <3>1. \A l \in run[h].saw.sids : Done(l) => Done(l)'
        BY <1>2, <2>1 DEF Serving, Meta, EndsStay, Done
      <3> QED BY <1>1, <2>1, <3>1 DEF HangOK
    <2>4. SawOK(run[h])'
      BY <1>1, <2>1 DEF SawOK
    <2> QED BY <2>2, <2>3, <2>4
  <1>5. run' \in [Handler -> Serving]
    BY <1>1 DEF RingInv, TypeInv, ServedInv
  <1>6. OnRecord'
    BY <1>1 DEF OnRecord, Live, RingInv, RecordInv, Calm, Stored, Stores
  <1>7. Accounted'
    BY <1>1 DEF Accounted, RingInv, RecordInv, Calm, Stored, Stores, HangsUp, LeftToServe
  <1> QED BY <1>3, <1>4, <1>5, <1>6, <1>7 DEF RingInv, TypeInv, ServedInv, RecordInv

LEMMA CallerHangsUpKeeps ==
    ASSUME RingInv, CallerHangsUp
    PROVE  RingInv'
  <1>1. stray' \in BOOLEAN /\ UNCHANGED <<known, run, given, crossed, unread, early, late>>
    BY DEF CallerHangsUp, notes, RingInv, TypeInv, KnownInv
  <1> QED BY <1>1, CallerGoesCalmly, OutsideKeeps DEF CallerHangsUp, RingInv, TypeInv

LEMMA AgentAnswersKeeps ==
    ASSUME RingInv, NEW l \in Leg, AgentAnswers(l)
    PROVE  RingInv'
  <1> DEFINE more == IF hosted THEN {OfAgent("agentJoin", l)} ELSE {}
  <1>1. WorldInv /\ leg[l].at = "ringing" /\ leg' = [leg EXCEPT ![l].at = "in"]
    BY DEF AgentAnswers, RingInv, TypeInv
  <1>2. /\ leg' \in Legs /\ leg'[l].ring = leg[l].ring /\ leg'[l].at = "in"
        /\ \A m \in Leg : m # l => leg'[m] = leg[m]
    BY <1>1, LegEnds
  <1>3. more \subseteq Hook /\ \A k \in more : HookOK(k)'
    BY AgentsHook DEF HookOK
  <1>4. hooks' = hooks \cup more /\ caller' = caller /\ hosted' = hosted
    BY DEF AgentAnswers
  <1> HIDE DEF more
  <1>5. WorldInv' /\ Calm
    BY <1>1, <1>2, <1>3, <1>4, RingingEndsCalmly
  <1>6. stray' \in BOOLEAN
    BY <1>1 DEF AgentAnswers, RingInv, TypeInv, KnownInv, WorldInv
  <1> QED BY <1>5, <1>6, OutsideKeeps DEF AgentAnswers

LEMMA AgentFailsKeeps ==
    ASSUME RingInv, NEW l \in Leg, AgentFails(l)
    PROVE  RingInv'
  <1>1. Hangs(l)
    BY DEF AgentFails, Hangs
  <1>2. WorldInv' /\ Calm
    BY <1>1, HangsCalmly DEF RingInv, TypeInv
  <1>3. stray' \in BOOLEAN /\ UNCHANGED <<known, run, given, crossed, unread, early, late>>
    BY DEF AgentFails, notes, RingInv, TypeInv, KnownInv
  <1> QED BY <1>2, <1>3, OutsideKeeps

LEMMA AgentHangsUpKeeps ==
    ASSUME RingInv, NEW l \in Leg, AgentHangsUp(l)
    PROVE  RingInv'
  <1>1. stray' \in BOOLEAN /\ UNCHANGED <<known, run, given, crossed, unread, early, late>>
    BY DEF AgentHangsUp, notes, RingInv, TypeInv, KnownInv
  <1> QED BY <1>1, AgentGoesCalmly, OutsideKeeps DEF AgentHangsUp, RingInv, TypeInv

-----------------------------------------------------------------------------
(* The handlers, action by action                                           *)

\* Nothing happens to the calls or to the conference.
LEMMA SameWorld ==
    ASSUME RingInv, UNCHANGED twilio
    PROVE  WorldInv'
  <1>1. caller' = caller /\ hosted' = hosted /\ leg' = leg /\ hooks' = hooks
    BY DEF twilio
  <1> QED BY <1>1 DEF RingInv, TypeInv, WorldInv, HookOK, Done

LEMMA DeliverKeeps ==
    ASSUME RingInv, NEW h \in Handler, Deliver(h)
    PROVE  RingInv'
  <1> PICK k \in hooks : /\ hooks' = hooks \ {k}
                         /\ run' = [run EXCEPT ![h] = [Idle EXCEPT !.pc = FirstStep[k.kind], !.hook = k]]
    BY DEF Deliver
  <1> DEFINE w == [Idle EXCEPT !.pc = FirstStep[k.kind], !.hook = k]
  <1>1. /\ run[h].pc = "idle" /\ k \in Hook /\ HookOK(k) /\ Idle \in Serving
        /\ ServedOK(Idle) /\ Idle.saw = NoMeta /\ NoMeta.ring = 0 /\ Len(flow.rings) \in Nat
    BY InvParts, IdleServes, RingsOfFlow DEF Deliver, Is, WorldInv, Idle, NoMeta
  <1>2. /\ caller' = caller /\ hosted' = hosted /\ leg' = leg /\ meta' = meta
        /\ UNCHANGED <<answered, given, crossed, unread, stray, early, late>>
    BY DEF Deliver, known, notes
  <1>3. WorldInv'
    BY <1>2, InvParts DEF WorldInv, HookOK, Done
  <1>4. /\ FirstStep[k.kind] \in {"target", "answered", "dialRead", "purge", "join", "hangCaller",
                                  "remove"}
        /\ FirstStep[k.kind] = "join" => k.kind = "agentJoin"
        /\ FirstStep[k.kind] = "remove" => k.kind = "unanswered"
        /\ k.kind = "left" => FirstStep[k.kind] = "purge"
    BY <1>1 DEF FirstStep, Hook
  <1>5. FirstStep[k.kind] \in Pc
    BY <1>4 DEF Pc
  <1>6. /\ w \in Serving /\ w.pc = FirstStep[k.kind] /\ w.hook = k /\ w.saw = NoMeta
    BY <1>1, <1>5 DEF Serving
  <1> HIDE DEF w
  <1>7. ServedOK(w) /\ SawOK(w) /\ HangOK(w)'
    BY <1>1, <1>4, <1>6 DEF ServedOK, SawOK, HangOK, Holding, JoinPcs, MovePcs, DialPcs
  <1>8. CalmFor(w)
    BY <1>2, <1>4, <1>6 DEF CalmFor, LeftToServe, Live
  <1>9. \A l \in Leg : ~Stores(run[h], l) /\ ~HangsUp(run[h], l)
    BY <1>1 DEF Stores, HangsUp
  <1>10. run' = [run EXCEPT ![h] = w]
    BY DEF w
  <1> QED BY <1>2, <1>3, <1>6, <1>7, <1>8, <1>9, <1>10, InvParts, GivenStays, ServingKeeps

LEMMA DialEndedKeeps ==
    ASSUME RingInv, NEW h \in Handler, DialEnded(h)
    PROVE  RingInv'
  <1>1. /\ UNCHANGED <<hosted, leg, hooks, meta, given, notes>> /\ answered' = answered
        /\ run[h].pc = "answered" /\ flow' = flow /\ faults' \in 0 .. MaxFaults /\ LapsesGrow
    BY GivenStays DEF DialEnded, known, Is
  <1>2. CASE answered \/ run[h].hook.ring \in flow.robin
    <2>1. /\ Ends(h)
          /\ caller' = IF Wanted(h) THEN [caller EXCEPT !.at = "over"] ELSE caller
      BY <1>2 DEF DialEnded
    <2>2. /\ caller' \in [at : {"asks", "waits", "message", "over"}, ring : Nat, n : 1 .. MaxAsks]
          /\ hosted => caller'.at = "waits"
      BY <2>1, InvParts DEF Wanted
    <2> QED BY <1>1, <2>1, <2>2, InvParts, EndingKeeps
  <1>3. CASE ~(answered \/ run[h].hook.ring \in flow.robin)
    <2> DEFINE k == [run[h].hook EXCEPT !.ring = @ + 1]
               w == [run[h] EXCEPT !.pc = "target", !.hook = k]
    <2>1. caller' = caller /\ run' = [run EXCEPT ![h].pc = "target", ![h].hook.ring = @ + 1]
      BY <1>3 DEF DialEnded
    <2>2. /\ run[h] \in Serving /\ run[h].hook \in Hook /\ HookOK(run[h].hook)
          /\ run \in [Handler -> Serving]
      BY InvParts DEF ServedOK, Serving
    <2>3. k \in Hook /\ k.kind = run[h].hook.kind /\ k.leg = run[h].hook.leg
      BY <2>2 DEF Hook
    <2>4. run' = [run EXCEPT ![h] = w]
      BY <2>1, <2>2
    <2> HIDE DEF k
    <2>5. w \in Serving /\ w.pc = "target" /\ w.hook = k /\ w.saw = run[h].saw
      BY <2>2, <2>3 DEF Serving, Pc
    <2> HIDE DEF w
    <2>6. ServedOK(w) /\ SawOK(w) /\ HangOK(w)
      BY <2>2, <2>3, <2>5, InvParts
         DEF ServedOK, SawOK, HangOK, HookOK, Holding, JoinPcs, MovePcs, DialPcs
    <2>7. \A l \in Leg : ~Stores(run[h], l) /\ ~HangsUp(run[h], l)
      BY <1>1 DEF Stores, HangsUp
    <2> QED BY <1>1, <2>1, <2>4, <2>5, <2>6, <2>7, InvParts, LocalKeeps
  <1> QED BY <1>2, <1>3

LEMMA LeaveMessageKeeps ==
    ASSUME RingInv, NEW h \in Handler, LeaveMessage(h)
    PROVE  RingInv'
  <1>1. /\ UNCHANGED <<hosted, leg, hooks, meta, given, notes>> /\ answered' = answered
        /\ run[h].pc = "target" /\ Ends(h)
        /\ caller' = IF Wanted(h) THEN [caller EXCEPT !.at = "message", !.ring = run[h].hook.ring]
                     ELSE caller
    BY DEF LeaveMessage, known, Is
  <1>4. flow' = flow /\ faults' \in 0 .. MaxFaults /\ LapsesGrow
    BY <1>1, GivenStays
  <1>2. run[h].hook.ring \in Nat
    BY InvParts DEF Serving, Hook
  <1>3. /\ caller' \in [at : {"asks", "waits", "message", "over"}, ring : Nat, n : 1 .. MaxAsks]
        /\ hosted => caller'.at = "waits"
    BY <1>1, <1>2, InvParts DEF Wanted
  <1> QED BY <1>1, <1>3, <1>4, InvParts, EndingKeeps

LEMMA TargetReadKeeps ==
    ASSUME RingInv, NEW h \in Handler, TargetRead(h)
    PROVE  RingInv'
  <1>1. /\ run[h].pc = "target" /\ Reads(h, "targetWrite") /\ run[h].hook.ring \in Nat
        /\ ~(run[h].hook.ring > Len(flow.rings)) /\ Len(flow.rings) \in Nat
    BY InvParts, RingsOfFlow DEF TargetRead, Is, Past, Serving, Hook
  <1>2. "targetWrite" \in Pc \ (HangPcs \cup JoinPcs \cup MovePcs \cup DialPcs \cup {"store", "storeWrite"})
    BY DEF Pc, HangPcs, JoinPcs, MovePcs, DialPcs
  <1>3. run[h].hook.ring <= Len(flow.rings)
    BY <1>1
  <1> QED BY <1>1, <1>2, <1>3, ReadingKeeps DEF TargetRead

\* Somebody else opened the conference, or the caller does and it will report.
LEMMA EnteringKeeps ==
    ASSUME RingInv, NEW h \in Handler, Enters(h), leg' = leg
    PROVE  /\ WorldInv' /\ hooks \subseteq hooks' /\ (hosted => hosted') /\ Calm
           /\ caller' \in [at : {"asks", "waits", "message", "over"}, ring : Nat, n : 1 .. MaxAsks]
  <1> DEFINE joins == OfCaller("callerJoin", 0, caller.n)
  <1>1. joins \in Hook /\ HookOK(joins)
    BY CallersHook, InvParts, RingAssumption
  <1> HIDE DEF joins
  <1>2. run[h].hook.ring \in Nat
    BY InvParts DEF Serving, Hook
  <1>3. CASE Wanted(h)
    <2>1. /\ caller' = [caller EXCEPT !.at = "waits", !.ring = run[h].hook.ring]
          /\ hosted' = (In = {}) /\ hooks' = hooks \cup IF In = {} THEN {joins} ELSE {}
      BY <1>3 DEF Enters, joins
    <2>2. caller' \in [at : {"asks", "waits", "message", "over"}, ring : Nat, n : 1 .. MaxAsks]
          /\ caller'.at = "waits" /\ ~hosted
      BY <1>2, <1>3, <2>1, InvParts DEF Wanted
    <2>3. hooks' \subseteq Hook /\ \A k \in hooks' : HookOK(k)
      BY <1>1, <2>1, InvParts DEF WorldInv
    <2>4. Calm
      BY <2>1, <2>2 DEF Calm, Live
    <2> QED BY <2>1, <2>2, <2>3, <2>4, InvParts DEF WorldInv, HookOK, Done
  <1>4. CASE ~Wanted(h)
    <2>1. UNCHANGED twilio /\ hooks' = hooks /\ hosted' = hosted /\ caller' = caller
      BY <1>4 DEF Enters, twilio
    <2> QED BY <2>1, SameWorld, UnchangedIsCalm, InvParts
  <1> QED BY <1>3, <1>4

LEMMA TargetWriteKeeps ==
    ASSUME RingInv, NEW h \in Handler, TargetWrite(h)
    PROVE  RingInv'
  <1> DEFINE new == [run[h].saw EXCEPT !.ring = run[h].hook.ring]
  <1>1. /\ run[h].pc = "targetWrite" /\ Writes(h, new, "idle")
        /\ UNCHANGED <<leg, answered, given, unread, stray, early, late>> /\ leg' = leg
        /\ Enters(h)
    BY DEF TargetWrite, Is
  <1>2. /\ run[h].hook.ring \in Nat /\ run[h].saw \in Meta
        /\ run[h].hook.ring <= Len(flow.rings)
    BY <1>1, InvParts DEF ServedOK, Serving, Hook
  <1>3. new \in Meta /\ new.ring = run[h].hook.ring /\ new.sids = run[h].saw.sids
    BY <1>2 DEF Meta
  <1> HIDE DEF new
  <1>5. WorldInv' /\ hooks \subseteq hooks' /\ (hosted => hosted')
    BY <1>1, EnteringKeeps
  <1>6. ~run[h].old => run[h].saw = meta
    BY <1>1, InvParts DEF SawOK, Holding
  <1>7. /\ unread' \in BOOLEAN /\ stray' \in BOOLEAN /\ early' \subseteq Leg /\ late' \subseteq Leg /\ late \subseteq late'
    BY <1>1, InvParts DEF KnownInv
  <1>8. \A l \in Leg : ~Stores(run[h], l)
    BY <1>1 DEF Stores
  <1>9. "targetWrite" \in Holding \ {"purgeHang"} /\ "idle" \notin MovePcs
    BY DEF Holding, MovePcs
  <1> QED BY <1>1, <1>2, <1>3, <1>5, <1>6, <1>7, <1>8, <1>9, WritingKeeps

LEMMA DialReadKeeps ==
    ASSUME RingInv, NEW h \in Handler, DialRead(h)
    PROVE  RingInv'
  <1>1. /\ UNCHANGED <<hosted, leg, hooks, meta, given, notes>> /\ answered' = answered
        /\ run[h].pc = "dialRead" /\ caller' = caller /\ flow' = flow
        /\ faults' \in 0 .. MaxFaults /\ LapsesGrow
    BY GivenStays DEF DialRead, known, twilio, Is
  <1>2. CASE meta.ring = 0
    BY <1>1, <1>2, InvParts, EndingKeeps DEF DialRead
  <1>3. CASE meta.ring # 0
    <2> DEFINE k == [run[h].hook EXCEPT !.ring = meta.ring]
               w == [run[h] EXCEPT !.pc = "dial", !.hook = k, !.to = flow.rings[meta.ring]]
    <2>1. run' = [run EXCEPT ![h].pc = "dial", ![h].hook.ring = meta.ring,
                             ![h].to = flow.rings[meta.ring]]
      BY <1>3 DEF DialRead
    <2>2. /\ run[h] \in Serving /\ run[h].hook \in Hook /\ HookOK(run[h].hook)
          /\ run \in [Handler -> Serving] /\ meta.ring \in 1 .. Len(flow.rings)
      BY <1>3, InvParts, RingsOfFlow DEF ServedOK, Serving, Meta
    <2>3. k \in Hook /\ k.kind = run[h].hook.kind /\ k.leg = run[h].hook.leg /\ k.ring = meta.ring
      BY <2>2, InvParts DEF Hook, Meta
    <2>4. run' = [run EXCEPT ![h] = w]
      BY <2>1, <2>2
    <2>5. flow.rings[meta.ring] \in Seq(Agent)
      BY <2>2, RingsOfFlow, InvParts
    <2> HIDE DEF k
    <2>6. w \in Serving /\ w.pc = "dial" /\ w.hook = k /\ w.saw = run[h].saw
      BY <2>2, <2>3, <2>5 DEF Serving, Pc
    <2> HIDE DEF w
    <2>7. ServedOK(w) /\ SawOK(w) /\ HangOK(w)
      BY <1>3, <2>2, <2>3, <2>6, InvParts
         DEF ServedOK, SawOK, HangOK, HookOK, Holding, JoinPcs, MovePcs, DialPcs
    <2>8. \A l \in Leg : ~Stores(run[h], l) /\ ~HangsUp(run[h], l)
      BY <1>1 DEF Stores, HangsUp
    <2> QED BY <1>1, <2>4, <2>6, <2>7, <2>8, InvParts, LocalKeeps
  <1> QED BY <1>2, <1>3

LEMMA DialDoneKeeps ==
    ASSUME RingInv, NEW h \in Handler, DialDone(h)
    PROVE  RingInv'
  <1>1. /\ UNCHANGED <<hosted, leg, hooks, meta, given, notes>> /\ answered' = answered
        /\ run[h].pc = "dial" /\ caller' = caller /\ Ends(h)
        /\ flow' = flow /\ faults' \in 0 .. MaxFaults /\ LapsesGrow
    BY GivenStays DEF DialDone, known, twilio, Is
  <1> QED BY <1>1, InvParts, EndingKeeps

LEMMA StoreReadKeeps ==
    ASSUME RingInv, NEW h \in Handler, StoreRead(h)
    PROVE  RingInv'
  <1>1. run[h].pc = "store" /\ Reads(h, "storeWrite")
    BY DEF StoreRead, Is
  <1>2. run[h].hook.ring # 0 /\ run[h].leg \in Leg
    BY <1>1, InvParts DEF ServedOK, DialPcs
  <1>3. "storeWrite" \in Pc \ (HangPcs \cup JoinPcs \cup MovePcs \cup {"targetWrite"})
    BY DEF Pc, HangPcs, JoinPcs, MovePcs
  <1> QED BY <1>1, <1>2, <1>3, ReadingKeeps DEF StoreRead

LEMMA StoreWriteKeeps ==
    ASSUME RingInv, NEW h \in Handler, StoreWrite(h)
    PROVE  RingInv'
  <1> DEFINE new == [run[h].saw EXCEPT !.sids = Added(@, run[h].leg)]
  <1>1. /\ run[h].pc = "storeWrite" /\ Writes(h, new, "dial")
        /\ late' = IF hosted THEN late ELSE late \cup {run[h].leg}
        /\ UNCHANGED <<answered, given, unread, stray, early>> /\ UNCHANGED twilio
        /\ leg' = leg /\ hooks' = hooks /\ hosted' = hosted
    BY DEF StoreWrite, Is, twilio
  <1>2. /\ run[h].saw \in Meta /\ run[h].leg \in Leg /\ run[h].hook.ring # 0
        /\ run[h].saw.ring <= Len(flow.rings)
    BY <1>1, InvParts DEF ServedOK, Serving, DialPcs
  <1>3. /\ new \in Meta /\ new.ring = run[h].saw.ring
        /\ new.sids = run[h].saw.sids \cup {run[h].leg}
    BY <1>2 DEF Meta, Added
  <1> HIDE DEF new
  <1>4. ~run[h].old => run[h].saw = meta
    BY <1>1, InvParts DEF SawOK, Holding
  <1>5. /\ unread' \in BOOLEAN /\ stray' \in BOOLEAN /\ early' \subseteq Leg /\ late' \subseteq Leg /\ late \subseteq late'
    BY <1>1, <1>2, InvParts DEF KnownInv
  <1>6. \A l \in Leg : Stores(run[h], l) => l \in new.sids /\ (hosted' \/ l \in late')
    BY <1>1, <1>3 DEF Stores
  <1>7. "storeWrite" \in Holding \ {"purgeHang"} /\ "dial" \notin MovePcs
    BY DEF Holding, MovePcs
  <1> QED BY <1>1, <1>2, <1>3, <1>4, <1>5, <1>6, <1>7, WritingKeeps, SameWorld

\* A phone starts to ring, and is to be put on record.
LEMMA DialKeeps ==
    ASSUME RingInv, NEW h \in Handler, Dial(h)
    PROVE  RingInv'
  <1> PICK l \in Leg : /\ NextLeg(l)
                       /\ leg' = [leg EXCEPT ![l] = [at |-> "ringing", ring |-> run[h].hook.ring,
                                                    n |-> run[h].hook.n]]
                       /\ run' = [run EXCEPT ![h].pc = "store", ![h].to = Tail(@), ![h].leg = l]
    BY DEF Dial
  <1> DEFINE w == [run[h] EXCEPT !.pc = "store", !.to = Tail(run[h].to), !.leg = l]
  <1>1. /\ run[h].pc = "dial" /\ run[h].to # <<>> /\ leg[l].at = "none"
        /\ UNCHANGED <<known, given, notes>> /\ caller' = caller /\ hosted' = hosted
        /\ hooks' = hooks /\ meta' = meta /\ flow' = flow /\ crossed' = crossed /\ late' = late
        /\ loose' = loose /\ stuck' = stuck /\ kept' = kept /\ cut' = cut /\ faults' = faults
    BY GivenStays DEF Dial, Is, NextLeg, known, notes
  <1>2. /\ run[h] \in Serving /\ run \in [Handler -> Serving] /\ ServedOK(run[h])
        /\ run[h].to \in Seq(Agent) /\ run[h].hook.ring \in Nat /\ run[h].hook.ring # 0
        /\ run[h].hook.n \in 0 .. MaxAsks /\ leg \in Legs
    BY <1>1, InvParts DEF Serving, Hook, ServedOK, DialPcs, WorldInv
  <1>3. Tail(run[h].to) \in Seq(Agent)
    BY <1>1, <1>2
  <1>4. run' = [run EXCEPT ![h] = w]
    BY <1>2
  <1>5. /\ w \in Serving /\ w.pc = "store" /\ w.hook = run[h].hook /\ w.saw = run[h].saw
        /\ w.leg = l
    BY <1>2, <1>3 DEF Serving, Pc
  <1> HIDE DEF w
  <1>6. ServedOK(w) /\ SawOK(w) /\ HangOK(w)
    BY <1>1, <1>2, <1>5 DEF ServedOK, SawOK, HangOK, Holding, JoinPcs, MovePcs, DialPcs
  <1>7. /\ leg' \in Legs /\ leg'[l].at = "ringing" /\ leg'[l].ring = run[h].hook.ring
        /\ \A m \in Leg : m # l => leg'[m] = leg[m]
    BY <1>2 DEF Legs
  <1>8. EndsStay /\ \A m \in Leg : Done(m) => Done(m)'
    BY <1>1, <1>7 DEF EndsStay, Done
  <1>9. WorldInv'
    <2>1. \A k \in hooks : HookOK(k)'
      BY <1>8, HookStays, InvParts DEF EndsStay, WorldInv
    <2> QED BY <1>1, <1>2, <1>7, <2>1, InvParts DEF WorldInv
  <1>10. KnownInv'
    BY <1>1, InvParts DEF KnownInv, known, notes
  <1>11. /\ run' \in [Handler -> Serving] /\ run'[h] = w
         /\ \A g \in Handler : g # h => run'[g] = run[g]
    <2>1. run \in [Handler -> Serving] /\ w \in Serving
      BY <1>2, <1>5
    <2> QED BY <1>4, <2>1
  <1>12. \A g \in Handler : ServedOK(run'[g]) /\ SawOK(run'[g]) /\ HangOK(run'[g])
    BY <1>6, <1>11, InvParts
  <1>13. \A g \in Handler : ServedOK(run[g])'
    BY <1>1, <1>8, <1>12, ServedStays
  <1>14. \A g \in Handler : SawOK(run[g])' /\ HangOK(run[g])'
    <2> SUFFICES ASSUME NEW g \in Handler
                 PROVE  SawOK(run[g])' /\ HangOK(run[g])'
      OBVIOUS
    <2>1. SawOK(run[g])'
      BY <1>1, <1>12 DEF SawOK
    <2>2. HangOK(run[g])'
      BY <1>1, <1>8, <1>11, <1>12, HangStays
    <2> QED BY <2>1, <2>2
  <1>15. Stored(l)' /\ \A m \in Leg : Stored(m) => Stored(m)'
    BY <1>1, <1>5, <1>11 DEF Stored, Stores
  <1>16. OnRecord'
    <2> SUFFICES ASSUME ~crossed, NEW m \in Leg \ loose, m # l, Live(m)
                 PROVE  m \in meta.sids \/ Stored(m)'
      BY <1>1, <1>7, <1>15 DEF OnRecord, Live
    <2> QED BY <1>15 DEF RingInv, RecordInv, OnRecord
  <1>17. Accounted'
    <2> SUFFICES ASSUME ~crossed, ~cut, NEW m \in Leg, m # l, leg[m].at = "ringing"
                 PROVE  \/ m \in late \cup loose \/ Stored(m)' \/ hosted \/ LeftToServe
                        \/ \E g \in Handler : HangsUp(run'[g], m)
      BY <1>1, <1>7, <1>15 DEF Accounted, HangsUp, LeftToServe
    <2>1. ~HangsUp(run[h], m)
      BY <1>1 DEF HangsUp
    <2> QED BY <1>11, <1>15, <2>1 DEF RingInv, RecordInv, Accounted
  <1> QED BY <1>9, <1>10, <1>11, <1>13, <1>14, <1>16, <1>17
          DEF RingInv, TypeInv, ServedInv, RecordInv

LEMMA JoinReadKeeps ==
    ASSUME RingInv, NEW h \in Handler, JoinRead(h)
    PROVE  RingInv'
  <1>1. run[h].pc = "join" /\ Reads(h, "mark")
    BY DEF JoinRead, Is
  <1>2. run[h].hook.kind = "agentJoin"
    BY <1>1, InvParts DEF ServedOK, JoinPcs
  <1>3. "mark" \in Pc \ (HangPcs \cup MovePcs \cup DialPcs \cup {"targetWrite", "store", "storeWrite"})
    BY DEF Pc, HangPcs, MovePcs, DialPcs
  <1> QED BY <1>1, <1>2, <1>3, ReadingKeeps DEF JoinRead

LEMMA JoinMarkKeeps ==
    ASSUME RingInv, NEW h \in Handler, JoinMark(h)
    PROVE  RingInv'
  <1> DEFINE others == Without(run[h].saw.sids, run[h].hook.leg)
             w == [run[h] EXCEPT !.pc = "joinHang", !.hang = others]
  <1>1. /\ UNCHANGED <<hosted, leg, hooks, meta, given, notes>> /\ answered' = TRUE
        /\ run[h].pc = "mark" /\ caller' = caller /\ flow' = flow
        /\ faults' \in 0 .. MaxFaults /\ LapsesGrow
    BY GivenStays DEF JoinMark, twilio, Is
  <1>2. CASE others = {}
    BY <1>1, <1>2, InvParts, EndingKeeps DEF JoinMark
  <1>3. CASE others # {}
    <2>1. /\ run[h] \in Serving /\ run \in [Handler -> Serving] /\ ServedOK(run[h])
          /\ SawOK(run[h]) /\ others \subseteq Leg
      BY InvParts DEF Serving, Meta, Without
    <2>2. run' = [run EXCEPT ![h].pc = "joinHang", ![h].hang = others]
      BY <1>3 DEF JoinMark
    <2>3. others = run[h].saw.sids \ {run[h].hook.leg}
      BY DEF Without
    <2> HIDE DEF others
    <2>4. run' = [run EXCEPT ![h] = w]
      BY <2>1, <2>2
    <2>5. /\ w \in Serving /\ w.pc = "joinHang" /\ w.hook = run[h].hook /\ w.saw = run[h].saw
          /\ w.hang = others /\ w.old = run[h].old
      BY <2>1 DEF Serving, Pc
    <2> HIDE DEF w
    <2>6. ServedOK(w) /\ SawOK(w) /\ HangOK(w)
      BY <1>1, <2>1, <2>3, <2>5 DEF ServedOK, SawOK, HangOK, Holding, JoinPcs, MovePcs, DialPcs
    <2>7. \A l \in Leg : ~Stores(run[h], l) /\ ~HangsUp(run[h], l)
      BY <1>1 DEF Stores, HangsUp
    <2> QED BY <1>1, <2>4, <2>5, <2>6, <2>7, InvParts, LocalKeeps
  <1> QED BY <1>2, <1>3

\* One of the calls to hang up is over, or cannot be hung up; with the last of them the
\* webhook goes on.
LEMMA StrikingKeeps ==
    ASSUME RingInv, NEW h \in Handler, NEW next, NEW l \in run[h].hang, Strikes(h, l, next),
           \/ run[h].pc = "joinHang" /\ next = "joinWrite"
           \/ run[h].pc = "purgeHang" /\ next = "purgeWrite",
           WorldInv', Calm, Done(l)' \/ l \in loose', LapsesGrow,
           UNCHANGED <<known, flow, notes>>, faults' \in 0 .. MaxFaults
    PROVE  RingInv'
  <1> DEFINE rest == run[h].hang \ {l}
             pc == IF run[h].hang = {l} THEN next ELSE run[h].pc
  <1>1. /\ meta' = meta /\ answered' = answered /\ flow' = flow
        /\ UNCHANGED <<crossed, unread, stray, early, late>>
    BY DEF known, notes
  <1>2. /\ run[h] \in Serving /\ run \in [Handler -> Serving] /\ ServedOK(run[h])
        /\ SawOK(run[h]) /\ HangOK(run[h]) /\ l \in Leg /\ rest \subseteq Leg
    BY InvParts DEF Serving
  <1> HIDE DEF pc
  <1>4. /\ pc = next => rest = {}
        /\ pc = next \/ pc = run[h].pc
        /\ rest = {} => pc = next
        /\ pc \in Pc /\ pc \in HangPcs
    BY DEF Pc, HangPcs, pc
  <1> PICK w : w = [run[h] EXCEPT !.hang = rest, !.pc = pc]
    OBVIOUS
  <1>5. run' = [run EXCEPT ![h] = w]
    BY <1>2 DEF pc, Strikes
  <1>6. /\ w \in Serving /\ w.pc = pc /\ w.hook = run[h].hook /\ w.saw = run[h].saw
        /\ w.hang = rest /\ w.old = run[h].old
    BY <1>2, <1>4 DEF Serving
  <1>7. ServedOK(w)
    BY <1>2, <1>4, <1>6 DEF ServedOK, JoinPcs, MovePcs, DialPcs
  <1>8. SawOK(w)
    BY <1>2, <1>4, <1>6 DEF SawOK, Holding
  <1>9. HangOK(w)'
    <2>1. \A m \in run[h].saw.sids : Done(m) => Done(m)'
      BY <1>2 DEF Serving, Meta, Calm, Done
    <2> QED BY <1>2, <1>4, <1>6, <2>1 DEF HangOK, LapsesGrow
  <1>10. \A m \in Leg : ~Stores(run[h], m)
    BY DEF Stores
  <1>11. \A m \in Leg : HangsUp(run[h], m) /\ leg'[m].at = "ringing" =>
           HangsUp(w, m) \/ m \in loose'
    BY <1>4, <1>6 DEF HangsUp, Done
  <1> QED BY <1>1, <1>5, <1>6, <1>7, <1>8, <1>9, <1>10, <1>11, InvParts, CalmIsFor,
             ServingKeeps

LEMMA HangOneKeeps ==
    ASSUME RingInv, NEW h \in Handler, NEW next, HangOne(h, next),
           \/ run[h].pc = "joinHang" /\ next = "joinWrite"
           \/ run[h].pc = "purgeHang" /\ next = "purgeWrite",
           UNCHANGED <<known, given, notes>>
    PROVE  RingInv'
  <1> PICK l \in run[h].hang : Hangs(l) /\ Strikes(h, l, next)
    BY DEF HangOne
  <1>1. WorldInv /\ l \in Leg
    BY InvParts DEF Serving
  <1>2. WorldInv' /\ Calm /\ Done(l)'
    BY <1>1, HangsCalmly
  <1> QED BY <1>2, GivenStays, StrikingKeeps

LEMMA JoinHangKeeps ==
    ASSUME RingInv, NEW h \in Handler, JoinHang(h)
    PROVE  RingInv'
  BY HangOneKeeps DEF JoinHang, Is

\* The calls it writes off are over, or could not be hung up.
LEMMA JoinWriteKeeps ==
    ASSUME RingInv, NEW h \in Handler, JoinWrite(h)
    PROVE  RingInv'
  <1> DEFINE new == [run[h].saw EXCEPT !.sids = {run[h].hook.leg}]
  <1>1. /\ run[h].pc = "joinWrite" /\ Writes(h, new, "idle")
        /\ UNCHANGED <<answered, given, unread, stray, early, late>> /\ UNCHANGED twilio
        /\ leg' = leg /\ hooks' = hooks /\ hosted' = hosted
    BY DEF JoinWrite, Is, twilio
  <1>2. /\ run[h].saw \in Meta /\ run[h].hook.leg \in Leg /\ run[h].saw.ring <= Len(flow.rings)
    BY <1>1, InvParts DEF ServedOK, Serving, JoinPcs, HookOK
  <1>3. new \in Meta /\ new.ring = run[h].saw.ring /\ new.sids = {run[h].hook.leg}
    BY <1>2 DEF Meta
  <1> HIDE DEF new
  <1>4. ~run[h].old => run[h].saw = meta
    BY <1>1, InvParts DEF SawOK, Holding
  <1>5. ~run[h].old => \A l \in meta.sids : Live(l) => l \in new.sids \cup loose
    BY <1>1, <1>3, <1>4, InvParts DEF HangOK, Live, Done
  <1>6. /\ unread' \in BOOLEAN /\ stray' \in BOOLEAN /\ early' \subseteq Leg /\ late' \subseteq Leg /\ late \subseteq late'
    BY <1>1, InvParts DEF KnownInv
  <1>7. \A l \in Leg : ~Stores(run[h], l)
    BY <1>1 DEF Stores
  <1>8. "joinWrite" \in Holding \ {"purgeHang"} /\ "idle" \notin MovePcs
    BY DEF Holding, MovePcs
  <1> QED BY <1>1, <1>2, <1>3, <1>5, <1>6, <1>7, <1>8, WritingKeeps, SameWorld

LEMMA PurgeReadKeeps ==
    ASSUME RingInv, NEW h \in Handler, PurgeRead(h)
    PROVE  RingInv'
  <1> DEFINE w == [run[h] EXCEPT !.pc = "purgeHang", !.saw = meta, !.old = FALSE, !.hang = meta.sids]
  <1>1. /\ UNCHANGED <<hosted, leg, hooks, meta, given, notes>> /\ answered' = answered
        /\ run[h].pc = "purge" /\ caller' = caller /\ flow' = flow
        /\ faults' \in 0 .. MaxFaults /\ LapsesGrow
    BY GivenStays DEF PurgeRead, twilio, known, Is
  <1>2. CASE NoneLeft(meta)
    BY <1>1, <1>2, InvParts, EndingKeeps DEF PurgeRead, NoneLeft
  <1>3. CASE ~NoneLeft(meta)
    <2>1. /\ run[h] \in Serving /\ run \in [Handler -> Serving] /\ ServedOK(run[h])
          /\ meta \in Meta /\ meta.ring <= Len(flow.rings) /\ meta.sids \subseteq Leg
      BY InvParts DEF Meta
    <2>2. run' = [run EXCEPT ![h].pc = "purgeHang", ![h].saw = meta, ![h].old = FALSE,
                             ![h].hang = meta.sids]
      BY <1>3 DEF PurgeRead
    <2>3. run' = [run EXCEPT ![h] = w]
      BY <2>1, <2>2
    <2>4. /\ w \in Serving /\ w.pc = "purgeHang" /\ w.hook = run[h].hook /\ w.saw = meta
          /\ w.hang = meta.sids
      BY <2>1 DEF Serving, Pc
    <2> HIDE DEF w
    <2>5. ServedOK(w) /\ SawOK(w) /\ HangOK(w)
      BY <2>1, <2>4 DEF ServedOK, SawOK, HangOK, JoinPcs, MovePcs, DialPcs
    <2>6. \A l \in Leg : ~Stores(run[h], l)
      BY <1>1 DEF Stores
    <2>7. \A l \in Leg : leg[l].at = "ringing" /\ ~crossed =>
             HangsUp(w, l) \/ Stored(l) \/ l \in loose'
      BY <1>1, <2>4 DEF HangsUp, RingInv, RecordInv, OnRecord, Live, LapsesGrow
    <2> QED BY <1>1, <2>3, <2>4, <2>5, <2>6, <2>7, InvParts, LocalKeeps
  <1> QED BY <1>2, <1>3

LEMMA PurgeHangKeeps ==
    ASSUME RingInv, NEW h \in Handler, PurgeHang(h)
    PROVE  RingInv'
  BY HangOneKeeps DEF PurgeHang, Is

LEMMA PurgeWriteKeeps ==
    ASSUME RingInv, NEW h \in Handler, PurgeWrite(h)
    PROVE  RingInv'
  <1> DEFINE new == [run[h].saw EXCEPT !.sids = {}]
  <1>1. /\ run[h].pc = "purgeWrite" /\ Writes(h, new, "idle")
        /\ UNCHANGED <<answered, given, unread, stray, early, late>> /\ UNCHANGED twilio
        /\ leg' = leg /\ hooks' = hooks /\ hosted' = hosted
    BY DEF PurgeWrite, Is, twilio
  <1>2. /\ run[h].saw \in Meta /\ run[h].saw.ring <= Len(flow.rings)
    BY InvParts DEF ServedOK, Serving
  <1>3. new \in Meta /\ new.ring = run[h].saw.ring
    BY <1>2 DEF Meta
  <1> HIDE DEF new
  <1>4. ~run[h].old => run[h].saw = meta
    BY <1>1, InvParts DEF SawOK, Holding
  <1>5. ~run[h].old => \A l \in meta.sids : Live(l) => l \in new.sids \cup loose
    BY <1>1, <1>4, InvParts DEF HangOK, Live, Done
  <1>6. /\ unread' \in BOOLEAN /\ stray' \in BOOLEAN /\ early' \subseteq Leg /\ late' \subseteq Leg /\ late \subseteq late'
    BY <1>1, InvParts DEF KnownInv
  <1>7. \A l \in Leg : ~Stores(run[h], l)
    BY <1>1 DEF Stores
  <1>8. "purgeWrite" \in Holding \ {"purgeHang"} /\ "idle" \notin MovePcs
    BY DEF Holding, MovePcs
  <1> QED BY <1>1, <1>2, <1>3, <1>5, <1>6, <1>7, <1>8, WritingKeeps, SameWorld

LEMMA HangCallerKeeps ==
    ASSUME RingInv, NEW h \in Handler, HangCaller(h)
    PROVE  RingInv'
  <1>1. /\ Ends(h) /\ UNCHANGED <<known, given, notes>> /\ run[h].pc = "hangCaller"
        /\ meta' = meta /\ answered' = answered /\ flow' = flow
        /\ faults' \in 0 .. MaxFaults /\ LapsesGrow
        /\ UNCHANGED <<crossed, unread, stray, early, late>>
    BY GivenStays DEF HangCaller, known, notes, Is
  <1>2. CASE caller.at = "over"
    <2>1. UNCHANGED <<hosted, leg, hooks, meta, given, notes>> /\ caller' = caller
      BY <1>1, <1>2 DEF HangCaller, twilio
    <2> QED BY <1>1, <2>1, InvParts, EndingKeeps
  <1>3. CASE caller.at # "over"
    <2>1. WorldInv' /\ Calm
      BY <1>3, InvParts, CallerGoesCalmly DEF HangCaller
    <2>2. Idle \in Serving /\ ServedOK(Idle) /\ SawOK(Idle) /\ HangOK(Idle)'
      BY InvParts, IdleServes DEF SawOK, HangOK, Idle, Holding
    <2>3. \A l \in Leg : ~Stores(run[h], l) /\ ~HangsUp(run[h], l)
      BY <1>1 DEF Stores, HangsUp
    <2>4. run' = [run EXCEPT ![h] = Idle]
      BY <1>1 DEF Ends
    <2> QED BY <1>1, <2>1, <2>2, <2>3, <2>4, InvParts, CalmIsFor, ServingKeeps
  <1> QED BY <1>2, <1>3

LEMMA RemoveReadKeeps ==
    ASSUME RingInv, NEW h \in Handler, RemoveRead(h)
    PROVE  RingInv'
  <1>1. run[h].pc = "remove" /\ Reads(h, "removeWrite")
    BY DEF RemoveRead, Is
  <1>2. run[h].hook.kind = "unanswered"
    BY <1>1, InvParts DEF ServedOK, MovePcs
  <1>3. "removeWrite" \in Pc \ (HangPcs \cup JoinPcs \cup DialPcs \cup {"targetWrite", "store", "storeWrite"})
    BY DEF Pc, HangPcs, JoinPcs, DialPcs
  <1> QED BY <1>1, <1>2, <1>3, ReadingKeeps DEF RemoveRead

\* The call it takes off the record is over.
LEMMA RemoveWriteKeeps ==
    ASSUME RingInv, NEW h \in Handler, RemoveWrite(h)
    PROVE  RingInv'
  <1> DEFINE l == run[h].hook.leg
             new == [run[h].saw EXCEPT !.sids = Without(@, l)]
  <1>1. /\ run[h].pc = "removeWrite" /\ Writes(h, new, "check")
        /\ early' = IF Storing(l) THEN early \cup {l} ELSE early
        /\ UNCHANGED <<answered, given, unread, stray, late>> /\ UNCHANGED twilio
        /\ leg' = leg /\ hooks' = hooks /\ hosted' = hosted
    BY DEF RemoveWrite, Is, twilio
  <1>2. /\ run[h].saw \in Meta /\ l \in Leg /\ run[h].saw.ring <= Len(flow.rings)
        /\ run[h].hook.kind = "unanswered" /\ Done(l)
    BY <1>1, InvParts DEF ServedOK, Serving, MovePcs, HookOK
  <1>3. new \in Meta /\ new.ring = run[h].saw.ring /\ new.sids = run[h].saw.sids \ {l}
    BY <1>2 DEF Meta, Without
  <1> HIDE DEF new, l
  <1>4. ~run[h].old => run[h].saw = meta
    BY <1>1, InvParts DEF SawOK, Holding
  <1>5. ~run[h].old => \A m \in meta.sids : Live(m) => m \in new.sids
    BY <1>2, <1>3, <1>4 DEF Live, Done
  <1>6. /\ unread' \in BOOLEAN /\ stray' \in BOOLEAN /\ early' \subseteq Leg /\ late' \subseteq Leg /\ late \subseteq late'
    BY <1>1, <1>2, InvParts DEF KnownInv
  <1>7. \A m \in Leg : ~Stores(run[h], m)
    BY <1>1 DEF Stores
  <1>8. "removeWrite" \in Holding \ {"purgeHang"}
    BY DEF Holding
  <1> QED BY <1>1, <1>2, <1>3, <1>5, <1>6, <1>7, <1>8, WritingKeeps, SameWorld

LEMMA CheckKeeps ==
    ASSUME RingInv, NEW h \in Handler, Check(h)
    PROVE  RingInv'
  <1>1. run[h].pc = "check" /\ run[h].hook.kind = "unanswered"
    BY InvParts DEF Check, Is, ServedOK, MovePcs
  <1>2. /\ "flag" \in Pc \ (HangPcs \cup JoinPcs \cup DialPcs \cup {"targetWrite", "store", "storeWrite"})
        /\ "failed" \in Pc \ (HangPcs \cup Holding \cup JoinPcs \cup DialPcs \cup {"targetWrite"})
    BY DEF Pc, HangPcs, JoinPcs, DialPcs, Holding
  <1>3. CASE NoneLeft(meta)
    BY <1>1, <1>2, <1>3, ReadingKeeps DEF Check
  <1>4. CASE ~NoneLeft(meta)
    BY <1>1, <1>2, <1>4, GoingKeeps DEF Check
  <1> QED BY <1>3, <1>4

\* Only the flag of the ring is written.
LEMMA FlagKeeps ==
    ASSUME RingInv, NEW h \in Handler, Flag(h)
    PROVE  RingInv'
  <1> DEFINE new == [run[h].saw EXCEPT !.failed = TRUE]
  <1>1. /\ run[h].pc = "flag" /\ Writes(h, new, "failed")
        /\ UNCHANGED <<answered, given, unread, stray, early, late>> /\ UNCHANGED twilio
        /\ leg' = leg /\ hooks' = hooks /\ hosted' = hosted
    BY DEF Flag, Is, twilio
  <1>2. /\ run[h].saw \in Meta /\ run[h].saw.ring <= Len(flow.rings)
        /\ run[h].hook.kind = "unanswered"
    BY <1>1, InvParts DEF ServedOK, Serving, MovePcs
  <1>3. new \in Meta /\ new.ring = run[h].saw.ring /\ new.sids = run[h].saw.sids
    BY <1>2 DEF Meta
  <1> HIDE DEF new
  <1>4. ~run[h].old => run[h].saw = meta
    BY <1>1, InvParts DEF SawOK, Holding
  <1>5. /\ unread' \in BOOLEAN /\ stray' \in BOOLEAN /\ early' \subseteq Leg /\ late' \subseteq Leg /\ late \subseteq late'
    BY <1>1, InvParts DEF KnownInv
  <1>6. \A m \in Leg : ~Stores(run[h], m)
    BY <1>1 DEF Stores
  <1>7. "flag" \in Holding \ {"purgeHang"}
    BY DEF Holding
  <1> QED BY <1>1, <1>2, <1>3, <1>4, <1>5, <1>6, <1>7, WritingKeeps, SameWorld

LEMMA FailedReadKeeps ==
    ASSUME RingInv, NEW h \in Handler, FailedRead(h)
    PROVE  RingInv'
  <1>1. /\ run[h].pc = "failed" /\ run[h].hook.kind = "unanswered"
        /\ UNCHANGED <<twilio, known, given, notes>>
    BY InvParts DEF FailedRead, Is, ServedOK, MovePcs
  <1>2. "redirect" \in Pc \ (HangPcs \cup Holding \cup JoinPcs \cup DialPcs \cup {"targetWrite"})
    BY DEF Pc, HangPcs, JoinPcs, DialPcs, Holding
  <1>3. CASE meta.failed
    BY <1>1, <1>2, <1>3, GoingKeeps DEF FailedRead
  <1>4. CASE ~meta.failed
    <2>1. flow' = flow /\ faults' \in 0 .. MaxFaults /\ LapsesGrow
      BY <1>1, GivenStays
    <2> QED BY <1>1, <1>4, <2>1, InvParts, EndingKeeps DEF FailedRead, twilio, known
  <1> QED BY <1>3, <1>4

\* The caller leaves the conference, which ends as if the caller had gone.
LEMMA RedirectKeeps ==
    ASSUME RingInv, NEW h \in Handler, Redirect(h)
    PROVE  RingInv'
  <1> DEFINE next == leg[run[h].hook.leg].ring + 1
             asked == OfCaller("twiml", next, caller.n + 1)
  <1>1. /\ Goes(h, "clear") /\ UNCHANGED <<known, given, notes>> /\ run[h].pc = "redirect"
        /\ meta' = meta /\ answered' = answered /\ flow' = flow
        /\ faults' \in 0 .. MaxFaults /\ LapsesGrow
        /\ UNCHANGED <<crossed, unread, stray, early, late>>
    BY GivenStays DEF Redirect, known, notes, Is
  <1>2. /\ WorldInv /\ run[h].hook.kind = "unanswered" /\ run[h].hook.leg \in Leg /\ next \in Nat
    BY <1>1, InvParts DEF ServedOK, MovePcs, HookOK, WorldInv, Legs
  <1>3. WorldInv' /\ Calm
    <2>1. CASE caller.at = "over"
      <3>1. UNCHANGED <<leg, hosted, hooks>> /\ UNCHANGED twilio
        BY <2>1 DEF Redirect, twilio
      <3> QED BY <3>1, SameWorld, UnchangedIsCalm
    <2>2. CASE caller.at # "over"
      <3>1. /\ caller.n < MaxAsks
            /\ caller' = [at |-> "asks", ring |-> next, n |-> caller.n + 1]
            /\ hooks' = (hooks \cup {asked}) \cup (IF caller.at = "waits" THEN Reports ELSE {})
            /\ IF caller.at = "waits" THEN leg' = Emptied /\ hosted' = FALSE
               ELSE UNCHANGED <<leg, hosted>>
        BY <2>2 DEF Redirect
      <3>2. caller.n + 1 \in 1 .. MaxAsks /\ caller.n + 1 \in 0 .. MaxAsks
        BY <1>2, <3>1, RingAssumption DEF WorldInv
      <3> HIDE DEF next
      <3>3. asked \in Hook /\ HookOK(asked)
        BY <1>2, <3>2, CallersHook
      <3>4. caller' \in [at : {"asks", "waits", "message", "over"}, ring : Nat, n : 1 .. MaxAsks]
        BY <1>2, <3>1, <3>2
      <3> HIDE DEF asked
      <3>5. CASE caller.at = "waits"
        <4>1. /\ hooks' = hooks \cup (Reports \cup {asked}) /\ leg' = Emptied /\ hosted' = FALSE
          BY <3>1, <3>5
        <4>2. /\ Reports \cup {asked} \subseteq Hook
              /\ \A k \in Reports \cup {asked} : HookOK(k)
              /\ hosted => \E k \in hooks' : k.kind = "left"
          BY <1>2, <3>3, <4>1, ReportsAreHooks
        <4> QED BY <1>2, <3>4, <4>1, <4>2, EmptyingIsCalm DEF WorldInv, Calm
      <3>6. CASE caller.at # "waits"
        <4>1. /\ hooks' = hooks \cup {asked} /\ leg' = leg /\ hosted' = hosted /\ ~hosted
          BY <1>2, <3>1, <3>6 DEF WorldInv
        <4> QED BY <1>2, <3>3, <3>4, <4>1, EmptyingIsCalm DEF WorldInv, Calm
      <3> QED BY <3>5, <3>6
    <2> QED BY <2>1, <2>2
  <1> PICK w : w = [run[h] EXCEPT !.pc = "clear"]
    OBVIOUS
  <1>4. run' = [run EXCEPT ![h] = w]
    BY <1>1, InvParts DEF Goes
  <1>5. w \in Serving /\ w.pc = "clear" /\ w.hook = run[h].hook /\ w.saw = run[h].saw
    <2>1. run[h] \in Serving
      BY InvParts
    <2> QED BY <2>1 DEF Serving, Pc
  <1>6. ServedOK(w) /\ SawOK(w) /\ HangOK(w)'
    BY <1>2, <1>5, InvParts DEF ServedOK, SawOK, HangOK, Holding, JoinPcs, MovePcs, DialPcs
  <1>7. \A l \in Leg : ~Stores(run[h], l) /\ ~HangsUp(run[h], l)
    BY <1>1 DEF Stores, HangsUp
  <1> QED BY <1>1, <1>3, <1>4, <1>5, <1>6, <1>7, InvParts, CalmIsFor, ServingKeeps

LEMMA ClearReadKeeps ==
    ASSUME RingInv, NEW h \in Handler, ClearRead(h)
    PROVE  RingInv'
  <1>1. run[h].pc = "clear" /\ Reads(h, "clearWrite")
    BY DEF ClearRead, Is
  <1>2. run[h].hook.kind = "unanswered"
    BY <1>1, InvParts DEF ServedOK, MovePcs
  <1>3. "clearWrite" \in Pc \ (HangPcs \cup JoinPcs \cup DialPcs \cup {"targetWrite", "store", "storeWrite"})
    BY DEF Pc, HangPcs, JoinPcs, DialPcs
  <1> QED BY <1>1, <1>2, <1>3, ReadingKeeps DEF ClearRead

LEMMA ClearWriteKeeps ==
    ASSUME RingInv, NEW h \in Handler, ClearWrite(h)
    PROVE  RingInv'
  <1> DEFINE new == [run[h].saw EXCEPT !.failed = FALSE]
  <1>1. /\ run[h].pc = "clearWrite" /\ Writes(h, new, "idle")
        /\ unread' = (unread \/ \E g \in Handler : Is(g, "failed"))
        /\ UNCHANGED <<answered, given, stray, early, late>> /\ UNCHANGED twilio
        /\ leg' = leg /\ hooks' = hooks /\ hosted' = hosted
    BY DEF ClearWrite, Is, twilio
  <1>2. /\ run[h].saw \in Meta /\ run[h].saw.ring <= Len(flow.rings)
    BY InvParts DEF ServedOK, Serving
  <1>3. new \in Meta /\ new.ring = run[h].saw.ring /\ new.sids = run[h].saw.sids
    BY <1>2 DEF Meta
  <1> HIDE DEF new
  <1>4. ~run[h].old => run[h].saw = meta
    BY <1>1, InvParts DEF SawOK, Holding
  <1>5. /\ unread' \in BOOLEAN /\ stray' \in BOOLEAN /\ early' \subseteq Leg /\ late' \subseteq Leg /\ late \subseteq late'
    BY <1>1, InvParts DEF KnownInv
  <1>6. \A m \in Leg : ~Stores(run[h], m)
    BY <1>1 DEF Stores
  <1>7. "clearWrite" \in Holding \ {"purgeHang"} /\ "idle" \notin MovePcs
    BY DEF Holding, MovePcs
  <1> QED BY <1>1, <1>2, <1>3, <1>4, <1>5, <1>6, <1>7, WritingKeeps, SameWorld

-----------------------------------------------------------------------------
(* Failures                                                                 *)

LEMMA FaultSpends ==
    ASSUME RingInv, Fault
    PROVE  flow' = flow /\ faults' \in 0 .. MaxFaults
  <1>1. faults \in 0 .. MaxFaults /\ MaxFaults \in Nat
    BY RingAssumption DEF RingInv, TypeInv, KnownInv
  <1> QED BY <1>1 DEF Fault

LEMMA LapsesStay ==
    ASSUME RingInv, UNCHANGED lapses
    PROVE  LapsesGrow
  BY DEF lapses, LapsesGrow, RingInv, TypeInv, KnownInv

\* The caller enters the conference although the record does not say for which ring.
LEMMA TargetFailsKeeps ==
    ASSUME RingInv, NEW h \in Handler, TargetFails(h)
    PROVE  RingInv'
  <1>1. /\ Enters(h) /\ Ends(h) /\ leg' = leg /\ meta' = meta /\ answered' = answered
        /\ UNCHANGED <<crossed, unread, stray, early, late>> /\ Fault /\ UNCHANGED lapses
        /\ run[h].pc \in {"target", "targetWrite"}
    BY DEF TargetFails, Is, known, notes
  <1>2. flow' = flow /\ faults' \in 0 .. MaxFaults /\ LapsesGrow
    BY <1>1, FaultSpends, LapsesStay
  <1>3. WorldInv' /\ CalmFor(Idle)
    BY <1>1, EnteringKeeps, CalmIsFor
  <1>4. Idle \in Serving /\ ServedOK(Idle) /\ SawOK(Idle) /\ HangOK(Idle)'
    BY InvParts, IdleServes DEF SawOK, HangOK, Idle, Holding
  <1>5. \A l \in Leg : ~Stores(run[h], l) /\ ~HangsUp(run[h], l)
    BY <1>1 DEF Stores, HangsUp
  <1>6. run' = [run EXCEPT ![h] = Idle]
    BY <1>1 DEF Ends
  <1> QED BY <1>1, <1>2, <1>3, <1>4, <1>5, <1>6, InvParts, ServingKeeps

LEMMA AskFailsKeeps ==
    ASSUME RingInv, NEW h \in Handler, AskFails(h)
    PROVE  RingInv'
  <1>1. /\ UNCHANGED <<hosted, leg, hooks, meta, notes>> /\ answered' = answered
        /\ Fault /\ UNCHANGED lapses /\ Ends(h)
        /\ run[h].pc \in {"answered", "target", "targetWrite"}
        /\ caller' = IF Wanted(h) THEN [caller EXCEPT !.at = "over"] ELSE caller
    BY DEF AskFails, known
  <1>2. flow' = flow /\ faults' \in 0 .. MaxFaults /\ LapsesGrow
    BY <1>1, FaultSpends, LapsesStay
  <1>3. /\ caller' \in [at : {"asks", "waits", "message", "over"}, ring : Nat, n : 1 .. MaxAsks]
        /\ hosted => caller'.at = "waits"
    BY <1>1, InvParts DEF Wanted
  <1> QED BY <1>1, <1>2, <1>3, InvParts, EndingKeeps

LEMMA DialFailsKeeps ==
    ASSUME RingInv, NEW h \in Handler, DialFails(h)
    PROVE  RingInv'
  <1> DEFINE w == [run[h] EXCEPT !.to = Tail(run[h].to)]
  <1>1. /\ UNCHANGED <<hosted, leg, hooks, meta, notes>> /\ answered' = answered
        /\ run[h].pc = "dial" /\ caller' = caller /\ run[h].to # <<>>
        /\ run' = [run EXCEPT ![h].to = Tail(@)]
        /\ Fault /\ UNCHANGED lapses
    BY DEF DialFails, known, twilio, Is
  <1>2. flow' = flow /\ faults' \in 0 .. MaxFaults /\ LapsesGrow
    BY <1>1, FaultSpends, LapsesStay
  <1>3. /\ run[h] \in Serving /\ run \in [Handler -> Serving] /\ ServedOK(run[h])
        /\ run[h].to \in Seq(Agent)
    BY InvParts DEF Serving
  <1>4. Tail(run[h].to) \in Seq(Agent)
    BY <1>1, <1>3
  <1>5. run' = [run EXCEPT ![h] = w]
    BY <1>1, <1>3
  <1>6. /\ w \in Serving /\ w.pc = "dial" /\ w.hook = run[h].hook /\ w.saw = run[h].saw
        /\ w.leg = run[h].leg
    BY <1>1, <1>3, <1>4 DEF Serving
  <1> HIDE DEF w
  <1>7. ServedOK(w) /\ SawOK(w) /\ HangOK(w)
    BY <1>1, <1>3, <1>6 DEF ServedOK, SawOK, HangOK, Holding
  <1>8. \A l \in Leg : ~Stores(run[h], l) /\ ~HangsUp(run[h], l)
    BY <1>1 DEF Stores, HangsUp
  <1> QED BY <1>1, <1>2, <1>5, <1>6, <1>7, <1>8, InvParts, LocalKeeps

LEMMA StoreFailsKeeps ==
    ASSUME RingInv, NEW h \in Handler, StoreFails(h)
    PROVE  RingInv'
  <1>1. /\ UNCHANGED <<hosted, leg, hooks, meta, notes>> /\ answered' = answered
        /\ caller' = caller /\ Fault /\ run[h].pc \in {"store", "storeWrite"}
        /\ run' = [run EXCEPT ![h].pc = "dial"]
        /\ loose' = loose \cup {run[h].leg} /\ UNCHANGED <<stuck, kept, cut>>
    BY DEF StoreFails, known, twilio
  <1>2. /\ run[h] \in Serving /\ run \in [Handler -> Serving] /\ ServedOK(run[h])
        /\ run[h].leg \in Leg
    BY <1>1, InvParts DEF ServedOK
  <1>3. flow' = flow /\ faults' \in 0 .. MaxFaults /\ LapsesGrow
    BY <1>1, <1>2, FaultSpends DEF LapsesGrow, RingInv, TypeInv, KnownInv
  <1> PICK w : w = [run[h] EXCEPT !.pc = "dial"]
    OBVIOUS
  <1>4. run' = [run EXCEPT ![h] = w]
    BY <1>1, <1>2
  <1>5. /\ w \in Serving /\ w.pc = "dial" /\ w.hook = run[h].hook /\ w.saw = run[h].saw
    BY <1>2 DEF Serving, Pc
  <1>6. ServedOK(w) /\ SawOK(w) /\ HangOK(w)
    BY <1>1, <1>2, <1>5 DEF ServedOK, SawOK, HangOK, Holding, JoinPcs, MovePcs, DialPcs
  <1>7. \A l \in Leg : (Stores(run[h], l) => l \in loose') /\ ~HangsUp(run[h], l)
    BY <1>1 DEF Stores, HangsUp
  <1> QED BY <1>1, <1>3, <1>4, <1>5, <1>6, <1>7, InvParts, LocalKeeps

LEMMA HangFailsKeeps ==
    ASSUME RingInv, NEW h \in Handler, JoinHangFails(h) \/ PurgeHangFails(h)
    PROVE  RingInv'
  <1> PICK next : /\ HangFails(h, next)
                  /\ \/ run[h].pc = "joinHang" /\ next = "joinWrite"
                     \/ run[h].pc = "purgeHang" /\ next = "purgeWrite"
    BY DEF JoinHangFails, PurgeHangFails, Is
  <1> PICK l \in run[h].hang : loose' = loose \cup {l} /\ Strikes(h, l, next)
    BY DEF HangFails
  <1>1. Fault /\ UNCHANGED <<twilio, known, notes, stuck, kept, cut>> /\ l \in Leg
    BY InvParts DEF HangFails, Serving
  <1>2. flow' = flow /\ faults' \in 0 .. MaxFaults /\ LapsesGrow
    BY <1>1, FaultSpends DEF LapsesGrow, RingInv, TypeInv, KnownInv
  <1>3. WorldInv' /\ Calm
    <2>1. UNCHANGED twilio /\ UNCHANGED <<leg, hosted, hooks>>
      BY <1>1 DEF twilio
    <2> QED BY <2>1, SameWorld, UnchangedIsCalm
  <1> QED BY <1>1, <1>2, <1>3, StrikingKeeps

LEMMA HangCallerFailsKeeps ==
    ASSUME RingInv, NEW h \in Handler, HangCallerFails(h)
    PROVE  RingInv'
  <1>1. /\ UNCHANGED <<hosted, leg, hooks, meta, notes>> /\ answered' = answered
        /\ caller' = caller /\ Fault /\ run[h].pc = "hangCaller" /\ Ends(h)
        /\ kept' = TRUE /\ UNCHANGED <<loose, stuck, cut>>
    BY DEF HangCallerFails, Is, known, twilio
  <1>2. flow' = flow /\ faults' \in 0 .. MaxFaults /\ LapsesGrow
    BY <1>1, FaultSpends DEF LapsesGrow, RingInv, TypeInv, KnownInv
  <1> QED BY <1>1, <1>2, InvParts, EndingKeeps

LEMMA RedirectFailsKeeps ==
    ASSUME RingInv, NEW h \in Handler, RedirectFails(h)
    PROVE  RingInv'
  <1>1. /\ UNCHANGED <<hosted, leg, hooks, meta, notes>> /\ answered' = answered
        /\ caller' = caller /\ Fault /\ run[h].pc = "redirect" /\ Goes(h, "clear")
        /\ stuck' = IF caller.at = "waits" THEN stuck \cup {caller.n} ELSE stuck
        /\ UNCHANGED <<loose, kept, cut>>
    BY DEF RedirectFails, Is, known, twilio
  <1>2. flow' = flow /\ faults' \in 0 .. MaxFaults /\ LapsesGrow
    BY <1>1, FaultSpends, InvParts DEF LapsesGrow, KnownInv
  <1>3. run[h] \in Serving /\ run \in [Handler -> Serving] /\ ServedOK(run[h])
    BY InvParts
  <1> PICK w : w = [run[h] EXCEPT !.pc = "clear"]
    OBVIOUS
  <1>4. run' = [run EXCEPT ![h] = w]
    BY <1>1, <1>3 DEF Goes
  <1>5. w \in Serving /\ w.pc = "clear" /\ w.hook = run[h].hook /\ w.saw = run[h].saw
    BY <1>3 DEF Serving, Pc
  <1>6. ServedOK(w) /\ SawOK(w) /\ HangOK(w)
    BY <1>1, <1>3, <1>5 DEF ServedOK, SawOK, HangOK, Holding, JoinPcs, MovePcs, DialPcs
  <1>7. \A l \in Leg : ~Stores(run[h], l) /\ ~HangsUp(run[h], l)
    BY <1>1 DEF Stores, HangsUp
  <1> QED BY <1>1, <1>2, <1>4, <1>5, <1>6, <1>7, InvParts, LocalKeeps

LEMMA IsCutKeeps ==
    ASSUME RingInv, NEW h \in Handler, IsCut(h)
    PROVE  RingInv'
  <1>1. /\ UNCHANGED <<hosted, leg, hooks, meta, notes>> /\ answered' = answered
        /\ caller' = caller /\ Fault /\ Ends(h) /\ cut' = TRUE /\ UNCHANGED <<stuck, kept>>
        /\ loose' = IF run[h].pc \in {"store", "storeWrite"} THEN loose \cup {run[h].leg} ELSE loose
    BY DEF IsCut, known, twilio
  <1>2. run[h].pc \in {"store", "storeWrite"} => run[h].leg \in Leg
    BY InvParts DEF ServedOK
  <1>3. flow' = flow /\ faults' \in 0 .. MaxFaults /\ LapsesGrow
    BY <1>1, <1>2, FaultSpends DEF LapsesGrow, RingInv, TypeInv, KnownInv
  <1> QED BY <1>1, <1>3, InvParts, EndingKeeps

-----------------------------------------------------------------------------
(* The specification                                                        *)

LEMMA RingStarts ==
    ASSUME RingInit
    PROVE  RingInv
  <1>1. /\ MaxAsks \in Nat \ {0} /\ MaxLegs \in Nat /\ MaxFaults \in Nat
        /\ 1 \in 0 .. MaxAsks /\ 1 \in 1 .. MaxAsks
    BY RingAssumption
  <1>2. OfCaller("twiml", 1, 1) \in Hook /\ HookOK(OfCaller("twiml", 1, 1))
    BY <1>1, CallersHook
  <1>3. WorldInv
    <2>1. caller = [at |-> "asks", ring |-> 1, n |-> 1] /\ hosted = FALSE
          /\ leg = [l \in Leg |-> [at |-> "none", ring |-> 0, n |-> 0]]
          /\ hooks = {OfCaller("twiml", 1, 1)}
      BY DEF RingInit
    <2>2. leg \in Legs /\ \A l \in Leg : leg[l].at = "none" /\ leg[l].ring = 0
      <3>1. 0 \in 0 .. MaxAsks
        BY <1>1
      <3> QED BY <2>1, <3>1 DEF Legs
    <2> QED BY <1>1, <1>2, <2>1, <2>2 DEF WorldInv
  <1>4. KnownInv
    <2>1. flow \in CallFlow /\ meta = NoMeta /\ NoMeta \in Meta /\ NoMeta.ring = 0
      BY DEF RingInit, NoMeta, Meta
    <2>2. Len(flow.rings) \in Nat
      BY <2>1, RingAssumption
    <2>3. meta \in Meta /\ meta.ring <= Len(flow.rings)
      BY <2>1, <2>2
    <2>4. faults = MaxFaults /\ faults \in 0 .. MaxFaults
      BY <1>1 DEF RingInit
    <2>5. answered = FALSE /\ crossed = FALSE /\ unread = FALSE /\ stray = FALSE /\ early = {} /\ late = {}
          /\ loose = {} /\ stuck = {} /\ kept = FALSE /\ cut = FALSE
      BY DEF RingInit
    <2> QED BY <2>1, <2>3, <2>4, <2>5 DEF KnownInv
  <1>5. Idle \in Serving /\ ServedOK(Idle) /\ SawOK(Idle) /\ HangOK(Idle)
    BY <1>4, IdleServes DEF SawOK, HangOK, Idle, Holding
  <1>6. run = [h \in Handler |-> Idle]
    BY DEF RingInit
  <1>7. ServedInv /\ \A h \in Handler : SawOK(run[h]) /\ HangOK(run[h])
    BY <1>5, <1>6 DEF ServedInv
  <1>8. OnRecord /\ Accounted
    BY DEF RingInit, OnRecord, Accounted, Live
  <1> QED BY <1>3, <1>4, <1>7, <1>8 DEF RingInv, TypeInv, RecordInv

LEMMA ServingStepKeeps ==
    ASSUME RingInv, NEW h \in Handler, Deliver(h) \/ Works(h) \/ Fails(h)
    PROVE  RingInv'
  <1>1. CASE Flows(h)
    BY <1>1, DialEndedKeeps, LeaveMessageKeeps, TargetReadKeeps, TargetWriteKeeps DEF Flows
  <1>2. CASE Dials(h)
    BY <1>2, DialReadKeeps, DialKeeps, DialDoneKeeps, StoreReadKeeps, StoreWriteKeeps DEF Dials
  <1>3. CASE Joins(h)
    BY <1>3, JoinReadKeeps, JoinMarkKeeps, JoinHangKeeps, JoinWriteKeeps DEF Joins
  <1>4. CASE Purges(h)
    BY <1>4, PurgeReadKeeps, PurgeHangKeeps, PurgeWriteKeeps, HangCallerKeeps DEF Purges
  <1>5. CASE Moves(h)
    BY <1>5, RemoveReadKeeps, RemoveWriteKeeps, CheckKeeps, FlagKeeps, FailedReadKeeps,
       RedirectKeeps, ClearReadKeeps, ClearWriteKeeps DEF Moves
  <1>6. CASE Fails(h)
    BY <1>6, TargetFailsKeeps, AskFailsKeeps, DialFailsKeeps, StoreFailsKeeps, HangFailsKeeps,
       HangCallerFailsKeeps, RedirectFailsKeeps, IsCutKeeps DEF Fails
  <1> QED BY <1>1, <1>2, <1>3, <1>4, <1>5, <1>6, DeliverKeeps DEF Works

LEMMA RingStepKeeps ==
    ASSUME RingInv, [RingNext]_ringVars
    PROVE  RingInv'
  <1>1. CASE RingNext
    BY <1>1, CallerHangsUpKeeps, AgentAnswersKeeps, AgentFailsKeeps, AgentHangsUpKeeps,
       ServingStepKeeps DEF RingNext
  <1>2. CASE UNCHANGED ringVars
    <2>1. UNCHANGED <<known, run, given, notes>> /\ UNCHANGED twilio
          /\ UNCHANGED <<leg, hosted, hooks>>
      BY <1>2 DEF ringVars, known, given, lapses, notes, twilio
    <2>2. stray' \in BOOLEAN /\ UNCHANGED <<crossed, unread, early, late>>
      BY <2>1 DEF notes, RingInv, TypeInv, KnownInv
    <2> QED BY <2>1, <2>2, SameWorld, UnchangedIsCalm, OutsideKeeps
  <1> QED BY <1>1, <1>2

LEMMA RingHolds == RingSpec => []RingInv
  <1>1. RingInit => RingInv
    BY RingStarts
  <1>2. RingInv /\ [RingNext]_ringVars => RingInv'
    BY RingStepKeeps
  <1> QED BY <1>1, <1>2, PTL DEF RingSpec

\* The types: what every webhook reads, writes and carries is what CallRing says, for
\* any number of webhooks at once, calls, requests and failures.
THEOREM RingTyped == RingSpec => []CallTypeOK
  <1>1. RingInv => CallTypeOK
    BY DEF RingInv, TypeInv, WorldInv, KnownInv, ServedInv, CallTypeOK, Legs
  <1> QED BY <1>1, RingHolds, PTL

\* No phone is left ringing for a caller who has hung up, once every webhook has been
\* served (terminatePendingAgentCalls), whichever requests and statements failed: but for
\* a phone whose call was put on record too late, or not at all, or could not be hung up,
\* and unless two webhooks wrote metaValue over each other or one was not served to its
\* end.
THEOREM GoneIsSilent == RingSpec => []NobodyRingsForTheGone
  <1>1. RingInv => NobodyRingsForTheGone
    <2> SUFFICES ASSUME RingInv, Quiet, caller.at = "over", ~crossed, ~cut,
                        NEW l \in Leg, leg[l].at = "ringing"
                 PROVE  l \in late \cup loose
      BY DEF NobodyRingsForTheGone, Ringing
    <2>1. \A h \in Handler : run[h].pc = "idle"
      BY DEF Quiet, Is
    <2>2. ~hosted /\ ~LeftToServe
      BY DEF RingInv, TypeInv, WorldInv, LeftToServe, Quiet
    <2>3. ~Stored(l) /\ \A h \in Handler : ~HangsUp(run[h], l)
      BY <2>1 DEF Stored, Stores, HangsUp
    <2> QED BY <2>2, <2>3 DEF RingInv, RecordInv, Accounted
  <1> QED BY <1>1, RingHolds, PTL

\* Only the webhook itself goes from the check of metaValue to the flag.
LEMMA OthersStay ==
    ASSUME RingInv, NEW h \in Handler, NEW g \in Handler, g # h,
           Deliver(g) \/ Works(g) \/ Fails(g)
    PROVE  run'[h].pc = run[h].pc
  <1>1. /\ run \in [Handler -> Serving] /\ run[h] \in Serving
    BY InvParts
  <1>2. CASE \E new, next : Writes(g, new, next)
    BY <1>1, <1>2 DEF Writes, Serving
  <1>3. CASE \E l, next : Strikes(g, l, next)
    BY <1>1, <1>3 DEF Strikes
  <1>4. CASE Flows(g)
    BY <1>1, <1>2, <1>4 DEF Flows, DialEnded, LeaveMessage, TargetRead, TargetWrite, Ends, Reads
  <1>5. CASE Dials(g)
    BY <1>1, <1>2, <1>5 DEF Dials, DialRead, Dial, DialDone, StoreRead, StoreWrite, Ends, Reads
  <1>6. CASE Joins(g)
    BY <1>1, <1>2, <1>3, <1>6
       DEF Joins, JoinRead, JoinMark, JoinHang, HangOne, JoinWrite, Ends, Reads
  <1>7. CASE Purges(g)
    BY <1>1, <1>2, <1>3, <1>7
       DEF Purges, PurgeRead, PurgeHang, HangOne, PurgeWrite, HangCaller, Ends
  <1>8. CASE Moves(g)
    BY <1>1, <1>2, <1>8 DEF Moves, RemoveRead, RemoveWrite, Check, Flag, FailedRead, Redirect,
       ClearRead, ClearWrite, Ends, Reads, Goes
  <1>9. CASE Deliver(g)
    BY <1>1, <1>9 DEF Deliver
  <1>10. CASE Fails(g)
    BY <1>1, <1>3, <1>10 DEF Fails, TargetFails, AskFails, DialFails, StoreFails, JoinHangFails,
       PurgeHangFails, HangFails, HangCallerFails, RedirectFails, IsCut, Ends, Goes
  <1> QED BY <1>4, <1>5, <1>6, <1>7, <1>8, <1>9, <1>10 DEF Works

LEMMA OnlyCheckFlags ==
    ASSUME RingInv, [RingNext]_ringVars, NEW h \in Handler, Is(h, "check"), run'[h].pc = "flag"
    PROVE  meta.sids = {}
  <1>1. run' # run
    BY DEF Is
  <1>2. RingNext
    BY <1>1 DEF ringVars
  <1>3. PICK g \in Handler : Deliver(g) \/ Works(g) \/ Fails(g)
    BY <1>1, <1>2 DEF RingNext, CallerHangsUp, AgentAnswers, AgentFails, AgentHangsUp
  <1>4. g = h
    BY <1>3, OthersStay DEF Is
  <1>5. Check(h)
    <2>1. ~IsCut(h)
      <3>1. IsCut(h) => run'[h] = Idle
        BY InvParts DEF IsCut, Ends
      <3> QED BY <3>1 DEF Idle
    <2> QED BY <1>3, <1>4, <2>1 DEF Works, Flows, Dials, Joins, Purges, Moves, Is, Deliver, Fails,
       TargetFails, AskFails, DialFails, StoreFails, JoinHangFails, PurgeHangFails,
       HangCallerFails, RedirectFails,
       DialEnded, LeaveMessage, TargetRead, TargetWrite, DialRead, Dial, DialDone, StoreRead,
       StoreWrite, JoinRead, JoinMark, JoinHang, JoinWrite, PurgeRead, PurgeHang, PurgeWrite,
       HangCaller, RemoveRead, RemoveWrite, Flag, FailedRead, Redirect, ClearRead, ClearWrite
  <1>6. CASE ~NoneLeft(meta)
    <2>1. run \in [Handler -> Serving] /\ run[h] \in Serving
      BY InvParts
    <2>2. run'[h] = [run[h] EXCEPT !.pc = "failed"]
      BY <1>5, <1>6, <2>1 DEF Check, Goes
    <2>3. run'[h].pc = "failed"
      BY <2>1, <2>2 DEF Serving
    <2> QED BY <2>3
  <1> QED BY <1>6 DEF NoneLeft

\* The caller is moved on only from a ring whose calls are all over: no phone of it
\* rings and nobody of it is talking, unless the call could not be put on record or hung
\* up, webhooks crossed, or agents of the ring are still being called
\* (handleAgentCallStatus).
THEOREM MovesOn == RingSpec => MovesOnWhenAllFailed
  <1>1. RingInv /\ [RingNext]_ringVars =>
           [\A h \in Handler :
              Is(h, "check") /\ run'[h].pc = "flag" =>
                 \/ \A l \in Leg \ loose : leg[l].ring = leg[run[h].hook.leg].ring
                                             => leg[l].at \in {"over", "dropped"}
                 \/ crossed \/ Dialing]_ringVars
    <2> SUFFICES ASSUME RingInv, [RingNext]_ringVars, NEW h \in Handler, Is(h, "check"),
                        run'[h].pc = "flag", ~crossed, ~Dialing, NEW l \in Leg \ loose,
                        leg[l].ring = leg[run[h].hook.leg].ring
                 PROVE  leg[l].at \in {"over", "dropped"}
      OBVIOUS
    <2>1. ~Live(l)
      BY OnlyCheckFlags DEF RingInv, RecordInv, OnRecord, Stored, Stores, Dialing
    <2>2. run[h].hook.leg \in Leg /\ Done(run[h].hook.leg) /\ WorldInv
      BY InvParts DEF Is, ServedOK, MovePcs, HookOK
    <2>3. leg[run[h].hook.leg].ring # 0
      BY <2>2 DEF Done, WorldInv
    <2>4. leg[l].at # "none" /\ leg[l].at \in {"none", "ringing", "in", "over", "dropped"}
      BY <2>2, <2>3 DEF WorldInv, Legs
    <2> QED BY <2>1, <2>4 DEF Live
  <1> QED BY <1>1, RingHolds, PTL DEF RingSpec, MovesOnWhenAllFailed

-----------------------------------------------------------------------------
(* Nobody waits alone: the inductive invariant                              *)

\* A call that nobody answered, whose end the API has still to take off the record.
Unanswering(w, l) == w.pc \in {"remove", "removeWrite"} /\ w.hook.leg = l
Unanswered(l) ==
    \/ \E k \in hooks : k.kind = "unanswered" /\ k.leg = l
    \/ \E g \in Handler : Unanswering(run[g], l)
Pending(l) == Live(l) \/ Unanswered(l)

\* The caller's call is over, or will be, since an agent has left the caller's conference.
Doomed ==
    \/ caller.at = "over"
    \/ \E k \in hooks : k.kind = "agentLeft"
    \/ \E g \in Handler : run[g].pc = "hangCaller"

\* Nothing has happened that NobodyWaitsAlone excepts, and the caller is there.
Regular ==
    /\ ~crossed /\ ~unread /\ ~stray /\ early = {}
    /\ ~kept /\ ~cut
    /\ \A l \in Leg : leg[l].at # "dropped"
    /\ ~Doomed

\* Calls are placed for a request of the caller that has led into the conference.
PlacedFor(n) == n < caller.n \/ (n = caller.n /\ caller.at # "asks")
CallPcs == {"dialRead"} \cup DialPcs
Placed ==
    /\ \A l \in Leg : PlacedFor(leg[l].n)
    /\ \A k \in hooks : k.kind = "callerJoin" => PlacedFor(k.n)
    /\ \A g \in Handler : run[g].pc \in CallPcs => PlacedFor(run[g].hook.n)

\* Whoever talks is in the caller's conference, and webhooks about it are about them.
Talking ==
    /\ \A l \in Leg : leg[l].at = "in" => hosted
    /\ \A k \in hooks : k.kind = "agentJoin" => leg[k.leg].at = "in"
    /\ \A g \in Handler : run[g].pc \in JoinPcs => leg[run[g].hook.leg].at = "in"

\* A call on record, or being put there, goes on, or its end has still to be served.
Expected ==
    /\ \A l \in meta.sids : Pending(l)
    /\ \A l \in Leg : Stored(l) => Pending(l)

\* A webhook that will take the caller out of the conference.
Brings(w) ==
    \/ w.pc = "check" /\ meta.sids = {}
    \/ w.pc = "failed" /\ meta.failed
    \/ w.pc \in {"flag", "redirect"}

\* The caller waits, agents have been called for that, and no redirection has failed.
Called == caller.at = "waits" /\ caller.n \notin stuck /\ \E l \in Leg : leg[l].n = caller.n

\* A call goes on, or a webhook will send the caller on.
Moving == (\E l \in Leg : Pending(l)) \/ \E g \in Handler : Brings(run[g])

WaitInv ==
    /\ Placed
    /\ Regular => Talking /\ Expected /\ (Called => Moving)

-----------------------------------------------------------------------------
(* What a step must do to keep it                                           *)

KeepsPlaced ==
    /\ \A n \in Nat : PlacedFor(n) => PlacedFor(n)'
    /\ \A l \in Leg : leg'[l].n = leg[l].n \/ PlacedFor(leg[l].n)'
    /\ \A k \in hooks' : k.kind = "callerJoin" => k \in hooks \/ PlacedFor(k.n)'

KeepsNotes ==
    /\ crossed => crossed'
    /\ unread => unread'
    /\ stray => stray'
    /\ early \subseteq early'
    /\ LapsesGrow

KeepsDoom ==
    /\ EndsStay
    /\ Doomed => Doomed'

\* No call is forgotten, nobody who talks is cut off, and if the caller begins to be
\* called, then somebody is there.
KeepsCalls ==
    /\ \A l \in Leg : Live(l) => Pending(l)'
    /\ \A l \in Leg : leg[l].at = "in" => leg'[l].at = "in" /\ (hosted => hosted')
    /\ \A l \in Leg : leg'[l].at = "in" => leg[l].at = "in" \/ hosted'
    /\ \A k \in hooks' : k.kind = "agentJoin" => k \in hooks \/ leg'[k.leg].at = "in"
    /\ \A k \in hooks : k.kind = "unanswered" => Unanswered(k.leg)'
    /\ Called' => Called \/ Moving'

Same(g) == run'[g].pc = run[g].pc /\ run'[g].hook = run[g].hook /\ run'[g].leg = run[g].leg

KeepsRecord ==
    /\ \A l \in meta'.sids : l \in meta.sids \/ Pending(l)'
    /\ (\E g \in Handler : Same(g) /\ run[g].pc = "failed") /\ meta.failed => meta'.failed

\* What the webhook that takes the step makes of it.
Proceeds(g) ==
    /\ run'[g].pc \in JoinPcs => leg'[run'[g].hook.leg].at = "in"
    /\ \A l \in Leg : Stores(run'[g], l) => Pending(l)'
    /\ \A l \in Leg : Unanswering(run[g], l) =>
          Unanswered(l)' \/ (l \notin meta'.sids /\ ~Stored(l)' /\ run'[g].pc = "check")
    /\ Brings(run[g]) => Brings(run[g])' \/ ~Called'

LEMMA PlacedKeeps ==
    ASSUME RingInv, RingInv', Placed, KeepsPlaced,
           \A g \in Handler : \/ Same(g)
                              \/ run'[g].pc \in CallPcs => PlacedFor(run[g].hook.n)'
    PROVE  Placed'
  <1>1. /\ leg \in Legs /\ leg' \in Legs /\ hooks' \subseteq Hook /\ hooks \subseteq Hook
        /\ MaxAsks \in Nat /\ 0 .. MaxAsks \subseteq Nat
    BY RingAssumption DEF RingInv, TypeInv, WorldInv
  <1>2. \A l \in Leg : PlacedFor(leg[l].n)'
    <2> SUFFICES ASSUME NEW l \in Leg, leg'[l].n = leg[l].n
                 PROVE  PlacedFor(leg[l].n)'
      BY DEF KeepsPlaced
    <2>1. leg[l].n \in Nat /\ PlacedFor(leg[l].n)
      BY <1>1 DEF Legs, Placed
    <2> QED BY <2>1 DEF KeepsPlaced
  <1>3. \A k \in hooks' : k.kind = "callerJoin" => PlacedFor(k.n)'
    <2> SUFFICES ASSUME NEW k \in hooks, k.kind = "callerJoin"
                 PROVE  PlacedFor(k.n)'
      BY DEF KeepsPlaced
    <2>1. k.n \in Nat /\ PlacedFor(k.n)
      BY <1>1 DEF Hook, Placed
    <2> QED BY <2>1 DEF KeepsPlaced
  <1>4. \A g \in Handler : run'[g].pc \in CallPcs => PlacedFor(run[g].hook.n)'
    <2> SUFFICES ASSUME NEW g \in Handler, Same(g), run'[g].pc \in CallPcs
                 PROVE  PlacedFor(run[g].hook.n)'
      OBVIOUS
    <2>1. run[g].hook \in Hook
      BY InvParts DEF Serving
    <2>2. run[g].hook.n \in Nat /\ PlacedFor(run[g].hook.n)
      BY <1>1, <2>1 DEF Hook, Placed, Same
    <2> PICK n \in Nat : n = run[g].hook.n
      BY <2>2
    <2>3. PlacedFor(n)' /\ run'[g].hook.n = n
      BY <2>2 DEF KeepsPlaced, Same
    <2> QED BY <2>3 DEF PlacedFor
  <1> QED BY <1>2, <1>3, <1>4 DEF Placed

LEMMA WaitKeeps ==
    ASSUME RingInv, RingInv', WaitInv, Placed', KeepsNotes, KeepsDoom,
           Regular /\ Talking /\ Expected /\ Regular' =>
              KeepsCalls /\ KeepsRecord /\ \A g \in Handler : Same(g) \/ Proceeds(g)
    PROVE  WaitInv'
  <1> SUFFICES ASSUME Regular'
               PROVE  Talking' /\ Expected' /\ (Called' => Moving')
    BY DEF WaitInv
  <1>1. Regular
    BY DEF Regular, KeepsNotes, LapsesGrow, KeepsDoom, EndsStay, Done
  <1>2. Talking /\ Expected /\ (Called => Moving)
    BY <1>1 DEF WaitInv
  <1>3. KeepsCalls /\ KeepsRecord /\ \A g \in Handler : Same(g) \/ Proceeds(g)
    BY <1>1, <1>2
  <1>4. Talking'
    <2>1. \A l \in Leg : leg'[l].at = "in" => hosted'
      BY <1>2, <1>3 DEF Talking, KeepsCalls
    <2>2. \A k \in hooks' : k.kind = "agentJoin" => leg'[k.leg].at = "in"
      <3> SUFFICES ASSUME NEW k \in hooks, k.kind = "agentJoin"
                   PROVE  leg'[k.leg].at = "in"
        BY <1>3 DEF KeepsCalls
      <3>1. leg[k.leg].at = "in" /\ k.leg \in Leg
        BY <1>2 DEF Talking, RingInv, TypeInv, WorldInv, HookOK
      <3> QED BY <1>3, <3>1 DEF KeepsCalls
    <2>3. \A g \in Handler : run'[g].pc \in JoinPcs => leg'[run'[g].hook.leg].at = "in"
      <3> SUFFICES ASSUME NEW g \in Handler, Same(g), run'[g].pc \in JoinPcs
                   PROVE  leg'[run'[g].hook.leg].at = "in"
        BY <1>3 DEF Proceeds
      <3>1. leg[run[g].hook.leg].at = "in" /\ run[g].hook.leg \in Leg
        BY <1>2, InvParts DEF Talking, Same, ServedOK, HookOK
      <3> QED BY <1>3, <3>1 DEF KeepsCalls, Same
    <2> QED BY <2>1, <2>2, <2>3 DEF Talking
  <1>5. \A l \in Leg : Pending(l) => \/ Pending(l)'
                                     \/ /\ l \notin meta'.sids /\ ~Stored(l)'
                                        /\ \E g \in Handler : run'[g].pc = "check"
    <2> SUFFICES ASSUME NEW l \in Leg, NEW g \in Handler, Unanswering(run[g], l)
                 PROVE  \/ Pending(l)'
                        \/ /\ l \notin meta'.sids /\ ~Stored(l)'
                           /\ \E f \in Handler : run'[f].pc = "check"
      BY <1>3 DEF KeepsCalls, Pending, Unanswered
    <2>1. CASE Same(g)
      BY <2>1 DEF Same, Unanswering, Pending, Unanswered
    <2>2. CASE Proceeds(g)
      BY <2>2 DEF Proceeds, Pending
    <2> QED BY <1>3, <2>1, <2>2
  <1>6. Expected'
    <2>1. \A l \in meta'.sids : Pending(l)'
      <3> SUFFICES ASSUME NEW l \in meta'.sids, l \in meta.sids
                   PROVE  Pending(l)'
        BY <1>3 DEF KeepsRecord
      <3>1. l \in Leg
        BY DEF RingInv, TypeInv, KnownInv, Meta
      <3> QED BY <1>2, <1>5, <3>1 DEF Expected
    <2>2. \A l \in Leg : Stored(l)' => Pending(l)'
      <3> SUFFICES ASSUME NEW l \in Leg, NEW g \in Handler, Stores(run'[g], l)
                   PROVE  Pending(l)'
        BY DEF Stored
      <3>1. CASE Same(g)
        <4>1. Stored(l) /\ Stored(l)'
          BY <3>1 DEF Same, Stored, Stores
        <4> QED BY <1>2, <1>5, <4>1 DEF Expected
      <3>2. CASE Proceeds(g)
        BY <3>2 DEF Proceeds
      <3> QED BY <1>3, <3>1, <3>2
    <2> QED BY <2>1, <2>2 DEF Expected
  <1>7. (\E g \in Handler : run'[g].pc = "check") => Moving'
    <2> SUFFICES ASSUME NEW g \in Handler, run'[g].pc = "check"
                 PROVE  Moving'
      OBVIOUS
    <2>1. CASE meta'.sids = {}
      BY <2>1 DEF Moving, Brings
    <2>2. ASSUME NEW l \in meta'.sids
          PROVE  Moving'
      <3>1. l \in Leg
        BY DEF RingInv, TypeInv, KnownInv, Meta
      <3> QED BY <1>6, <3>1 DEF Expected, Moving
    <2> QED BY <2>1, <2>2
  <1>8. ASSUME Called' PROVE Moving'
    <2>1. CASE ~Called
      BY <1>3, <1>8, <2>1 DEF KeepsCalls
    <2>2. ASSUME NEW l \in Leg, Pending(l) PROVE Moving'
      BY <1>5, <1>7, <2>2 DEF Moving
    <2>3. ASSUME NEW g \in Handler, Brings(run[g]) PROVE Moving'
      <3>1. CASE Same(g)
        <4>1. CASE run[g].pc = "check"
          BY <1>7, <3>1, <4>1 DEF Same
        <4>2. CASE run[g].pc = "failed" /\ meta.failed
          BY <1>3, <3>1, <4>2 DEF Same, KeepsRecord, Moving, Brings
        <4>3. CASE run[g].pc \in {"flag", "redirect"}
          BY <3>1, <4>3 DEF Same, Moving, Brings
        <4> QED BY <2>3, <4>1, <4>2, <4>3 DEF Brings
      <3>2. CASE Proceeds(g)
        BY <1>8, <2>3, <3>2 DEF Proceeds, Moving
      <3> QED BY <1>3, <3>1, <3>2
    <2> QED BY <1>2, <2>1, <2>2, <2>3 DEF Moving
  <1> QED BY <1>4, <1>6, <1>8

-----------------------------------------------------------------------------
(* Nobody waits alone: the calls and the conference                         *)

LEMMA NumbersOf ==
    ASSUME RingInv
    PROVE  caller.n \in Nat /\ \A l \in Leg : leg[l].n \in Nat
  BY RingAssumption DEF RingInv, TypeInv, WorldInv, Legs

LEMMA EmptiedKeepsNumbers ==
    ASSUME RingInv
    PROVE  \A l \in Leg : Emptied[l].n = leg[l].n
  BY DEF RingInv, TypeInv, WorldInv, Legs, Emptied

\* The calls and the conference stay as they are.
LEMMA StillCalls ==
    ASSUME UNCHANGED <<leg, hosted, hooks>>, Called' => Called
    PROVE  KeepsCalls
  BY DEF KeepsCalls, Pending, Live, Unanswered

LEMMA StillPlaced ==
    ASSUME UNCHANGED <<leg, hooks>>, caller'.n = caller.n, caller'.at = "asks" => caller.at = "asks"
    PROVE  KeepsPlaced
  BY DEF KeepsPlaced, PlacedFor

LEMMA StillDoomed ==
    ASSUME EndsStay, hooks \subseteq hooks', caller.at = "over" => caller'.at = "over",
           \A g \in Handler : run[g].pc = "hangCaller" => run'[g].pc = "hangCaller"
    PROVE  KeepsDoom
  BY DEF KeepsDoom, Doomed

\* When an agent leaves the caller's conference, the caller's call will be ended; the
\* caller asks for something else before that, or does not wait.
LEMMA AgentGoesOn ==
    ASSUME RingInv, NEW l \in Leg, leg[l].at = "in", AgentGoes(l, hooks)
    PROVE  /\ KeepsPlaced /\ EndsStay /\ hooks \subseteq hooks'
           /\ caller.at = "over" => caller'.at = "over"
           /\ hosted => Doomed'
  <1>1. Calm /\ leg' = Emptied
    BY AgentGoesCalmly DEF AgentGoes, RingInv, TypeInv
  <1>2. EndsStay /\ hooks \subseteq hooks'
    BY <1>1 DEF Calm, EndsStay
  <1>3. hosted => Doomed'
    <2>1. hosted => OfAgent("agentLeft", l) \in Reports
      BY DEF Reports, In
    <2>2. Reports \subseteq hooks' /\ OfAgent("agentLeft", l).kind = "agentLeft"
      BY DEF AgentGoes, OfAgent
    <2> QED BY <2>1, <2>2 DEF Doomed
  <1>4. \A n \in Nat : PlacedFor(n) => PlacedFor(n)'
    <2>1. caller \in [at : {"asks", "waits", "message", "over"}, ring : Nat, n : 1 .. MaxAsks]
      BY DEF RingInv, TypeInv, WorldInv
    <2>2. caller' = caller \/ (caller'.n = caller.n + 1 /\ caller'.at = "asks")
      BY <2>1 DEF AgentGoes
    <2> QED BY <2>2, NumbersOf DEF PlacedFor
  <1>5. \A k \in hooks' : k.kind = "callerJoin" => k \in hooks
    BY DEF AgentGoes, Reports, OfCaller, OfAgent
  <1>6. caller.at = "over" => caller'.at = "over"
    BY DEF AgentGoes
  <1> QED BY <1>1, <1>2, <1>3, <1>4, <1>5, <1>6, EmptiedKeepsNumbers DEF KeepsPlaced

\* hangupCall, and an agent who does not answer: what rang is to be taken off the record.
LEMMA HangsOn ==
    ASSUME RingInv, NEW l \in Leg, Hangs(l), LapsesGrow
    PROVE  /\ KeepsPlaced /\ EndsStay /\ hooks \subseteq hooks'
           /\ caller.at = "over" => caller'.at = "over"
           /\ Talking /\ Regular' => KeepsCalls
  <1>1. WorldInv /\ leg \in Legs
    BY DEF RingInv, TypeInv, WorldInv
  <1>2. EndsStay /\ hooks \subseteq hooks'
    BY <1>1, HangsCalmly DEF Calm, EndsStay
  <1>3. CASE leg[l].at = "ringing" /\ leg' = [leg EXCEPT ![l].at = "over"]
             /\ hooks' = hooks \cup {OfAgent("unanswered", l)} /\ UNCHANGED <<caller, hosted>>
    <2>1. \A m \in Leg : /\ leg'[m].n = leg[m].n
                         /\ m # l => leg'[m] = leg[m]
          /\ leg'[l].at = "over"
      BY <1>1, <1>3 DEF Legs
    <2>2. OfAgent("unanswered", l).kind = "unanswered" /\ OfAgent("unanswered", l).leg = l
      BY DEF OfAgent
    <2>3. KeepsPlaced
      BY <1>3, <2>1, <2>2 DEF KeepsPlaced, PlacedFor
    <2>4. KeepsCalls
      <3>1. \A m \in Leg : Live(m) => Pending(m)'
        BY <1>3, <2>1, <2>2 DEF Live, Pending, Unanswered
      <3>2. Called' => Called
        BY <1>3, <2>1 DEF Called, LapsesGrow
      <3>3. \A k \in hooks : k.kind = "unanswered" => Unanswered(k.leg)'
        BY <1>2 DEF Unanswered
      <3> QED BY <1>3, <2>1, <2>2, <3>1, <3>2, <3>3 DEF KeepsCalls
    <2> QED BY <1>2, <1>3, <2>3, <2>4
  <1>4. CASE leg[l].at = "ringing" /\ leg' = [leg EXCEPT ![l].at = "dropped"]
             /\ UNCHANGED <<hooks, caller, hosted>>
    <2>1. leg'[l].at = "dropped" /\ \A m \in Leg : leg'[m].n = leg[m].n
      BY <1>1, <1>4 DEF Legs
    <2>2. KeepsPlaced
      BY <1>4, <2>1 DEF KeepsPlaced, PlacedFor
    <2> QED BY <1>2, <1>4, <2>1, <2>2 DEF Regular
  <1>5. CASE leg[l].at = "in" /\ AgentGoes(l, hooks)
    BY <1>5, AgentGoesOn DEF Talking, Regular
  <1>6. CASE leg[l].at \in {"over", "dropped"} /\ UNCHANGED <<leg, hooks, caller, hosted>>
    <2>1. Called' => Called
      BY <1>6 DEF Called, LapsesGrow
    <2> QED BY <1>2, <1>6, <2>1, StillCalls, StillPlaced
  <1> QED BY <1>3, <1>4, <1>5, <1>6 DEF Hangs

-----------------------------------------------------------------------------
(* Nobody waits alone: Twilio's steps                                       *)

\* No webhook takes a step.
LEMMA OutsideWaits ==
    ASSUME RingInv, RingInv', WaitInv, UNCHANGED <<run, meta>>, KeepsPlaced, KeepsNotes, EndsStay,
           hooks \subseteq hooks', caller.at = "over" => caller'.at = "over",
           Talking /\ Regular' => KeepsCalls
    PROVE  WaitInv'
  <1>1. KeepsDoom
    BY StillDoomed
  <1>2. \A g \in Handler : Same(g)
    BY DEF Same
  <1>3. Placed'
    BY <1>2, PlacedKeeps DEF WaitInv
  <1>4. KeepsRecord
    BY DEF KeepsRecord
  <1> QED BY <1>1, <1>2, <1>3, <1>4, WaitKeeps

LEMMA CallerHangsUpWaits ==
    ASSUME RingInv, RingInv', WaitInv, CallerHangsUp
    PROVE  WaitInv'
  <1>1. /\ UNCHANGED <<run, meta>> /\ KeepsNotes
        /\ caller'.at = "over" /\ caller'.n = caller.n /\ leg' \in {leg, Emptied}
        /\ \A k \in hooks' : k.kind = "callerJoin" => k \in hooks
    BY GivenStays DEF CallerHangsUp, CallerGoes, known, notes, KeepsNotes, Reports, OfCaller,
       OfAgent, RingInv, TypeInv, WorldInv
  <1>2. EndsStay /\ hooks \subseteq hooks'
    BY CallerGoesCalmly DEF CallerHangsUp, Calm, EndsStay, RingInv, TypeInv
  <1>3. KeepsPlaced
    BY <1>1, EmptiedKeepsNumbers DEF KeepsPlaced, PlacedFor
  <1>4. ~Regular'
    BY <1>1 DEF Regular, Doomed
  <1> QED BY <1>1, <1>2, <1>3, <1>4, OutsideWaits

LEMMA AgentAnswersWaits ==
    ASSUME RingInv, RingInv', WaitInv, NEW l \in Leg, AgentAnswers(l)
    PROVE  WaitInv'
  <1>1. /\ UNCHANGED <<run, meta>> /\ KeepsNotes /\ caller' = caller /\ hosted' = hosted
        /\ leg[l].at = "ringing" /\ (~stray' => hosted)
        /\ hooks' = hooks \cup (IF hosted THEN {OfAgent("agentJoin", l)} ELSE {})
        /\ leg' = [leg EXCEPT ![l].at = "in"] /\ leg \in Legs
    BY GivenStays DEF AgentAnswers, known, KeepsNotes, RingInv, TypeInv, WorldInv
  <1>2. /\ leg'[l].at = "in" /\ \A m \in Leg : m # l => leg'[m] = leg[m]
        /\ \A m \in Leg : leg'[m].n = leg[m].n
    BY <1>1 DEF Legs
  <1>3. OfAgent("agentJoin", l).kind = "agentJoin" /\ OfAgent("agentJoin", l).leg = l
    BY DEF OfAgent
  <1>4. EndsStay /\ hooks \subseteq hooks'
    BY <1>1, <1>2 DEF EndsStay, Done
  <1>5. KeepsPlaced
    BY <1>1, <1>2, <1>3 DEF KeepsPlaced, PlacedFor
  <1>6. Regular' => KeepsCalls
    <2> SUFFICES ASSUME Regular'
                 PROVE  KeepsCalls
      OBVIOUS
    <2>1. hosted
      BY <1>1 DEF Regular
    <2>2. \A m \in Leg : Live(m) => Pending(m)'
      BY <1>1, <1>2 DEF Live, Pending
    <2>3. Called' => Called
      BY <1>1, <1>2 DEF Called, KeepsNotes, LapsesGrow
    <2>4. \A k \in hooks : k.kind = "unanswered" => Unanswered(k.leg)'
      BY <1>4 DEF Unanswered
    <2> QED BY <1>1, <1>2, <1>3, <2>1, <2>2, <2>3, <2>4 DEF KeepsCalls
  <1> QED BY <1>1, <1>4, <1>5, <1>6, OutsideWaits

LEMMA AgentFailsWaits ==
    ASSUME RingInv, RingInv', WaitInv, NEW l \in Leg, AgentFails(l)
    PROVE  WaitInv'
  <1>1. Hangs(l) /\ UNCHANGED <<run, meta>> /\ KeepsNotes /\ LapsesGrow
    BY GivenStays DEF AgentFails, Hangs, known, notes, KeepsNotes
  <1> QED BY <1>1, HangsOn, OutsideWaits

LEMMA AgentHangsUpWaits ==
    ASSUME RingInv, RingInv', WaitInv, NEW l \in Leg, AgentHangsUp(l)
    PROVE  WaitInv'
  <1>1. Hangs(l) /\ UNCHANGED <<run, meta>> /\ KeepsNotes /\ LapsesGrow
    BY GivenStays DEF AgentHangsUp, Hangs, known, notes, KeepsNotes
  <1> QED BY <1>1, HangsOn, OutsideWaits

-----------------------------------------------------------------------------
(* Nobody waits alone: the webhooks                                         *)

LEMMA OnlyOneChanges ==
    ASSUME RingInv, NEW h \in Handler, NEW w \in Serving, run' = [run EXCEPT ![h] = w]
    PROVE  run'[h] = w /\ \A g \in Handler : g # h => run'[g] = run[g] /\ Same(g)
  BY DEF RingInv, TypeInv, ServedInv, Same

\* One webhook goes on and leaves the calls, the conference and metaValue alone; the
\* caller may go on to the message, or be over.
LEMMA LocalWaits ==
    ASSUME RingInv, RingInv', WaitInv, NEW h \in Handler, NEW w \in Serving,
           run' = [run EXCEPT ![h] = w], UNCHANGED <<leg, hosted, hooks, meta, notes>>,
           LapsesGrow, caller'.n = caller.n, caller'.at \in {caller.at, "message", "over"},
           caller.at = "over" => caller'.at = "over",
           run[h].pc # "hangCaller",
           w.pc \in CallPcs => run[h].pc \in CallPcs /\ w.hook.n = run[h].hook.n,
           w.pc \in JoinPcs => run[h].pc \in JoinPcs /\ w.hook = run[h].hook,
           \A l \in Leg : Stores(w, l) => Stores(run[h], l),
           \A l \in Leg : Unanswering(run[h], l) => Unanswering(w, l),
           Brings(run[h]) => Brings(w) \/ ~Called'
    PROVE  WaitInv'
  <1>1. /\ leg' = leg /\ hosted' = hosted /\ hooks' = hooks /\ meta' = meta
        /\ KeepsNotes /\ EndsStay
    BY DEF notes, KeepsNotes, EndsStay
  <1>2. run'[h] = w /\ \A g \in Handler : g # h => run'[g] = run[g] /\ Same(g)
    BY OnlyOneChanges
  <1>3. KeepsPlaced
    BY StillPlaced
  <1>4. KeepsDoom
    BY <1>1, <1>2, StillDoomed
  <1>5. Placed'
    <2>1. w.pc \in CallPcs => PlacedFor(run[h].hook.n)'
      <3> SUFFICES ASSUME w.pc \in CallPcs
                   PROVE  PlacedFor(run[h].hook.n)'
        OBVIOUS
      <3>1. PlacedFor(run[h].hook.n) /\ run'[h].hook.n = run[h].hook.n
        BY <1>2 DEF WaitInv, Placed
      <3> QED BY <3>1 DEF PlacedFor
    <2> QED BY <1>2, <1>3, <2>1, PlacedKeeps DEF WaitInv
  <1>6. KeepsCalls
    <2>1. Called' => Called
      BY <1>1 DEF Called, LapsesGrow
    <2> QED BY <1>1, <2>1, StillCalls
  <1>7. KeepsRecord
    BY <1>1 DEF KeepsRecord
  <1>8. Talking /\ Expected => Proceeds(h)
    <2> SUFFICES ASSUME Talking, Expected
                 PROVE  Proceeds(h)
      OBVIOUS
    <2>1. w.pc \in JoinPcs => leg'[w.hook.leg].at = "in"
      BY <1>1 DEF Talking
    <2>2. \A l \in Leg : Unanswering(run[h], l) => Unanswered(l)'
      BY <1>2 DEF Unanswered
    <2>3. \A l \in Leg : Stores(w, l) => Pending(l)'
      <3> SUFFICES ASSUME NEW l \in Leg, Stores(run[h], l)
                   PROVE  Pending(l)'
        OBVIOUS
      <3>1. Pending(l)
        BY DEF Expected, Stored
      <3>2. Unanswered(l) => Unanswered(l)'
        BY <1>1, <1>2 DEF Unanswered
      <3> QED BY <1>1, <3>1, <3>2 DEF Pending, Live
    <2>4. Brings(run[h]) => Brings(run[h])' \/ ~Called'
      BY <1>1, <1>2 DEF Brings
    <2> QED BY <1>2, <2>1, <2>2, <2>3, <2>4 DEF Proceeds
  <1> QED BY <1>1, <1>2, <1>4, <1>5, <1>6, <1>7, <1>8, WaitKeeps

\* A webhook reads metaValue, and goes on with what it was doing.
LEMMA ReadingWaits ==
    ASSUME RingInv, RingInv', WaitInv, NEW h \in Handler, NEW pc \in Pc, Reads(h, pc),
           UNCHANGED <<twilio, known, given, notes>>, run[h].pc # "hangCaller",
           pc \in CallPcs => run[h].pc \in CallPcs,
           pc \in JoinPcs => run[h].pc \in JoinPcs,
           pc \in {"store", "storeWrite"} => run[h].pc \in {"store", "storeWrite"},
           run[h].pc \in {"remove", "removeWrite"} => pc \in {"remove", "removeWrite"},
           Brings(run[h]) => pc \in {"flag", "redirect"}
    PROVE  WaitInv'
  <1> DEFINE w == [run[h] EXCEPT !.pc = pc, !.saw = meta, !.old = FALSE]
  <1>1. run[h] \in Serving /\ run \in [Handler -> Serving] /\ meta \in Meta
    BY InvParts
  <1>2. /\ w \in Serving /\ w.pc = pc /\ w.hook = run[h].hook /\ w.leg = run[h].leg
        /\ run' = [run EXCEPT ![h] = w]
    BY <1>1 DEF Serving, Reads
  <1> HIDE DEF w
  <1>3. caller' = caller /\ UNCHANGED <<leg, hosted, hooks, meta, notes>>
    BY DEF twilio, known
  <1>4. /\ \A l \in Leg : Stores(w, l) => Stores(run[h], l)
        /\ \A l \in Leg : Unanswering(run[h], l) => Unanswering(w, l)
        /\ Brings(run[h]) => Brings(w)
    BY <1>2 DEF Stores, Unanswering, Brings
  <1> QED BY <1>2, <1>3, <1>4, GivenStays, LocalWaits

\* A webhook goes to another step of its handler, with nothing else.
LEMMA GoingWaits ==
    ASSUME RingInv, RingInv', WaitInv, NEW h \in Handler, NEW pc \in Pc,
           run' = [run EXCEPT ![h].pc = pc],
           UNCHANGED <<twilio, known, given, notes>>, run[h].pc # "hangCaller",
           pc \notin CallPcs \cup JoinPcs,
           run[h].pc \notin {"remove", "removeWrite"},
           Brings(run[h]) => pc \in {"flag", "redirect"}
    PROVE  WaitInv'
  <1> DEFINE w == [run[h] EXCEPT !.pc = pc]
  <1>1. run[h] \in Serving /\ run \in [Handler -> Serving]
    BY InvParts
  <1>2. /\ w \in Serving /\ w.pc = pc /\ run' = [run EXCEPT ![h] = w]
    BY <1>1 DEF Serving
  <1> HIDE DEF w
  <1>3. caller' = caller /\ UNCHANGED <<leg, hosted, hooks, meta, notes>>
    BY DEF twilio, known
  <1>4. /\ \A l \in Leg : ~Stores(w, l)
        /\ \A l \in Leg : ~Unanswering(run[h], l)
        /\ Brings(run[h]) => Brings(w)
    BY <1>2 DEF Stores, Unanswering, Brings, CallPcs, DialPcs
  <1> QED BY <1>2, <1>3, <1>4, GivenStays, LocalWaits

\* A webhook is done.
LEMMA EndingWaits ==
    ASSUME RingInv, RingInv', WaitInv, NEW h \in Handler, Ends(h),
           UNCHANGED <<leg, hosted, hooks, meta, notes>>, LapsesGrow,
           caller'.n = caller.n, caller'.at \in {caller.at, "message", "over"},
           caller.at = "over" => caller'.at = "over",
           run[h].pc \notin {"hangCaller", "remove", "removeWrite"}, ~Brings(run[h])
    PROVE  WaitInv'
  <1>1. Idle \in Serving /\ Idle.pc = "idle" /\ run' = [run EXCEPT ![h] = Idle]
    BY InvParts, IdleServes DEF Ends, Idle
  <1>2. /\ \A l \in Leg : ~Stores(Idle, l)
        /\ \A l \in Leg : ~Unanswering(run[h], l)
        /\ "idle" \notin CallPcs \cup JoinPcs
    BY <1>1 DEF Stores, Unanswering, CallPcs, DialPcs, JoinPcs
  <1> QED BY <1>1, <1>2, LocalWaits

LEMMA WritingWaits ==
    ASSUME RingInv, RingInv', WaitInv, NEW h \in Handler, NEW new,
           NEW next \in {"idle", "dial", "check", "failed"},
           run[h].pc \in Holding, Writes(h, new, next), next = "dial" => run[h].pc \in CallPcs,
           KeepsPlaced, KeepsNotes, EndsStay, hooks \subseteq hooks',
           caller.at = "over" => caller'.at = "over",
           Regular /\ Talking /\ Expected /\ Regular' /\ run[h].saw = meta =>
              /\ KeepsCalls /\ KeepsRecord
              /\ \A l \in Leg : Unanswering(run[h], l) =>
                    l \notin new.sids /\ ~Stored(l)' /\ next = "check"
              /\ Brings(run[h]) => next = "failed" /\ new.failed
    PROVE  WaitInv'
  <1>1. /\ meta' = new
        /\ ~crossed' => run[h].saw = meta
        /\ run \in [Handler -> Serving] /\ run[h] \in Serving
    BY InvParts DEF Writes, SawOK
  <1>2. \A g \in Handler : g # h => Same(g)
    BY <1>1 DEF Writes, Serving, Same
  <1>3. /\ run'[h].pc = next
        /\ next # "idle" => run'[h].hook = run[h].hook /\ run'[h].leg = run[h].leg
    BY <1>1 DEF Writes, Serving, Idle
  <1>4. \A g \in Handler : run[g].pc = "hangCaller" => run'[g].pc = "hangCaller"
    BY <1>2 DEF Same, Holding
  <1>5. KeepsDoom
    BY <1>4, StillDoomed
  <1>6. Placed'
    <2>1. next \in CallPcs => PlacedFor(run[h].hook.n)'
      <3> SUFFICES ASSUME next \in CallPcs
                   PROVE  PlacedFor(run[h].hook.n)'
        OBVIOUS
      <3>1. PlacedFor(run[h].hook.n) /\ next = "dial"
        BY DEF WaitInv, Placed, CallPcs, DialPcs
      <3>2. run[h].hook.n \in Nat
        BY <1>1, RingAssumption DEF Serving, Hook
      <3> PICK n \in Nat : n = run[h].hook.n
        BY <3>2
      <3>3. PlacedFor(n)' /\ run'[h].hook.n = n
        BY <1>3, <3>1 DEF KeepsPlaced
      <3> QED BY <3>3 DEF PlacedFor
    <2> QED BY <1>2, <1>3, <2>1, PlacedKeeps DEF WaitInv
  <1>7. ASSUME Regular, Talking, Expected, Regular'
        PROVE  KeepsCalls /\ KeepsRecord /\ Proceeds(h)
    <2>1. run[h].saw = meta
      BY <1>1, <1>7 DEF Regular
    <2>2. /\ KeepsCalls /\ KeepsRecord
          /\ \A l \in Leg : Unanswering(run[h], l) =>
                l \notin new.sids /\ ~Stored(l)' /\ next = "check"
          /\ Brings(run[h]) => next = "failed" /\ new.failed
      BY <1>7, <2>1
    <2>3. next \notin JoinPcs /\ \A l \in Leg : ~Stores(run'[h], l)
      BY <1>3 DEF JoinPcs, Stores
    <2>4. Brings(run[h]) => Brings(run[h])'
      BY <1>1, <1>3, <2>2 DEF Brings
    <2> QED BY <1>1, <1>3, <2>2, <2>3, <2>4 DEF Proceeds
  <1>8. Regular /\ Talking /\ Expected /\ Regular' =>
           KeepsCalls /\ KeepsRecord /\ \A g \in Handler : Same(g) \/ Proceeds(g)
    BY <1>2, <1>7
  <1> QED BY <1>5, <1>6, <1>8, WaitKeeps

\* Such a write, when the calls, the caller and the conference stay as they are.
LEMMA WritingStillWaits ==
    ASSUME RingInv, RingInv', WaitInv, NEW h \in Handler, NEW new,
           NEW next \in {"idle", "dial", "check", "failed"},
           run[h].pc \in Holding, Writes(h, new, next), next = "dial" => run[h].pc \in CallPcs,
           KeepsNotes, UNCHANGED twilio,
           Regular /\ Talking /\ Expected /\ Regular' /\ run[h].saw = meta =>
              /\ KeepsRecord
              /\ \A l \in Leg : Unanswering(run[h], l) =>
                    l \notin new.sids /\ ~Stored(l)' /\ next = "check"
              /\ Brings(run[h]) => next = "failed" /\ new.failed
    PROVE  WaitInv'
  <1>1. /\ UNCHANGED <<leg, hosted, hooks>> /\ caller' = caller /\ EndsStay
        /\ hooks \subseteq hooks' /\ (caller.at = "over" => caller'.at = "over")
    BY DEF twilio, EndsStay
  <1>2. KeepsPlaced /\ KeepsCalls
    <2>1. Called' => Called
      BY <1>1 DEF Called, KeepsNotes, LapsesGrow
    <2> QED BY <1>1, <2>1, StillPlaced, StillCalls
  <1> QED BY <1>1, <1>2, WritingWaits

\* Between two steps of one webhook that writes metaValue, the others stay where they are.
LEMMA StaysPending ==
    ASSUME RingInv, NEW h \in Handler, NEW new, NEW next, Writes(h, new, next), UNCHANGED twilio,
           run[h].pc \notin {"remove", "removeWrite"}
    PROVE  \A l \in Leg : Pending(l) => Pending(l)'
  <1>1. leg' = leg /\ hooks' = hooks /\ run \in [Handler -> Serving]
    BY DEF twilio, RingInv, TypeInv, ServedInv
  <1>2. \A g \in Handler : g # h => Same(g)
    BY <1>1 DEF Writes, Serving, Same
  <1>3. \A l \in Leg : Unanswered(l) => Unanswered(l)'
    BY <1>1, <1>2 DEF Unanswered, Unanswering, Same
  <1> QED BY <1>1, <1>3 DEF Pending, Live

\* A caller who enters the conference has not been called for yet.
LEMMA EnteringWaits ==
    ASSUME RingInv, WaitInv, NEW h \in Handler, Enters(h), leg' = leg, LapsesGrow
    PROVE  /\ KeepsPlaced /\ EndsStay /\ hooks \subseteq hooks'
           /\ caller.at = "over" => caller'.at = "over"
           /\ Talking => KeepsCalls
  <1>1. EndsStay
    BY DEF EndsStay
  <1>2. CASE Wanted(h)
    <2>1. /\ caller' = [caller EXCEPT !.at = "waits", !.ring = run[h].hook.ring]
          /\ hosted' = (In = {}) /\ caller.at = "asks" /\ ~hosted
          /\ hooks' = hooks \cup IF In = {} THEN {OfCaller("callerJoin", 0, caller.n)} ELSE {}
          /\ caller \in [at : {"asks", "waits", "message", "over"}, ring : Nat, n : 1 .. MaxAsks]
      BY <1>2 DEF Enters, Wanted, RingInv, TypeInv, WorldInv
    <2>2. caller'.at = "waits" /\ caller'.n = caller.n
      BY <2>1
    <2>3. /\ OfCaller("callerJoin", 0, caller.n).kind = "callerJoin"
          /\ OfCaller("callerJoin", 0, caller.n).n = caller.n
      BY DEF OfCaller
    <2>4. KeepsPlaced
      BY <2>1, <2>2, <2>3 DEF KeepsPlaced, PlacedFor
    <2>5. Talking => KeepsCalls
      <3> SUFFICES ASSUME Talking
                   PROVE  KeepsCalls
        OBVIOUS
      <3>1. \A l \in Leg : leg[l].at # "in"
        BY <2>1 DEF Talking
      <3>2. ~Called'
        <4>1. \A l \in Leg : leg[l].n # caller.n
          BY <2>1, NumbersOf DEF WaitInv, Placed, PlacedFor
        <4> QED BY <2>2, <4>1 DEF Called
      <3>3. \A k \in hooks : k.kind = "unanswered" => Unanswered(k.leg)'
        BY <2>1 DEF Unanswered
      <3>4. \A l \in Leg : Live(l) => Pending(l)'
        BY DEF Live, Pending
      <3> QED BY <2>1, <2>3, <3>1, <3>2, <3>3, <3>4 DEF KeepsCalls
    <2> QED BY <1>1, <2>1, <2>4, <2>5
  <1>3. CASE ~Wanted(h)
    <2>1. caller' = caller /\ UNCHANGED <<leg, hosted, hooks>> /\ hooks' = hooks
      BY <1>3 DEF Enters
    <2>2. Called' => Called
      BY <2>1 DEF Called, LapsesGrow
    <2> QED BY <1>1, <2>1, <2>2, StillPlaced, StillCalls
  <1> QED BY <1>2, <1>3

LEMMA TargetWriteWaits ==
    ASSUME RingInv, RingInv', WaitInv, NEW h \in Handler, TargetWrite(h)
    PROVE  WaitInv'
  <1> DEFINE new == [run[h].saw EXCEPT !.ring = run[h].hook.ring]
  <1>1. /\ run[h].pc = "targetWrite" /\ Writes(h, new, "idle") /\ leg' = leg /\ meta' = new
        /\ UNCHANGED <<unread, stray, early, late>> /\ (crossed => crossed') /\ LapsesGrow
        /\ Enters(h)
    BY GivenStays DEF TargetWrite, Is, Writes
  <1>2. /\ run[h].saw \in Meta /\ new.sids = run[h].saw.sids /\ new.failed = run[h].saw.failed
    BY InvParts DEF Serving, Meta
  <1> HIDE DEF new
  <1>3. /\ KeepsNotes /\ run[h].pc \in Holding
        /\ \A l \in Leg : ~Unanswering(run[h], l)
        /\ ~Brings(run[h])
    BY <1>1 DEF KeepsNotes, Holding, Unanswering, Brings
  <1>4. run[h].saw = meta => KeepsRecord
    BY <1>1, <1>2 DEF KeepsRecord
  <1>5. /\ KeepsPlaced /\ EndsStay /\ hooks \subseteq hooks'
        /\ caller.at = "over" => caller'.at = "over"
        /\ Talking => KeepsCalls
    BY <1>1, EnteringWaits
  <1> QED BY <1>1, <1>3, <1>4, <1>5, WritingWaits

LEMMA StoreWriteWaits ==
    ASSUME RingInv, RingInv', WaitInv, NEW h \in Handler, StoreWrite(h)
    PROVE  WaitInv'
  <1> DEFINE new == [run[h].saw EXCEPT !.sids = Added(@, run[h].leg)]
  <1>1. /\ run[h].pc = "storeWrite" /\ Writes(h, new, "dial") /\ meta' = new /\ UNCHANGED twilio
        /\ UNCHANGED <<unread, stray, early>> /\ (crossed => crossed') /\ LapsesGrow
    BY GivenStays DEF StoreWrite, Is, Writes
  <1>2. /\ run[h].saw \in Meta /\ new.sids = run[h].saw.sids \cup {run[h].leg}
        /\ new.failed = run[h].saw.failed /\ run[h].leg \in Leg
    BY <1>1, InvParts DEF Serving, Meta, Added, ServedOK
  <1> HIDE DEF new
  <1>3. /\ KeepsNotes /\ run[h].pc \in Holding /\ run[h].pc \in CallPcs
        /\ \A l \in Leg : ~Unanswering(run[h], l)
        /\ ~Brings(run[h]) /\ run[h].pc \notin {"remove", "removeWrite"}
    BY <1>1 DEF KeepsNotes, Holding, Unanswering, Brings, CallPcs, DialPcs
  <1>4. Expected /\ run[h].saw = meta => KeepsRecord
    <2>1. Stored(run[h].leg)
      BY <1>1 DEF Stored, Stores
    <2>2. Expected => Pending(run[h].leg)
      BY <1>2, <2>1 DEF Expected
    <2>3. PICK l \in Leg : l = run[h].leg
      BY <1>2
    <2>4. Expected => Pending(l)'
      BY <1>1, <1>3, <2>2, <2>3, StaysPending
    <2> QED BY <1>1, <1>2, <2>3, <2>4 DEF KeepsRecord
  <1> QED BY <1>1, <1>3, <1>4, WritingStillWaits

LEMMA JoinWriteWaits ==
    ASSUME RingInv, RingInv', WaitInv, NEW h \in Handler, JoinWrite(h)
    PROVE  WaitInv'
  <1> DEFINE new == [run[h].saw EXCEPT !.sids = {run[h].hook.leg}]
  <1>1. /\ run[h].pc = "joinWrite" /\ Writes(h, new, "idle") /\ meta' = new /\ UNCHANGED twilio
        /\ UNCHANGED <<unread, stray, early>> /\ (crossed => crossed') /\ LapsesGrow /\ leg' = leg
    BY GivenStays DEF JoinWrite, Is, Writes, twilio
  <1>2. /\ run[h].saw \in Meta /\ new.sids = {run[h].hook.leg}
        /\ new.failed = run[h].saw.failed
    BY <1>1, InvParts DEF Serving, Meta
  <1> HIDE DEF new
  <1>3. /\ KeepsNotes /\ run[h].pc \in Holding /\ run[h].pc \in JoinPcs
        /\ \A l \in Leg : ~Unanswering(run[h], l)
        /\ ~Brings(run[h])
    BY <1>1 DEF KeepsNotes, Holding, Unanswering, Brings, JoinPcs
  <1>4. Talking /\ run[h].saw = meta => KeepsRecord
    <2> SUFFICES ASSUME Talking, run[h].saw = meta
                 PROVE  KeepsRecord
      OBVIOUS
    <2>1. leg[run[h].hook.leg].at = "in"
      BY <1>3 DEF Talking
    <2>2. \A l \in meta'.sids : Live(l)'
      BY <1>1, <1>2, <2>1 DEF Live
    <2> QED BY <1>1, <1>2, <2>2 DEF KeepsRecord, Pending
  <1> QED BY <1>1, <1>3, <1>4, WritingStillWaits

LEMMA PurgeWriteWaits ==
    ASSUME RingInv, RingInv', WaitInv, NEW h \in Handler, PurgeWrite(h)
    PROVE  WaitInv'
  <1> DEFINE new == [run[h].saw EXCEPT !.sids = {}]
  <1>1. /\ run[h].pc = "purgeWrite" /\ Writes(h, new, "idle") /\ meta' = new /\ UNCHANGED twilio
        /\ UNCHANGED <<unread, stray, early>> /\ (crossed => crossed') /\ LapsesGrow
    BY GivenStays DEF PurgeWrite, Is, Writes
  <1>2. /\ run[h].saw \in Meta /\ new.sids = {} /\ new.failed = run[h].saw.failed
    BY <1>1, InvParts DEF Serving, Meta
  <1> HIDE DEF new
  <1>3. /\ KeepsNotes /\ run[h].pc \in Holding
        /\ \A l \in Leg : ~Unanswering(run[h], l)
        /\ ~Brings(run[h])
    BY <1>1 DEF KeepsNotes, Holding, Unanswering, Brings
  <1>4. run[h].saw = meta => KeepsRecord
    BY <1>1, <1>2 DEF KeepsRecord
  <1> QED BY <1>1, <1>3, <1>4, WritingStillWaits

\* The call is off the record, and was not about to be put there: the check comes next.
LEMMA RemoveWriteWaits ==
    ASSUME RingInv, RingInv', WaitInv, NEW h \in Handler, RemoveWrite(h)
    PROVE  WaitInv'
  <1> PICK l : l = run[h].hook.leg
    OBVIOUS
  <1> DEFINE new == [run[h].saw EXCEPT !.sids = Without(@, l)]
  <1>1. /\ run[h].pc = "removeWrite" /\ Writes(h, new, "check") /\ meta' = new /\ UNCHANGED twilio
        /\ UNCHANGED <<unread, stray>> /\ (crossed => crossed') /\ LapsesGrow
        /\ early' = IF Storing(l) THEN early \cup {l} ELSE early
    BY GivenStays DEF RemoveWrite, Is, Writes
  <1>2. /\ run[h].saw \in Meta /\ new.sids = run[h].saw.sids \ {l}
        /\ new.failed = run[h].saw.failed
    BY <1>1, InvParts DEF Serving, Meta, Without
  <1>3. /\ KeepsNotes /\ run[h].pc \in Holding
        /\ \A m \in Leg : Unanswering(run[h], m) => m = l
        /\ ~Brings(run[h])
    BY <1>1 DEF KeepsNotes, Holding, Unanswering, Brings
  <1>4. Regular' => ~Stored(l)'
    <2>1. Regular' => ~Storing(l)
      BY <1>1 DEF Regular
    <2>2. run \in [Handler -> Serving]
      BY InvParts
    <2> HIDE DEF new
    <2>3. run'[h].pc = "check"
      BY <1>1, <2>2 DEF Writes, Serving
    <2>4. \A g \in Handler : g # h => Same(g)
      BY <1>1, <2>2 DEF Writes, Serving, Same
    <2>5. Stored(l)' => Storing(l)
      BY <2>3, <2>4 DEF Stored, Stores, Storing, Same
    <2> QED BY <2>1, <2>5
  <1> HIDE DEF new
  <1>5. run[h].saw = meta => KeepsRecord
    BY <1>1, <1>2 DEF KeepsRecord
  <1>6. Regular' => \A m \in Leg : Unanswering(run[h], m) => m \notin new.sids /\ ~Stored(m)'
    <2> SUFFICES ASSUME Regular', NEW m \in Leg, m = l
                 PROVE  m \notin new.sids /\ ~Stored(m)'
      BY <1>3
    <2> QED BY <1>2, <1>4
  <1> QED BY <1>1, <1>3, <1>5, <1>6, WritingStillWaits

LEMMA FlagWaits ==
    ASSUME RingInv, RingInv', WaitInv, NEW h \in Handler, Flag(h)
    PROVE  WaitInv'
  <1> DEFINE new == [run[h].saw EXCEPT !.failed = TRUE]
  <1>1. /\ run[h].pc = "flag" /\ Writes(h, new, "failed") /\ meta' = new /\ UNCHANGED twilio
        /\ UNCHANGED <<unread, stray, early>> /\ (crossed => crossed') /\ LapsesGrow
    BY GivenStays DEF Flag, Is, Writes
  <1>2. /\ run[h].saw \in Meta /\ new.sids = run[h].saw.sids /\ new.failed = TRUE
    BY <1>1, InvParts DEF Serving, Meta
  <1> HIDE DEF new
  <1>3. /\ KeepsNotes /\ run[h].pc \in Holding
        /\ \A l \in Leg : ~Unanswering(run[h], l)
    BY <1>1 DEF KeepsNotes, Holding, Unanswering
  <1>4. run[h].saw = meta => KeepsRecord
    BY <1>1, <1>2 DEF KeepsRecord
  <1> QED BY <1>1, <1>2, <1>3, <1>4, WritingStillWaits

\* The flag is cleared under nobody who is about to read it.
LEMMA ClearWriteWaits ==
    ASSUME RingInv, RingInv', WaitInv, NEW h \in Handler, ClearWrite(h)
    PROVE  WaitInv'
  <1> DEFINE new == [run[h].saw EXCEPT !.failed = FALSE]
  <1>1. /\ run[h].pc = "clearWrite" /\ Writes(h, new, "idle") /\ meta' = new /\ UNCHANGED twilio
        /\ UNCHANGED <<stray, early>> /\ (crossed => crossed') /\ LapsesGrow
        /\ unread' = (unread \/ \E g \in Handler : Is(g, "failed"))
    BY GivenStays DEF ClearWrite, Is, Writes
  <1>2. /\ run[h].saw \in Meta /\ new.sids = run[h].saw.sids
    BY <1>1, InvParts DEF Serving, Meta
  <1> HIDE DEF new
  <1>3. /\ KeepsNotes /\ run[h].pc \in Holding
        /\ \A l \in Leg : ~Unanswering(run[h], l)
        /\ ~Brings(run[h])
    BY <1>1 DEF KeepsNotes, Holding, Unanswering, Brings
  <1>4. Regular' => \A g \in Handler : run[g].pc # "failed"
    BY <1>1 DEF Regular, Is
  <1>5. Regular' /\ run[h].saw = meta => KeepsRecord
    BY <1>1, <1>2, <1>4 DEF KeepsRecord
  <1> QED BY <1>1, <1>3, <1>5, WritingStillWaits

-----------------------------------------------------------------------------
(* Nobody waits alone: the handlers, action by action                       *)

LEMMA DialEndedWaits ==
    ASSUME RingInv, RingInv', WaitInv, NEW h \in Handler, DialEnded(h)
    PROVE  WaitInv'
  <1>1. /\ run[h].pc = "answered" /\ UNCHANGED <<leg, hosted, hooks, meta, notes>> /\ LapsesGrow
        /\ run[h] \in Serving /\ run \in [Handler -> Serving]
        /\ caller \in [at : {"asks", "waits", "message", "over"}, ring : Nat, n : 1 .. MaxAsks]
    BY InvParts, GivenStays DEF DialEnded, Is, known
  <1>2. ~Brings(run[h])
    BY <1>1 DEF Brings
  <1>3. CASE answered \/ run[h].hook.ring \in flow.robin
    <2>1. Ends(h) /\ caller' = IF Wanted(h) THEN [caller EXCEPT !.at = "over"] ELSE caller
      BY <1>3 DEF DialEnded
    <2>2. /\ caller'.n = caller.n /\ caller'.at \in {caller.at, "message", "over"}
          /\ caller.at = "over" => caller'.at = "over"
      BY <1>1, <2>1
    <2> QED BY <1>1, <1>2, <2>1, <2>2, EndingWaits
  <1>4. CASE ~(answered \/ run[h].hook.ring \in flow.robin)
    <2> DEFINE k == [run[h].hook EXCEPT !.ring = @ + 1]
               w == [run[h] EXCEPT !.pc = "target", !.hook = k]
    <2>1. caller' = caller /\ run' = [run EXCEPT ![h] = w]
      <3>1. /\ caller' = caller
            /\ run' = [run EXCEPT ![h].pc = "target", ![h].hook.ring = @ + 1]
        BY <1>4 DEF DialEnded
      <3>2. run[h].hook \in Hook
        BY <1>1 DEF Serving
      <3> QED BY <1>1, <3>1, <3>2
    <2>2. w \in Serving /\ w.pc = "target"
      <3>1. run[h].hook \in Hook
        BY <1>1 DEF Serving
      <3>2. k \in Hook
        BY <3>1 DEF Hook
      <3> HIDE DEF k
      <3> QED BY <1>1, <3>2 DEF Serving, Pc
    <2> HIDE DEF w
    <2>3. /\ \A l \in Leg : ~Stores(w, l) /\ ~Unanswering(run[h], l)
          /\ "target" \notin CallPcs \cup JoinPcs
      BY <1>1, <2>2 DEF Stores, Unanswering, CallPcs, DialPcs, JoinPcs
    <2> QED BY <1>1, <1>2, <2>1, <2>2, <2>3, LocalWaits
  <1> QED BY <1>3, <1>4

LEMMA LeaveMessageWaits ==
    ASSUME RingInv, RingInv', WaitInv, NEW h \in Handler, LeaveMessage(h)
    PROVE  WaitInv'
  <1>1. /\ run[h].pc = "target" /\ UNCHANGED <<leg, hosted, hooks, meta, notes>> /\ Ends(h)
        /\ LapsesGrow
        /\ caller \in [at : {"asks", "waits", "message", "over"}, ring : Nat, n : 1 .. MaxAsks]
        /\ caller' = IF Wanted(h)
                     THEN [caller EXCEPT !.at = "message", !.ring = run[h].hook.ring] ELSE caller
    BY InvParts, GivenStays DEF LeaveMessage, Is, known
  <1>2. /\ caller'.n = caller.n /\ caller'.at \in {caller.at, "message", "over"}
        /\ caller.at = "over" => caller'.at = "over"
    BY <1>1 DEF Wanted
  <1>3. ~Brings(run[h])
    BY <1>1 DEF Brings
  <1> QED BY <1>1, <1>2, <1>3, EndingWaits

LEMMA TargetReadWaits ==
    ASSUME RingInv, RingInv', WaitInv, NEW h \in Handler, TargetRead(h)
    PROVE  WaitInv'
  <1>1. run[h].pc = "target" /\ ~Brings(run[h])
    BY DEF TargetRead, Is, Brings
  <1>2. "targetWrite" \in Pc \ (CallPcs \cup JoinPcs)
    BY DEF Pc, CallPcs, DialPcs, JoinPcs
  <1> QED BY <1>1, <1>2, ReadingWaits DEF TargetRead

LEMMA DialReadWaits ==
    ASSUME RingInv, RingInv', WaitInv, NEW h \in Handler, DialRead(h)
    PROVE  WaitInv'
  <1>1. /\ run[h].pc = "dialRead" /\ caller' = caller /\ LapsesGrow
        /\ UNCHANGED <<leg, hosted, hooks, meta, notes>>
        /\ run[h] \in Serving /\ run \in [Handler -> Serving] /\ meta.ring \in Nat
        /\ KnownInv /\ meta.ring <= Len(flow.rings)
    BY InvParts, GivenStays DEF DialRead, Is, twilio, known, Meta
  <1>2. ~Brings(run[h]) /\ run[h].pc \in CallPcs /\ \A l \in Leg : ~Unanswering(run[h], l)
    BY <1>1 DEF Brings, CallPcs, Unanswering
  <1>3. CASE meta.ring = 0
    BY <1>1, <1>2, <1>3, EndingWaits DEF DialRead
  <1>4. CASE meta.ring # 0
    <2> DEFINE w == [run[h] EXCEPT !.pc = "dial", !.hook.ring = meta.ring,
                                   !.to = flow.rings[meta.ring]]
    <2>1. run' = [run EXCEPT ![h] = w]
      BY <1>1, <1>4 DEF DialRead
    <2>2. flow.rings[meta.ring] \in Seq(Agent)
      <3>1. meta.ring \in 1 .. Len(flow.rings)
        BY <1>1, <1>4, RingsOfFlow
      <3> QED BY <1>1, <3>1, RingsOfFlow
    <2>3. w \in Serving /\ w.pc = "dial" /\ w.hook.n = run[h].hook.n
      BY <1>1, <2>2 DEF Serving, Hook, Pc
    <2> HIDE DEF w
    <2>4. /\ \A l \in Leg : ~Stores(w, l)
          /\ "dial" \notin JoinPcs
      BY <2>3 DEF Stores, JoinPcs
    <2> QED BY <1>1, <1>2, <2>1, <2>3, <2>4, LocalWaits
  <1> QED BY <1>3, <1>4

LEMMA DialDoneWaits ==
    ASSUME RingInv, RingInv', WaitInv, NEW h \in Handler, DialDone(h)
    PROVE  WaitInv'
  <1>1. run[h].pc = "dial" /\ Ends(h) /\ caller' = caller
        /\ UNCHANGED <<leg, hosted, hooks, meta, notes>> /\ ~Brings(run[h]) /\ LapsesGrow
    BY GivenStays DEF DialDone, Is, twilio, known, Brings
  <1> QED BY <1>1, EndingWaits

LEMMA StoreReadWaits ==
    ASSUME RingInv, RingInv', WaitInv, NEW h \in Handler, StoreRead(h)
    PROVE  WaitInv'
  <1>1. run[h].pc = "store" /\ ~Brings(run[h]) /\ run[h].pc \in CallPcs
    BY DEF StoreRead, Is, Brings, CallPcs, DialPcs
  <1>2. "storeWrite" \in Pc \ JoinPcs
    BY DEF Pc, JoinPcs
  <1> QED BY <1>1, <1>2, ReadingWaits DEF StoreRead

LEMMA JoinReadWaits ==
    ASSUME RingInv, RingInv', WaitInv, NEW h \in Handler, JoinRead(h)
    PROVE  WaitInv'
  <1>1. run[h].pc = "join" /\ ~Brings(run[h]) /\ run[h].pc \in JoinPcs
    BY DEF JoinRead, Is, Brings, JoinPcs
  <1>2. "mark" \in Pc \ CallPcs
    BY DEF Pc, CallPcs, DialPcs
  <1> QED BY <1>1, <1>2, ReadingWaits DEF JoinRead

LEMMA JoinMarkWaits ==
    ASSUME RingInv, RingInv', WaitInv, NEW h \in Handler, JoinMark(h)
    PROVE  WaitInv'
  <1> DEFINE others == Without(run[h].saw.sids, run[h].hook.leg)
  <1>1. /\ run[h].pc = "mark" /\ caller' = caller /\ UNCHANGED <<leg, hosted, hooks, meta, notes>>
        /\ run[h] \in Serving /\ run \in [Handler -> Serving] /\ LapsesGrow
    BY InvParts, GivenStays DEF JoinMark, Is, twilio
  <1>2. ~Brings(run[h]) /\ run[h].pc \in JoinPcs /\ \A l \in Leg : ~Unanswering(run[h], l)
    BY <1>1 DEF Brings, JoinPcs, Unanswering
  <1>3. CASE others = {}
    BY <1>1, <1>2, <1>3, EndingWaits DEF JoinMark
  <1>4. CASE others # {}
    <2> DEFINE w == [run[h] EXCEPT !.pc = "joinHang", !.hang = others]
    <2>1. run' = [run EXCEPT ![h] = w]
      BY <1>1, <1>4 DEF JoinMark
    <2>2. others \subseteq Leg
      BY <1>1 DEF Serving, Meta, Without
    <2>3. w \in Serving /\ w.pc = "joinHang" /\ w.hook = run[h].hook
      BY <1>1, <2>2 DEF Serving, Pc
    <2> HIDE DEF w
    <2>4. "joinHang" \notin CallPcs /\ \A l \in Leg : ~Stores(w, l)
      BY <2>3 DEF CallPcs, DialPcs, Stores
    <2> QED BY <1>1, <1>2, <2>1, <2>3, <2>4, LocalWaits
  <1> QED BY <1>3, <1>4

LEMMA PurgeReadWaits ==
    ASSUME RingInv, RingInv', WaitInv, NEW h \in Handler, PurgeRead(h)
    PROVE  WaitInv'
  <1>1. /\ run[h].pc = "purge" /\ caller' = caller /\ UNCHANGED <<leg, hosted, hooks, meta, notes>>
        /\ run[h] \in Serving /\ run \in [Handler -> Serving] /\ meta \in Meta /\ LapsesGrow
    BY InvParts, GivenStays DEF PurgeRead, Is, twilio, known
  <1>2. ~Brings(run[h]) /\ \A l \in Leg : ~Unanswering(run[h], l)
    BY <1>1 DEF Brings, Unanswering
  <1>3. CASE NoneLeft(meta)
    BY <1>1, <1>2, <1>3, EndingWaits DEF PurgeRead
  <1>4. CASE ~NoneLeft(meta)
    <2> DEFINE w == [run[h] EXCEPT !.pc = "purgeHang", !.saw = meta, !.old = FALSE,
                                   !.hang = meta.sids]
    <2>1. run' = [run EXCEPT ![h] = w]
      BY <1>1, <1>4 DEF PurgeRead
    <2>2. w \in Serving /\ w.pc = "purgeHang"
      BY <1>1 DEF Serving, Pc, Meta
    <2> HIDE DEF w
    <2>3. "purgeHang" \notin CallPcs \cup JoinPcs /\ \A l \in Leg : ~Stores(w, l)
      BY <2>2 DEF CallPcs, DialPcs, JoinPcs, Stores
    <2> QED BY <1>1, <1>2, <2>1, <2>2, <2>3, LocalWaits
  <1> QED BY <1>3, <1>4

LEMMA RemoveReadWaits ==
    ASSUME RingInv, RingInv', WaitInv, NEW h \in Handler, RemoveRead(h)
    PROVE  WaitInv'
  <1>1. run[h].pc = "remove" /\ ~Brings(run[h])
    BY DEF RemoveRead, Is, Brings
  <1>2. "removeWrite" \in Pc \ (CallPcs \cup JoinPcs)
    BY DEF Pc, CallPcs, DialPcs, JoinPcs
  <1> QED BY <1>1, <1>2, ReadingWaits DEF RemoveRead

LEMMA CheckWaits ==
    ASSUME RingInv, RingInv', WaitInv, NEW h \in Handler, Check(h)
    PROVE  WaitInv'
  <1>1. run[h].pc = "check" /\ UNCHANGED <<twilio, known, given, notes>>
    BY DEF Check, Is
  <1>2. {"flag", "failed"} \subseteq Pc \ (CallPcs \cup JoinPcs)
    BY DEF Pc, CallPcs, DialPcs, JoinPcs
  <1>3. CASE NoneLeft(meta)
    BY <1>1, <1>2, <1>3, ReadingWaits DEF Check
  <1>4. CASE ~NoneLeft(meta)
    <2>1. ~Brings(run[h])
      BY <1>1, <1>4 DEF Brings, NoneLeft
    <2>2. run' = [run EXCEPT ![h].pc = "failed"]
      BY <1>4 DEF Check, Goes
    <2> QED BY <1>1, <1>2, <2>1, <2>2, GoingWaits
  <1> QED BY <1>3, <1>4

LEMMA FailedReadWaits ==
    ASSUME RingInv, RingInv', WaitInv, NEW h \in Handler, FailedRead(h)
    PROVE  WaitInv'
  <1>1. run[h].pc = "failed" /\ UNCHANGED <<twilio, known, given, notes>>
    BY DEF FailedRead, Is
  <1>2. "redirect" \in Pc \ (CallPcs \cup JoinPcs)
    BY DEF Pc, CallPcs, DialPcs, JoinPcs
  <1>3. CASE meta.failed
    <2>1. run' = [run EXCEPT ![h].pc = "redirect"]
      BY <1>3 DEF FailedRead, Goes
    <2> QED BY <1>1, <1>2, <2>1, GoingWaits
  <1>4. CASE ~meta.failed
    <2>1. ~Brings(run[h]) /\ Ends(h)
      BY <1>1, <1>4 DEF Brings, FailedRead
    <2>2. caller' = caller /\ UNCHANGED <<leg, hosted, hooks, meta, notes>> /\ LapsesGrow
      BY <1>1, GivenStays DEF twilio, known
    <2> QED BY <1>1, <2>1, <2>2, EndingWaits
  <1> QED BY <1>3, <1>4

LEMMA ClearReadWaits ==
    ASSUME RingInv, RingInv', WaitInv, NEW h \in Handler, ClearRead(h)
    PROVE  WaitInv'
  <1>1. run[h].pc = "clear" /\ ~Brings(run[h])
    BY DEF ClearRead, Is, Brings
  <1>2. "clearWrite" \in Pc \ (CallPcs \cup JoinPcs)
    BY DEF Pc, CallPcs, DialPcs, JoinPcs
  <1> QED BY <1>1, <1>2, ReadingWaits DEF ClearRead

\* A webhook is taken up: what it is about goes from the hooks to the handler.
LEMMA DeliverWaits ==
    ASSUME RingInv, RingInv', WaitInv, NEW h \in Handler, Deliver(h)
    PROVE  WaitInv'
  <1> PICK k \in hooks : /\ hooks' = hooks \ {k}
                         /\ run' = [run EXCEPT ![h] = [Idle EXCEPT !.pc = FirstStep[k.kind],
                                                                   !.hook = k]]
    BY DEF Deliver
  <1>1. /\ run[h].pc = "idle" /\ caller' = caller /\ leg' = leg /\ hosted' = hosted /\ meta' = meta
        /\ KeepsNotes /\ EndsStay
        /\ run \in [Handler -> Serving] /\ k \in Hook
    BY InvParts, GivenStays DEF Deliver, Is, known, notes, KeepsNotes, EndsStay, WorldInv
  <1>2. /\ run'[h].pc = FirstStep[k.kind] /\ run'[h].hook = k
        /\ \A g \in Handler : g # h => run'[g] = run[g] /\ Same(g)
    BY <1>1 DEF Same, Idle
  <1>3. /\ k.kind = "agentLeft" => run'[h].pc = "hangCaller"
        /\ k.kind = "unanswered" => run'[h].pc = "remove"
        /\ run'[h].pc \in CallPcs => k.kind = "callerJoin"
        /\ run'[h].pc \in JoinPcs => k.kind = "agentJoin"
        /\ run'[h].pc \notin {"store", "storeWrite"}
    BY <1>1, <1>2 DEF FirstStep, Hook, CallPcs, DialPcs, JoinPcs
  <1>4. KeepsPlaced
    BY <1>1 DEF KeepsPlaced, PlacedFor
  <1>5. KeepsDoom
    <2>1. ASSUME NEW g \in Handler, run[g].pc = "hangCaller" PROVE run'[g].pc = "hangCaller"
      BY <1>1, <1>2, <2>1
    <2>2. ASSUME NEW m \in hooks, m.kind = "agentLeft" PROVE Doomed'
      BY <1>2, <1>3, <2>2 DEF Doomed
    <2> QED BY <1>1, <2>1, <2>2 DEF KeepsDoom, Doomed
  <1>6. Placed'
    <2>1. run'[h].pc \in CallPcs => PlacedFor(run[h].hook.n)'
      <3> SUFFICES ASSUME k.kind = "callerJoin"
                   PROVE  PlacedFor(run[h].hook.n)'
        BY <1>3
      <3>1. PlacedFor(k.n) /\ run'[h].hook.n = k.n
        BY <1>2 DEF WaitInv, Placed
      <3> QED BY <1>1, <3>1 DEF PlacedFor
    <2> QED BY <1>2, <1>4, <2>1, PlacedKeeps DEF WaitInv
  <1>7. \A m \in hooks : m.kind = "unanswered" => Unanswered(m.leg)'
    <2> SUFFICES ASSUME NEW m \in hooks, m.kind = "unanswered"
                 PROVE  Unanswered(m.leg)'
      OBVIOUS
    <2>1. CASE m = k
      <3>1. Unanswering(run'[h], m.leg)
        BY <1>2, <1>3, <2>1 DEF Unanswering
      <3> QED BY <3>1 DEF Unanswered
    <2>2. CASE m # k
      BY <2>2 DEF Unanswered
    <2> QED BY <2>1, <2>2
  <1>8. KeepsCalls
    <2>1. Called' => Called
      BY <1>1 DEF Called, KeepsNotes, LapsesGrow
    <2>2. \A l \in Leg : Live(l) => Pending(l)'
      BY <1>1 DEF Live, Pending
    <2> QED BY <1>1, <1>7, <2>1, <2>2 DEF KeepsCalls
  <1>9. KeepsRecord
    BY <1>1 DEF KeepsRecord
  <1>10. Talking => Proceeds(h)
    <2>1. Talking => (run'[h].pc \in JoinPcs => leg'[run'[h].hook.leg].at = "in")
      BY <1>1, <1>2, <1>3 DEF Talking
    <2>2. /\ \A l \in Leg : ~Stores(run'[h], l) /\ ~Unanswering(run[h], l)
          /\ ~Brings(run[h])
      BY <1>1, <1>3 DEF Stores, Unanswering, Brings
    <2> QED BY <2>1, <2>2 DEF Proceeds
  <1> QED BY <1>1, <1>2, <1>5, <1>6, <1>8, <1>9, <1>10, WaitKeeps

\* A phone begins to ring.
LEMMA DialWaits ==
    ASSUME RingInv, RingInv', WaitInv, NEW h \in Handler, Dial(h)
    PROVE  WaitInv'
  <1> PICK l \in Leg : /\ NextLeg(l)
                       /\ leg' = [leg EXCEPT ![l] = [at |-> "ringing", ring |-> run[h].hook.ring,
                                                    n |-> run[h].hook.n]]
                       /\ run' = [run EXCEPT ![h].pc = "store", ![h].to = Tail(@), ![h].leg = l]
    BY DEF Dial
  <1>1. /\ run[h].pc = "dial" /\ leg[l].at = "none" /\ caller' = caller /\ hosted' = hosted
        /\ hooks' = hooks /\ meta' = meta /\ KeepsNotes
        /\ run \in [Handler -> Serving] /\ leg \in Legs
    BY InvParts, GivenStays DEF Dial, Is, NextLeg, known, notes, KeepsNotes, WorldInv
  <1>2. /\ leg'[l].at = "ringing" /\ leg'[l].n = run[h].hook.n
        /\ \A m \in Leg : m # l => leg'[m] = leg[m]
    BY <1>1 DEF Legs
  <1>3. /\ run'[h].pc = "store" /\ run'[h].hook = run[h].hook /\ run'[h].leg = l
        /\ \A g \in Handler : g # h => run'[g] = run[g] /\ Same(g)
    BY <1>1 DEF Serving, Same
  <1>4. PlacedFor(run[h].hook.n) /\ run[h].pc \in CallPcs
    BY <1>1 DEF WaitInv, Placed, CallPcs, DialPcs
  <1>5. KeepsPlaced
    <2>1. PlacedFor(leg[l].n)'
      BY <1>1, <1>2, <1>4 DEF PlacedFor
    <2>2. \A m \in Leg : leg'[m].n = leg[m].n \/ PlacedFor(leg[m].n)'
      BY <1>2, <2>1
    <2> QED BY <1>1, <2>2 DEF KeepsPlaced, PlacedFor
  <1>6. EndsStay
    BY <1>1, <1>2 DEF EndsStay, Done
  <1>7. KeepsDoom
    <2>1. \A g \in Handler : run[g].pc = "hangCaller" => run'[g].pc = "hangCaller"
      BY <1>1, <1>3
    <2> QED BY <1>1, <1>6, <2>1, StillDoomed
  <1>8. Placed'
    <2>1. PlacedFor(run[h].hook.n)'
      BY <1>1, <1>3, <1>4 DEF PlacedFor
    <2> QED BY <1>3, <1>5, <2>1, PlacedKeeps DEF WaitInv
  <1>9. Pending(l)'
    BY <1>2 DEF Pending, Live
  <1>10. KeepsCalls
    <2>1. Moving'
      BY <1>9 DEF Moving
    <2>2. \A m \in Leg : Live(m) => Pending(m)'
      BY <1>1, <1>2 DEF Live, Pending
    <2>3. \A k \in hooks : k.kind = "unanswered" => Unanswered(k.leg)'
      BY <1>1 DEF Unanswered
    <2> QED BY <1>1, <1>2, <2>1, <2>2, <2>3 DEF KeepsCalls
  <1>11. KeepsRecord
    BY <1>1 DEF KeepsRecord
  <1>12. Proceeds(h)
    <2>1. /\ \A m \in Leg : Stores(run'[h], m) => Pending(m)'
          /\ \A m \in Leg : ~Unanswering(run[h], m)
          /\ ~Brings(run[h]) /\ run'[h].pc \notin JoinPcs
      BY <1>1, <1>3, <1>9 DEF Stores, Unanswering, Brings, JoinPcs
    <2> QED BY <2>1 DEF Proceeds
  <1> QED BY <1>1, <1>3, <1>7, <1>8, <1>10, <1>11, <1>12, WaitKeeps

\* One call is hung up.
LEMMA HangOneWaits ==
    ASSUME RingInv, RingInv', WaitInv, NEW h \in Handler, NEW next \in {"joinWrite", "purgeWrite"},
           run[h].pc \in {"joinHang", "purgeHang"},
           next = "joinWrite" <=> run[h].pc = "joinHang",
           HangOne(h, next), UNCHANGED <<known, given, notes>>
    PROVE  WaitInv'
  <1> PICK l \in run[h].hang : Hangs(l) /\ Strikes(h, l, next)
    BY DEF HangOne
  <1>1. /\ run \in [Handler -> Serving] /\ run[h] \in Serving /\ l \in Leg
        /\ meta' = meta /\ KeepsNotes /\ LapsesGrow
    BY InvParts, GivenStays DEF Serving, known, notes, KeepsNotes
  <1>2. /\ run'[h].pc \in {run[h].pc, next} /\ run'[h].hook = run[h].hook
        /\ \A g \in Handler : g # h => run'[g] = run[g] /\ Same(g)
    BY <1>1 DEF Serving, Same, Strikes
  <1>3. /\ KeepsPlaced /\ EndsStay /\ hooks \subseteq hooks'
        /\ caller.at = "over" => caller'.at = "over"
        /\ Talking /\ Regular' => KeepsCalls
    BY <1>1, HangsOn
  <1>4. KeepsDoom
    <2>1. \A g \in Handler : run[g].pc = "hangCaller" => run'[g].pc = "hangCaller"
      BY <1>2
    <2> QED BY <1>3, <2>1, StillDoomed
  <1>5. Placed'
    <2>1. run'[h].pc \notin CallPcs
      BY <1>2 DEF CallPcs, DialPcs
    <2> QED BY <1>2, <1>3, <2>1, PlacedKeeps DEF WaitInv
  <1>6. KeepsRecord
    BY <1>1, <1>2 DEF KeepsRecord
  <1>7. Talking /\ KeepsCalls => Proceeds(h)
    <2> SUFFICES ASSUME Talking, KeepsCalls
                 PROVE  Proceeds(h)
      OBVIOUS
    <2>1. run'[h].pc \in JoinPcs => leg'[run'[h].hook.leg].at = "in"
      <3> SUFFICES ASSUME run'[h].pc \in JoinPcs
                   PROVE  leg'[run[h].hook.leg].at = "in"
        BY <1>2
      <3>1. run[h].pc \in JoinPcs
        BY <1>2 DEF JoinPcs
      <3>2. leg[run[h].hook.leg].at = "in" /\ run[h].hook.leg \in Leg
        BY <3>1, InvParts DEF Talking, ServedOK, HookOK
      <3> QED BY <3>2 DEF KeepsCalls
    <2>2. /\ \A m \in Leg : ~Stores(run'[h], m) /\ ~Unanswering(run[h], m)
          /\ ~Brings(run[h])
      BY <1>2 DEF Stores, Unanswering, Brings
    <2> QED BY <2>1, <2>2 DEF Proceeds
  <1> QED BY <1>1, <1>2, <1>3, <1>4, <1>5, <1>6, <1>7, WaitKeeps

LEMMA JoinHangWaits ==
    ASSUME RingInv, RingInv', WaitInv, NEW h \in Handler, JoinHang(h)
    PROVE  WaitInv'
  BY HangOneWaits DEF JoinHang, Is

LEMMA PurgeHangWaits ==
    ASSUME RingInv, RingInv', WaitInv, NEW h \in Handler, PurgeHang(h)
    PROVE  WaitInv'
  BY HangOneWaits DEF PurgeHang, Is

\* A step after which the caller is gone, or something has happened that is excepted.
LEMMA IrregularWaits ==
    ASSUME RingInv, RingInv', WaitInv, ~Regular', KeepsPlaced,
           NEW h \in Handler, run'[h].pc \notin CallPcs, \A g \in Handler : g # h => Same(g)
    PROVE  WaitInv'
  <1>1. Placed'
    BY PlacedKeeps DEF WaitInv
  <1> QED BY <1>1 DEF WaitInv

LEMMA OverIsIrregular ==
    ASSUME caller'.at = "over"
    PROVE  ~Regular'
  BY DEF Regular, Doomed

LEMMA HangCallerWaits ==
    ASSUME RingInv, RingInv', WaitInv, NEW h \in Handler, HangCaller(h)
    PROVE  WaitInv'
  <1>1. /\ Ends(h) /\ run \in [Handler -> Serving]
        /\ caller \in [at : {"asks", "waits", "message", "over"}, ring : Nat, n : 1 .. MaxAsks]
    BY InvParts DEF HangCaller
  <1>2. run'[h].pc \notin CallPcs /\ \A g \in Handler : g # h => Same(g)
    BY <1>1 DEF Ends, Idle, Same, CallPcs, DialPcs
  <1>3. CASE caller.at = "over"
    <2>1. caller' = caller /\ leg' = leg /\ hooks' = hooks
      BY <1>3 DEF HangCaller, twilio
    <2> QED BY <1>2, <1>3, <2>1, StillPlaced, OverIsIrregular, IrregularWaits
  <1>4. CASE caller.at # "over"
    <2>1. CallerGoes(hooks)
      BY <1>4 DEF HangCaller
    <2>2. /\ caller'.at = "over" /\ caller'.n = caller.n /\ leg' \in {leg, Emptied}
          /\ \A k \in hooks' : k.kind = "callerJoin" => k \in hooks
      BY <1>1, <2>1 DEF CallerGoes, Reports, OfCaller, OfAgent
    <2>3. KeepsPlaced
      BY <2>2, EmptiedKeepsNumbers DEF KeepsPlaced, PlacedFor
    <2> QED BY <1>2, <2>2, <2>3, OverIsIrregular, IrregularWaits
  <1> QED BY <1>3, <1>4

\* The caller is sent on, and has not been called for there.
LEMMA RedirectWaits ==
    ASSUME RingInv, RingInv', WaitInv, NEW h \in Handler, Redirect(h)
    PROVE  WaitInv'
  <1> DEFINE next == leg[run[h].hook.leg].ring + 1
             asked == OfCaller("twiml", next, caller.n + 1)
  <1>1. /\ run[h].pc = "redirect" /\ run' = [run EXCEPT ![h].pc = "clear"] /\ KeepsNotes
        /\ meta' = meta /\ run \in [Handler -> Serving] /\ WorldInv
    BY InvParts, GivenStays DEF Redirect, Goes, Is, known, notes, KeepsNotes
  <1>2. run'[h].pc = "clear" /\ \A g \in Handler : g # h => run'[g] = run[g] /\ Same(g)
    BY <1>1 DEF Serving, Same
  <1>3. run'[h].pc \notin CallPcs
    BY <1>2 DEF CallPcs, DialPcs
  <1>4. CASE caller.at = "over"
    <2>1. caller' = caller /\ leg' = leg /\ hooks' = hooks
      BY <1>4 DEF Redirect, twilio
    <2> QED BY <1>2, <1>3, <1>4, <2>1, StillPlaced, OverIsIrregular, IrregularWaits
  <1>5. CASE caller.at # "over"
    <2>1. /\ caller' = [at |-> "asks", ring |-> next, n |-> caller.n + 1]
          /\ hooks' = (hooks \cup {asked}) \cup (IF caller.at = "waits" THEN Reports ELSE {})
          /\ IF caller.at = "waits" THEN leg' = Emptied /\ hosted' = FALSE
             ELSE UNCHANGED <<leg, hosted>>
      BY <1>5 DEF Redirect
    <2>2. /\ caller'.at = "asks" /\ caller'.n = caller.n + 1 /\ leg' \in {leg, Emptied}
          /\ hooks \subseteq hooks'
          /\ \A k \in hooks' : k.kind \in {"callerJoin", "agentJoin"} => k \in hooks
      BY <2>1 DEF Reports, OfCaller, OfAgent
    <2>3. EndsStay
      BY <1>1, <2>2, EmptiedIsLegs DEF EndsStay, Done
    <2>4. KeepsPlaced
      BY <2>2, EmptiedKeepsNumbers, NumbersOf DEF KeepsPlaced, PlacedFor
    <2>5. KeepsDoom
      <3>1. \A g \in Handler : run[g].pc = "hangCaller" => run'[g].pc = "hangCaller"
        BY <1>1, <1>2
      <3> QED BY <1>5, <2>2, <2>3, <3>1, StillDoomed
    <2>6. Placed'
      BY <1>2, <1>3, <2>4, PlacedKeeps DEF WaitInv
    <2>7. ~Called'
      BY <2>2 DEF Called
    <2>8. Talking /\ Regular' => leg' = leg /\ \A l \in Leg : leg[l].at # "in"
      <3> SUFFICES ASSUME Talking, Regular'
                   PROVE  leg' = leg /\ \A l \in Leg : leg[l].at # "in"
        OBVIOUS
      <3>1. ASSUME NEW l \in Leg, leg[l].at = "in" PROVE FALSE
        <4>1. hosted /\ caller.at = "waits"
          BY <1>1, <3>1 DEF Talking, WorldInv
        <4>2. OfAgent("agentLeft", l) \in hooks'
          BY <2>1, <3>1, <4>1 DEF Reports, In
        <4>3. OfAgent("agentLeft", l).kind = "agentLeft"
          BY DEF OfAgent
        <4> QED BY <4>2, <4>3 DEF Regular, Doomed
      <3>2. Emptied = leg
        BY <1>1, <3>1 DEF Emptied, In, WorldInv, Legs
      <3> QED BY <2>2, <3>1, <3>2
    <2>9. Talking /\ Regular' => KeepsCalls
      <3> SUFFICES ASSUME Talking, Regular'
                   PROVE  KeepsCalls
        OBVIOUS
      <3>1. leg' = leg /\ \A l \in Leg : leg[l].at # "in"
        BY <2>8
      <3>2. \A l \in Leg : Live(l) => Pending(l)'
        BY <3>1 DEF Live, Pending
      <3>3. \A k \in hooks : k.kind = "unanswered" => Unanswered(k.leg)'
        BY <2>2 DEF Unanswered
      <3> QED BY <2>2, <2>7, <3>1, <3>2, <3>3 DEF KeepsCalls
    <2>10. KeepsRecord
      BY <1>1 DEF KeepsRecord
    <2>11. Proceeds(h)
      <3>1. /\ \A m \in Leg : ~Stores(run'[h], m) /\ ~Unanswering(run[h], m)
            /\ run'[h].pc \notin JoinPcs
        BY <1>1, <1>2 DEF Stores, Unanswering, JoinPcs
      <3> QED BY <2>7, <3>1 DEF Proceeds
    <2> QED BY <1>1, <1>2, <2>5, <2>6, <2>9, <2>10, <2>11, WaitKeeps
  <1> QED BY <1>4, <1>5

-----------------------------------------------------------------------------
(* Nobody waits alone: failures                                             *)

\* The webhook is over, and the caller may have entered the conference.
LEMMA TargetFailsWaits ==
    ASSUME RingInv, RingInv', WaitInv, NEW h \in Handler, TargetFails(h)
    PROVE  WaitInv'
  <1>1. /\ run[h].pc \in {"target", "targetWrite"} /\ Enters(h) /\ Ends(h) /\ leg' = leg
        /\ meta' = meta /\ LapsesGrow /\ KeepsNotes /\ run \in [Handler -> Serving]
    BY InvParts, LapsesStay DEF TargetFails, Is, known, notes, KeepsNotes
  <1>2. run'[h].pc = "idle" /\ \A g \in Handler : g # h => run'[g] = run[g] /\ Same(g)
    BY <1>1 DEF Ends, Idle, Same
  <1>3. /\ KeepsPlaced /\ EndsStay /\ hooks \subseteq hooks'
        /\ caller.at = "over" => caller'.at = "over"
        /\ Talking => KeepsCalls
    BY <1>1, EnteringWaits
  <1>4. KeepsDoom
    <2>1. \A g \in Handler : run[g].pc = "hangCaller" => run'[g].pc = "hangCaller"
      BY <1>1, <1>2
    <2> QED BY <1>3, <2>1, StillDoomed
  <1>5. Placed'
    <2>1. run'[h].pc \notin CallPcs
      BY <1>2 DEF CallPcs, DialPcs
    <2> QED BY <1>2, <1>3, <2>1, PlacedKeeps DEF WaitInv
  <1>6. KeepsRecord
    BY <1>1 DEF KeepsRecord
  <1>7. Proceeds(h)
    <2>1. /\ run'[h].pc \notin JoinPcs /\ ~Brings(run[h])
          /\ \A l \in Leg : ~Stores(run'[h], l) /\ ~Unanswering(run[h], l)
      BY <1>1, <1>2 DEF JoinPcs, Stores, Unanswering, Brings
    <2> QED BY <2>1 DEF Proceeds
  <1> QED BY <1>1, <1>2, <1>3, <1>4, <1>5, <1>6, <1>7, WaitKeeps

LEMMA AskFailsWaits ==
    ASSUME RingInv, RingInv', WaitInv, NEW h \in Handler, AskFails(h)
    PROVE  WaitInv'
  <1>1. /\ UNCHANGED <<leg, hosted, hooks, meta, notes>> /\ LapsesGrow /\ Ends(h)
        /\ run[h].pc \in {"answered", "target", "targetWrite"}
        /\ caller' = IF Wanted(h) THEN [caller EXCEPT !.at = "over"] ELSE caller
        /\ caller \in [at : {"asks", "waits", "message", "over"}, ring : Nat, n : 1 .. MaxAsks]
    BY InvParts, LapsesStay DEF AskFails, known
  <1>2. /\ caller'.n = caller.n /\ caller'.at \in {caller.at, "message", "over"}
        /\ caller.at = "over" => caller'.at = "over"
    BY <1>1
  <1>3. ~Brings(run[h])
    BY <1>1 DEF Brings
  <1> QED BY <1>1, <1>2, <1>3, EndingWaits

LEMMA DialFailsWaits ==
    ASSUME RingInv, RingInv', WaitInv, NEW h \in Handler, DialFails(h)
    PROVE  WaitInv'
  <1> DEFINE w == [run[h] EXCEPT !.to = Tail(@)]
  <1>1. /\ run[h].pc = "dial" /\ caller' = caller /\ run[h].to # <<>> /\ LapsesGrow
        /\ UNCHANGED <<leg, hosted, hooks, meta, notes>>
        /\ run[h] \in Serving /\ run \in [Handler -> Serving] /\ run' = [run EXCEPT ![h] = w]
    BY InvParts, LapsesStay DEF DialFails, Is, twilio, known
  <1>2. w \in Serving /\ w.pc = "dial" /\ w.hook = run[h].hook
    <2>1. run[h].to \in Seq(Agent)
      BY <1>1 DEF Serving
    <2>2. Tail(run[h].to) \in Seq(Agent)
      BY <1>1, <2>1
    <2> QED BY <1>1, <2>2 DEF Serving
  <1> HIDE DEF w
  <1>3. /\ ~Brings(run[h]) /\ run[h].pc \in CallPcs /\ "dial" \notin JoinPcs
        /\ \A l \in Leg : ~Unanswering(run[h], l) /\ ~Stores(w, l)
    BY <1>1, <1>2 DEF Brings, CallPcs, DialPcs, JoinPcs, Unanswering, Stores
  <1> QED BY <1>1, <1>2, <1>3, LocalWaits

\* The call goes on, and its end will be served like those of the others.
LEMMA StoreFailsWaits ==
    ASSUME RingInv, RingInv', WaitInv, NEW h \in Handler, StoreFails(h)
    PROVE  WaitInv'
  <1>1. /\ run[h].pc \in {"store", "storeWrite"} /\ caller' = caller
        /\ UNCHANGED <<leg, hosted, hooks, meta, notes>>
        /\ loose' = loose \cup {run[h].leg} /\ UNCHANGED <<stuck, kept, cut>>
        /\ run' = [run EXCEPT ![h].pc = "dial"]
    BY DEF StoreFails, twilio, known
  <1>2. run[h] \in Serving /\ run \in [Handler -> Serving]
    BY InvParts
  <1>3. LapsesGrow
    BY <1>1 DEF LapsesGrow, RingInv, TypeInv, KnownInv
  <1> PICK w : w = [run[h] EXCEPT !.pc = "dial"]
    OBVIOUS
  <1>4. run' = [run EXCEPT ![h] = w]
    BY <1>1, <1>2
  <1>5. w \in Serving /\ w.pc = "dial" /\ w.hook = run[h].hook
    BY <1>2 DEF Serving, Pc
  <1>6. /\ ~Brings(run[h]) /\ run[h].pc \in CallPcs /\ "dial" \notin JoinPcs
        /\ \A l \in Leg : ~Unanswering(run[h], l) /\ ~Stores(w, l)
    BY <1>1, <1>5 DEF Brings, CallPcs, DialPcs, JoinPcs, Unanswering, Stores
  <1> QED BY <1>1, <1>3, <1>4, <1>5, <1>6, LocalWaits

\* Whoever could not be hung up is still there.
LEMMA HangFailsWaits ==
    ASSUME RingInv, RingInv', WaitInv, NEW h \in Handler, JoinHangFails(h) \/ PurgeHangFails(h)
    PROVE  WaitInv'
  <1> PICK next : /\ HangFails(h, next)
                  /\ \/ run[h].pc = "joinHang" /\ next = "joinWrite"
                     \/ run[h].pc = "purgeHang" /\ next = "purgeWrite"
    BY DEF JoinHangFails, PurgeHangFails, Is
  <1> PICK l \in run[h].hang : loose' = loose \cup {l} /\ Strikes(h, l, next)
    BY DEF HangFails
  <1>1. /\ UNCHANGED <<leg, hosted, hooks, meta, notes>> /\ UNCHANGED <<stuck, kept, cut>>
        /\ caller' = caller
    BY DEF HangFails, twilio, known
  <1>2. run[h] \in Serving /\ run \in [Handler -> Serving] /\ l \in Leg
    BY InvParts DEF Serving
  <1>3. LapsesGrow
    BY <1>1 DEF LapsesGrow, RingInv, RingInv, TypeInv, KnownInv
  <1> DEFINE pc == IF run[h].hang = {l} THEN next ELSE run[h].pc
  <1> PICK w : w = [run[h] EXCEPT !.hang = run[h].hang \ {l}, !.pc = pc]
    OBVIOUS
  <1>4. run' = [run EXCEPT ![h] = w]
    BY <1>2 DEF Strikes
  <1>5. pc \in {run[h].pc, next} /\ pc \in Pc
    BY DEF Pc
  <1> HIDE DEF pc
  <1>6. w \in Serving /\ w.pc = pc /\ w.hook = run[h].hook
    BY <1>2, <1>5 DEF Serving
  <1>7. /\ ~Brings(run[h]) /\ run[h].pc # "hangCaller" /\ w.pc \notin CallPcs
        /\ w.pc \in JoinPcs => run[h].pc \in JoinPcs
        /\ \A m \in Leg : ~Unanswering(run[h], m) /\ ~Stores(w, m)
    BY <1>5, <1>6 DEF Brings, CallPcs, DialPcs, JoinPcs, Unanswering, Stores
  <1> QED BY <1>1, <1>3, <1>4, <1>6, <1>7, LocalWaits

LEMMA HangCallerFailsWaits ==
    ASSUME RingInv, RingInv', WaitInv, NEW h \in Handler, HangCallerFails(h)
    PROVE  WaitInv'
  <1>1. /\ UNCHANGED <<leg, hooks>> /\ caller' = caller /\ kept' /\ Ends(h)
        /\ run \in [Handler -> Serving]
    BY InvParts DEF HangCallerFails, twilio
  <1>2. run'[h].pc \notin CallPcs /\ \A g \in Handler : g # h => Same(g)
    BY <1>1 DEF Ends, Idle, Same, CallPcs, DialPcs
  <1>3. ~Regular'
    BY <1>1 DEF Regular
  <1> QED BY <1>1, <1>2, <1>3, StillPlaced, IrregularWaits

\* The caller stays where the redirection failed, or does not wait.
LEMMA RedirectFailsWaits ==
    ASSUME RingInv, RingInv', WaitInv, NEW h \in Handler, RedirectFails(h)
    PROVE  WaitInv'
  <1>1. /\ UNCHANGED <<leg, hosted, hooks, meta, notes>> /\ caller' = caller
        /\ run[h].pc = "redirect" /\ run' = [run EXCEPT ![h].pc = "clear"]
        /\ stuck' = IF caller.at = "waits" THEN stuck \cup {caller.n} ELSE stuck
        /\ UNCHANGED <<loose, kept, cut>>
    BY DEF RedirectFails, Is, Goes, twilio, known
  <1>2. run[h] \in Serving /\ run \in [Handler -> Serving] /\ caller.n \in 1 .. MaxAsks
    BY InvParts
  <1>3. LapsesGrow
    BY <1>1, <1>2 DEF LapsesGrow, RingInv, TypeInv, KnownInv
  <1> PICK w : w = [run[h] EXCEPT !.pc = "clear"]
    OBVIOUS
  <1>4. run' = [run EXCEPT ![h] = w]
    BY <1>1, <1>2
  <1>5. w \in Serving /\ w.pc = "clear"
    BY <1>2 DEF Serving, Pc
  <1>6. ~Called'
    BY <1>1 DEF Called
  <1>7. /\ "clear" \notin CallPcs \cup JoinPcs
        /\ \A l \in Leg : ~Unanswering(run[h], l) /\ ~Stores(w, l)
    BY <1>1, <1>5 DEF CallPcs, DialPcs, JoinPcs, Unanswering, Stores
  <1>8. /\ run[h].pc # "hangCaller" /\ w.pc \notin CallPcs /\ w.pc \notin JoinPcs
        /\ caller'.n = caller.n /\ caller'.at = caller.at
    BY <1>1, <1>5, <1>7
  <1>9. UNCHANGED <<leg, hosted, hooks, meta, notes>>
    BY <1>1
  <1> QED BY <1>3, <1>4, <1>5, <1>6, <1>7, <1>8, <1>9, LocalWaits

LEMMA IsCutWaits ==
    ASSUME RingInv, RingInv', WaitInv, NEW h \in Handler, IsCut(h)
    PROVE  WaitInv'
  <1>1. /\ UNCHANGED <<leg, hooks>> /\ caller' = caller /\ cut' /\ Ends(h)
        /\ run \in [Handler -> Serving]
    BY InvParts DEF IsCut, twilio
  <1>2. run'[h].pc \notin CallPcs /\ \A g \in Handler : g # h => Same(g)
    BY <1>1 DEF Ends, Idle, Same, CallPcs, DialPcs
  <1>3. ~Regular'
    BY <1>1 DEF Regular
  <1> QED BY <1>1, <1>2, <1>3, StillPlaced, IrregularWaits

-----------------------------------------------------------------------------
(* Nobody waits alone: the theorem                                          *)

LEMMA WaitStarts ==
    ASSUME RingInit
    PROVE  WaitInv
  <1>1. /\ caller = [at |-> "asks", ring |-> 1, n |-> 1] /\ hooks = {OfCaller("twiml", 1, 1)}
        /\ meta.sids = {} /\ \A l \in Leg : leg[l].at = "none" /\ leg[l].n = 0
        /\ \A g \in Handler : run[g].pc = "idle"
    BY DEF RingInit, NoMeta, Idle
  <1>2. Placed
    BY <1>1 DEF Placed, PlacedFor, OfCaller, CallPcs, DialPcs
  <1>3. Talking /\ Expected /\ ~Called
    BY <1>1 DEF Talking, Expected, Called, OfCaller, JoinPcs, Stored, Stores
  <1> QED BY <1>2, <1>3 DEF WaitInv

LEMMA ServingStepWaits ==
    ASSUME RingInv, RingInv', WaitInv, NEW h \in Handler, Deliver(h) \/ Works(h) \/ Fails(h)
    PROVE  WaitInv'
  <1>1. CASE Flows(h)
    BY <1>1, DialEndedWaits, LeaveMessageWaits, TargetReadWaits, TargetWriteWaits DEF Flows
  <1>2. CASE Dials(h)
    BY <1>2, DialReadWaits, DialWaits, DialDoneWaits, StoreReadWaits, StoreWriteWaits DEF Dials
  <1>3. CASE Joins(h)
    BY <1>3, JoinReadWaits, JoinMarkWaits, JoinHangWaits, JoinWriteWaits DEF Joins
  <1>4. CASE Purges(h)
    BY <1>4, PurgeReadWaits, PurgeHangWaits, PurgeWriteWaits, HangCallerWaits DEF Purges
  <1>5. CASE Moves(h)
    BY <1>5, RemoveReadWaits, RemoveWriteWaits, CheckWaits, FlagWaits, FailedReadWaits,
       RedirectWaits, ClearReadWaits, ClearWriteWaits DEF Moves
  <1>6. CASE Fails(h)
    BY <1>6, TargetFailsWaits, AskFailsWaits, DialFailsWaits, StoreFailsWaits, HangFailsWaits,
       HangCallerFailsWaits, RedirectFailsWaits, IsCutWaits DEF Fails
  <1> QED BY <1>1, <1>2, <1>3, <1>4, <1>5, <1>6, DeliverWaits DEF Works

LEMMA RingStepWaits ==
    ASSUME RingInv, RingInv', WaitInv, [RingNext]_ringVars
    PROVE  WaitInv'
  <1>1. CASE RingNext
    BY <1>1, CallerHangsUpWaits, AgentAnswersWaits, AgentFailsWaits, AgentHangsUpWaits,
       ServingStepWaits DEF RingNext
  <1>2. CASE UNCHANGED ringVars
    <2>1. /\ UNCHANGED <<run, meta>> /\ KeepsNotes /\ EndsStay /\ hooks \subseteq hooks'
          /\ UNCHANGED <<leg, hosted, hooks>> /\ caller' = caller
      <3>1. UNCHANGED given
        BY <1>2 DEF ringVars, given, lapses
      <3> QED BY <1>2, <3>1, GivenStays DEF ringVars, KeepsNotes, EndsStay
    <2>2. Called' => Called
      BY <2>1 DEF Called, KeepsNotes, LapsesGrow
    <2> QED BY <2>1, <2>2, StillPlaced, StillCalls, OutsideWaits
  <1> QED BY <1>1, <1>2

\* Nobody waits alone: once every webhook has been served, a caller who waits and for
\* whom agents have been called has one in the conference or a phone that rings, for any
\* call flow, number of agents, of webhooks served at once, of requests and of failures,
\* unless one of the things has happened that NobodyWaitsAlone names
\* (handleAgentCallStatus).
THEOREM NobodyIsLeft == RingSpec => []NobodyWaitsAlone
  <1>1. RingInit => WaitInv
    BY WaitStarts
  <1>2. RingInv /\ RingInv' /\ WaitInv /\ [RingNext]_ringVars => WaitInv'
    BY RingStepWaits
  <1>3. RingInv /\ WaitInv => NobodyWaitsAlone
    <2> SUFFICES ASSUME RingInv, WaitInv, Quiet, Called, ~crossed, ~unread, ~stray, early = {},
                        ~kept, ~cut, \A l \in Leg : leg[l].at # "dropped"
                 PROVE  In \cup Ringing # {}
      BY DEF NobodyWaitsAlone, Called
    <2>1. hooks = {} /\ \A g \in Handler : run[g].pc = "idle"
      BY DEF Quiet, Is
    <2>2. ~Doomed
      BY <2>1 DEF Doomed, Called
    <2>3. Moving
      BY <2>2 DEF WaitInv, Regular
    <2>4. \A g \in Handler : ~Brings(run[g])
      BY <2>1 DEF Brings
    <2>5. \A l \in Leg : ~Unanswered(l)
      BY <2>1 DEF Unanswered, Unanswering
    <2>6. PICK l \in Leg : Live(l)
      BY <2>3, <2>4, <2>5 DEF Moving, Pending
    <2> QED BY <2>6 DEF Live, In, Ringing
  <1> QED BY <1>1, <1>2, <1>3, RingHolds, PTL DEF RingSpec
=============================================================================
