------------------------- MODULE NetworkCallsProofs -------------------------
(***************************************************************************)
(* Proofs about HeldSession, for calls nested to any depth, and about the  *)
(* methods of NetworkCalls that use it, with the bridges of NetworkBridges. *)
(***************************************************************************)
EXTENDS NetworkBridges, FiniteSetTheorems, SequenceTheorems, TLAPS

HeldInv == HeldTypeOK /\ SessionHeld /\ FailureIsSticky

LEMMA HeldInvInit == HeldInit => HeldInv
<1> SUFFICES ASSUME HeldInit PROVE HeldInv
  OBVIOUS
<1> USE DEF HeldInit
<1>1. HeldTypeOK
  BY DEF HeldTypeOK
<1>2. SessionHeld
  BY DEF SessionHeld
<1>3. FailureIsSticky
  BY DEF FailureIsSticky
<1> QED
  BY <1>1, <1>2, <1>3 DEF HeldInv

LEMMA HeldInvStep == HeldInv /\ [HeldNext]_heldVars => HeldInv'
<1> SUFFICES ASSUME HeldInv, [HeldNext]_heldVars PROVE HeldInv'
  OBVIOUS
<1> USE MaxLostAssumption DEF MaxLostAssumption, HeldInv, HeldTypeOK, SessionHeld, FailureIsSticky
<1>1. CASE EnterOpens \/ EnterFails \/ EnterHeld
  <2>1. CASE EnterOpens
    BY <2>1 DEF EnterOpens
  <2>2. CASE EnterFails
    BY <2>2 DEF EnterFails, OpenFails, CreateFails
  <2>3. CASE EnterHeld
    BY <2>3 DEF EnterHeld
  <2> QED
    BY <1>1, <2>1, <2>2, <2>3
<1>2. CASE Leave
  BY <1>2 DEF Leave
<1>3. CASE Breaks
  BY <1>3 DEF Breaks
<1>4. CASE UNCHANGED heldVars
  BY <1>4 DEF heldVars
<1> QED
  BY <1>1, <1>2, <1>3, <1>4 DEF HeldNext

(* A held session is open exactly inside a decorated call until an __enter__
   raises; after that the counter is ahead of the depth by as many calls as
   raised, at any nesting depth. *)
THEOREM HeldCorrect == HeldSpec => []HeldInv
  BY HeldInvInit, HeldInvStep, PTL DEF HeldSpec

(* After an __enter__ that raised, whether in creating or in opening the session,
   the session that is held then or later is never closed (network.py:36, 43). *)
THEOREM NeverClosedAgain == HeldSpec => NeverClosed
<1>1. HeldInv /\ [HeldNext]_heldVars => [lost > 0 /\ s # "none" => s' # "none"]_heldVars
  <2> SUFFICES ASSUME HeldInv, HeldNext, lost > 0, s # "none" PROVE s' # "none"
    BY DEF heldVars
  <2>1. CASE EnterOpens \/ EnterFails \/ EnterHeld \/ Breaks
    BY <2>1 DEF EnterOpens, EnterFails, OpenFails, CreateFails, EnterHeld, Breaks
  <2>2. CASE Leave
    <3>1. depth \in Nat /\ lost \in Nat /\ c = depth + lost /\ depth > 0
      BY <2>2 DEF Leave, HeldInv, HeldTypeOK, FailureIsSticky
    <3>2. c # 1
      BY <3>1
    <3> QED
      BY <2>2, <3>2 DEF Leave
  <2> QED
    BY <2>1, <2>2 DEF HeldNext
<1> QED
  BY <1>1, HeldCorrect, PTL DEF HeldSpec, NeverClosed

LEMMA StepIsHeldStep == [Next]_vars => [HeldNext]_heldVars
<1> SUFFICES ASSUME [Next]_vars PROVE [HeldNext]_heldVars
  OBVIOUS
<1>1. ASSUME NEW op \in Public, Call(op) PROVE UNCHANGED heldVars
  BY <1>1 DEF Call
<1>2. CASE Entered \/ EnterRaises
  BY <1>2 DEF Entered, EnterRaises, HeldNext
<1>3. CASE Nested \/ RunDone \/ RunBreaks \/ RunUnanswered \/ RunRaises \/ ParseRaises
  BY <1>3 DEF Nested, RunDone, RunBreaks, RunUnanswered, RunRaises, ParseRaises, HeldNext
<1>4. CASE Return \/ Propagate
  BY <1>4 DEF Return, Propagate, HeldNext
<1>5. CASE UNCHANGED vars
  BY <1>5 DEF vars
<1> QED
  BY <1>1, <1>2, <1>3, <1>4, <1>5 DEF Next

(* The methods of Network use the session as HeldSession describes. *)
THEOREM MethodsUseHeldSession == Spec => UsesHeldSession
<1>1. Init => HeldInit
  BY DEF Init
<1> QED
  BY <1>1, StepIsHeldStep, PTL DEF Spec, UsesHeldSession, HeldSpec

(* As long as no __enter__ raised, a session is held exactly inside a
   decorated call, and the counter is the nesting depth. *)
THEOREM SessionIsHeld == Spec => []SessionHeld
  BY MethodsUseHeldSession, HeldCorrect, PTL DEF UsesHeldSession, HeldInv

----------------------------------------------------------------------------
(* Types: the stack holds methods of Network, with calls they make.         *)

\* Nothing but a caller of Network calls add_bridge and delete_bridge.
Changers == {"add_bridge", "delete_bridge"}
Callees == (Ops \ Changers) \cup {"run"}

Frames == [op : Ops, next : Seq(Callees)]

StackInv ==
    /\ stack \in Seq(Frames)
    /\ pc \in {"idle", "enter", "body", "raise"}
    /\ pc = "idle" <=> stack = <<>>
    /\ sessions \in Nat

LEMMA InfoBodyType == InfoBody \subseteq Seq(Callees)
<1>1. InfoFull \in Seq(Callees) /\ Len(InfoFull) = 6
  BY DEF InfoFull, Callees, Changers, Ops, Queries, BridgeOps, LookupOps
<1>2. ASSUME NEW n \in {2, 3, 5, 6} PROVE SubSeq(InfoFull, 1, n) \in Seq(Callees)
  <2>1. 1 \in Int /\ n \in Int /\ 1 .. n \subseteq 1 .. 6
    OBVIOUS
  <2>2. \A i \in 1 .. 6 : InfoFull[i] \in Callees
    BY <1>1, ElementOfSeq
  <2>3. \A i \in 1 .. n : InfoFull[i] \in Callees
    BY <2>1, <2>2
  <2> QED
    BY <2>1, <2>3, SubSeqProperties
<1> QED
  BY <1>2 DEF InfoBody

LEMMA BodyType ==
    ASSUME NEW op \in Ops
    PROVE  Body(op) \subseteq Seq(Callees)
<1>1. CASE op \in HostnameOps
  <2>1. Body(op) = HostnameBody(op)
    BY <1>1 DEF Body, HostnameOps, BridgeOps, LookupOps, PlainOps, Queries
  <2>2. HostnameBody(op) \subseteq
           {<<>>, <<"run">>, <<"_get_hostname_handler", "handler.get_hostname">>,
            <<"_get_hostname_handler", "handler.set_hostname">>}
    BY <1>1 DEF HostnameOps, HostnameBody
  <2>3. /\ "run" \in Callees /\ "_get_hostname_handler" \in Callees
        /\ "handler.get_hostname" \in Callees /\ "handler.set_hostname" \in Callees
    BY DEF Callees, Changers, Ops, HostnameOps
  <2>4. /\ <<>> \in Seq(Callees)
        /\ <<"run">> \in Seq(Callees)
        /\ <<"_get_hostname_handler", "handler.get_hostname">> \in Seq(Callees)
        /\ <<"_get_hostname_handler", "handler.set_hostname">> \in Seq(Callees)
    BY <2>3
  <2> QED
    BY <2>1, <2>2, <2>4
<1>2. CASE op \in BridgeOps
  <2>1. Body(op) = BridgeBody(op)
    BY <1>2 DEF Body, HostnameOps, BridgeOps, LookupOps, PlainOps, Queries
  <2>2. BridgeBody(op) \subseteq {<<"_cmd">>, <<"list_bridges">>, <<"_cmd", "_cmd">>}
    BY <1>2 DEF BridgeOps, BridgeBody
  <2>3. "_cmd" \in Callees /\ "list_bridges" \in Callees
    BY DEF Callees, Changers, Ops, BridgeOps
  <2>4. {<<"_cmd">>, <<"list_bridges">>, <<"_cmd", "_cmd">>} \subseteq Seq(Callees)
    BY <2>3
  <2> QED
    BY <2>1, <2>2, <2>4
<1>3. CASE op \in LookupOps
  <2>1. Body(op) = LookupBody(op)
    BY <1>3 DEF Body, HostnameOps, BridgeOps, LookupOps, PlainOps, Queries
  <2> DEFINE mgmt == <<"find_ips", "find_default_gw", "find_ip_by_default_gw",
                       "find_int_by_ip">>
  <2>2. LookupBody(op) \subseteq
           {<<>>, <<"get_bridge">>, <<"all_interfaces">>, <<"all_interfaces", "_cmd">>, mgmt}
    BY <1>3 DEF LookupOps, LookupBody
  <2>3. /\ "_cmd" \in Callees /\ "get_bridge" \in Callees /\ "all_interfaces" \in Callees
        /\ "find_ips" \in Callees /\ "find_default_gw" \in Callees
        /\ "find_ip_by_default_gw" \in Callees /\ "find_int_by_ip" \in Callees
    BY DEF Callees, Changers, Ops, BridgeOps, Queries, LookupOps
  <2>4. mgmt \in Seq(Callees)
    BY <2>3
  <2> HIDE DEF mgmt
  <2>5. {<<>>, <<"get_bridge">>, <<"all_interfaces">>, <<"all_interfaces", "_cmd">>}
           \subseteq Seq(Callees)
    BY <2>3
  <2> QED
    BY <2>1, <2>2, <2>4, <2>5
<1>4. CASE op \in PlainOps
  <2>1. Body(op) = PlainBody(op)
    BY <1>4 DEF Body, HostnameOps, BridgeOps, LookupOps, PlainOps, Queries
  <2>2. "_cmd" \in Callees /\ "find_int_by_ip" \in Callees /\ "find_mac_by_int" \in Callees
    BY DEF Callees, Changers, Ops, Queries, LookupOps
  <2>3. PlainBody(op) \subseteq
           {<<"_cmd">>, <<"_cmd", "_cmd">>, <<"find_int_by_ip", "find_mac_by_int">>}
    BY <1>4 DEF PlainOps, PlainBody
  <2>4. {<<"_cmd">>, <<"_cmd", "_cmd">>, <<"find_int_by_ip", "find_mac_by_int">>}
           \subseteq Seq(Callees)
    BY <2>2
  <2> QED
    BY <2>1, <2>3, <2>4
<1>5. CASE op \in Queries
  <2>1. Body(op) = {<<"_cmd">>}
    BY <1>5 DEF Body, HostnameOps, BridgeOps, LookupOps, PlainOps, Queries
  <2>2. "_cmd" \in Callees
    BY DEF Callees, Changers, Ops
  <2> QED
    BY <2>1, <2>2
<1>6. CASE op = "_cmd"
  <2>1. Body(op) = {<<"run">>}
    BY <1>6 DEF Body, HostnameOps, BridgeOps, LookupOps, PlainOps, Queries
  <2>2. "run" \in Callees
    BY DEF Callees
  <2> QED
    BY <2>1, <2>2
<1>7. CASE op = "get_info"
  <2>1. Body(op) = InfoBody
    BY <1>7 DEF Body, HostnameOps, BridgeOps, LookupOps, PlainOps, Queries
  <2> QED
    BY <2>1, InfoBodyType
<1> QED
  BY <1>1, <1>2, <1>3, <1>4, <1>5, <1>6, <1>7 DEF Ops

\* The innermost method and the others.
LEMMA TopType ==
    ASSUME StackInv, pc # "idle"
    PROVE  /\ Top \in Frames
           /\ Tail(stack) \in Seq(Frames)
  BY DEF StackInv, Top

LEMMA UnwindKeeps ==
    ASSUME StackInv, pc # "idle", NEW to \in {"body", "raise"}, Unwind(to),
           sessions' = sessions
    PROVE  StackInv'
  BY TopType DEF StackInv, Unwind

\* A frame pushed on the rest of the stack, and a method entered or not.
LEMMA CallKeeps ==
    ASSUME StackInv, NEW op \in Public, Call(op)
    PROVE  StackInv'
<1>1. PICK next \in Body(op) : Push(op, next)
  BY DEF Call
<1>2. [op |-> op, next |-> next] \in Frames
  BY <1>1, BodyType DEF Frames, Public
<1> DEFINE frame == [op |-> op, next |-> next]
<1>3. stack' = <<frame>> \o stack /\ pc' \in {"enter", "body"} /\ sessions' = 0
  BY <1>1 DEF Push, Call
<1> HIDE DEF frame
<1>4. stack' \in Seq(Frames) /\ stack' # <<>>
  BY <1>2, <1>3 DEF StackInv, frame
<1> QED
  BY <1>3, <1>4 DEF StackInv

LEMMA NestedKeeps ==
    ASSUME StackInv, Nested
    PROVE  StackInv'
<1> DEFINE callee == Head(Top.next)
           rest == [Top EXCEPT !.next = Tail(@)]
<1>1. Top \in Frames /\ Tail(stack) \in Seq(Frames)
  BY TopType DEF Nested
<1>2. Top.next \in Seq(Callees) /\ Top.next # <<>> /\ Top.op \in Ops
  BY <1>1 DEF Frames, Nested
<1>3. callee \in Ops /\ Tail(Top.next) \in Seq(Callees)
  BY <1>2 DEF Nested, Callees
<1>4. rest \in Frames
  BY <1>1, <1>3 DEF Frames
<1>5. PICK next \in Body(callee) :
          /\ stack' = <<[op |-> callee, next |-> next], rest>> \o Tail(stack)
          /\ pc' \in {"enter", "body"}
  BY DEF Nested
<1>6. [op |-> callee, next |-> next] \in Frames
  BY <1>3, <1>5, BodyType DEF Frames
<1> DEFINE frame == [op |-> callee, next |-> next]
<1>7. stack' = <<frame, rest>> \o Tail(stack) /\ frame \in Frames
  BY <1>5, <1>6
<1> HIDE DEF frame, rest
<1>8. stack' \in Seq(Frames) /\ stack' # <<>>
  BY <1>1, <1>4, <1>7
<1>9. sessions' = sessions
  BY DEF Nested
<1> QED
  BY <1>5, <1>8, <1>9 DEF StackInv

\* The steps that end a command and go on with what its method calls next.
LEMMA RunIs ==
    ASSUME RunDone \/ RunUnanswered
    PROVE  Runs /\ Advance /\ pc' \in {"body", "raise"} /\ sessions' = sessions
  BY DEF RunDone, RunUnanswered

LEMMA RunDoneKeeps ==
    ASSUME StackInv, RunDone \/ RunUnanswered
    PROVE  StackInv'
<1> DEFINE rest == [Top EXCEPT !.next = Tail(@)]
<1>1. Top \in Frames /\ Tail(stack) \in Seq(Frames)
  BY TopType, RunIs DEF Runs
<1>2. Tail(Top.next) \in Seq(Callees)
  BY <1>1, RunIs DEF Frames, Runs
<1>3. rest \in Frames
  BY <1>1, <1>2 DEF Frames
<1>4. /\ stack' = <<rest>> \o Tail(stack)
      /\ pc' \in {"body", "raise"}
      /\ sessions' = sessions
  BY RunIs DEF Advance
<1> HIDE DEF rest
<1>5. stack' \in Seq(Frames) /\ stack' # <<>>
  BY <1>1, <1>3, <1>4
<1> QED
  BY <1>4, <1>5 DEF StackInv

LEMMA StackStep == StackInv /\ [Next]_vars => StackInv'
<1> SUFFICES ASSUME StackInv, [Next]_vars PROVE StackInv'
  OBVIOUS
<1>1. ASSUME NEW op \in Public, Call(op) PROVE StackInv'
  BY <1>1, CallKeeps
<1>2. CASE Entered
  BY <1>2 DEF Entered, StackInv
<1>3. CASE EnterRaises
  BY <1>3, UnwindKeeps DEF EnterRaises
<1>4. CASE Nested
  BY <1>4, NestedKeeps
<1>5. CASE RunDone \/ RunUnanswered
  BY <1>5, RunDoneKeeps
<1>6. CASE RunBreaks \/ RunRaises \/ ParseRaises
  BY <1>6 DEF RunBreaks, RunRaises, ParseRaises, Runs, StackInv
<1>7. CASE Return
  BY <1>7, UnwindKeeps DEF Return
<1>8. CASE Propagate
  <2>1. pc # "idle" /\ sessions' = sessions /\ \E to \in {"body", "raise"} : Unwind(to)
    BY <1>8 DEF Propagate
  <2> QED
    BY <2>1, UnwindKeeps
<1>9. CASE UNCHANGED vars
  BY <1>9 DEF vars, StackInv
<1> QED
  BY <1>1, <1>2, <1>3, <1>4, <1>5, <1>6, <1>7, <1>8, <1>9 DEF Next

(* Every variable keeps its type: only methods of Network are on the stack, and
   it is empty exactly between calls. *)
THEOREM TypeCorrect == Spec => []TypeOK
<1>1. Init => StackInv
  BY DEF Init, StackInv
<1>2. HeldInv /\ StackInv => TypeOK
  <2> SUFFICES ASSUME HeldInv, StackInv PROVE TypeOK
    OBVIOUS
  <2>1. \A i \in 1 .. Len(stack) : stack[i] \in Frames
    BY DEF StackInv
  <2>2. \A i \in 1 .. Len(stack) : stack[i].op \in Ops
    BY <2>1 DEF Frames
  <2>3. /\ pc \in {"idle", "enter", "body", "raise"}
        /\ pc = "idle" <=> stack = <<>>
        /\ sessions \in Nat
        /\ HeldTypeOK
    BY DEF StackInv, HeldInv
  <2> QED
    BY <2>2, <2>3 DEF TypeOK
<1>3. Spec => []HeldInv
  BY MethodsUseHeldSession, HeldCorrect, PTL DEF UsesHeldSession
<1> QED
  BY <1>1, <1>2, <1>3, StackStep, PTL DEF Spec

----------------------------------------------------------------------------
(* What each step does to the frames of the stack, counted from the innermost. *)

LEMMA CallFrames ==
    ASSUME StackInv, NEW op \in Public, Call(op)
    PROVE  /\ Len(stack') = 1
           /\ stack'[1].op = op /\ stack'[1].next \in Body(op)
           /\ pc' = IF Held(op) THEN "enter" ELSE "body"
<1>1. PICK next \in Body(op) : Push(op, next)
  BY DEF Call
<1>2. stack = <<>>
  BY DEF Call, StackInv
<1>3. stack' = <<[op |-> op, next |-> next]>>
  BY <1>1, <1>2 DEF Push
<1> QED
  BY <1>1, <1>3 DEF Push

LEMMA NestedFrames ==
    ASSUME StackInv, Nested
    PROVE  LET callee == Head(stack[1].next)
           IN  /\ callee \in Ops \ Changers
               /\ Len(stack) >= 1
               /\ Len(stack') = Len(stack) + 1
               /\ stack'[1].op = callee /\ stack'[1].next \in Body(callee)
               /\ stack'[2].op = stack[1].op /\ stack'[2].next = Tail(stack[1].next)
               /\ \A i \in 2 .. Len(stack) : stack'[i + 1] = stack[i]
               /\ pc' = IF Held(callee) THEN "enter" ELSE "body"
<1> DEFINE callee == Head(Top.next)
           rest == [Top EXCEPT !.next = Tail(@)]
<1>1. /\ stack \in Seq(Frames) /\ stack # <<>> /\ Top = stack[1]
      /\ Top \in Frames
  BY TopType DEF Nested, StackInv, Top
<1>2. Top.next \in Seq(Callees) /\ Top.next # <<>>
  BY <1>1 DEF Frames, Nested
<1>3. callee \in Ops \ Changers
  BY <1>2 DEF Nested, Callees
<1>4. rest.op = Top.op /\ rest.next = Tail(Top.next)
  BY <1>1 DEF Frames
<1>5. PICK next \in Body(callee) :
          /\ stack' = <<[op |-> callee, next |-> next], rest>> \o Tail(stack)
          /\ pc' = IF Held(callee) THEN "enter" ELSE "body"
  BY DEF Nested
<1> DEFINE frame == [op |-> callee, next |-> next]
<1>6. frame.op = callee /\ frame.next = next
  OBVIOUS
<1>7. stack' = <<frame, rest>> \o Tail(stack)
  BY <1>5
<1> HIDE DEF callee, rest, frame
<1>8. /\ Len(stack) >= 1 /\ Len(stack') = Len(stack) + 1
      /\ stack'[1] = frame /\ stack'[2] = rest
      /\ \A i \in 2 .. Len(stack) : stack'[i + 1] = stack[i]
  BY <1>1, <1>7
<1>9. callee = Head(stack[1].next)
  BY <1>1 DEF callee
<1> QED
  BY <1>1, <1>3, <1>4, <1>5, <1>6, <1>8, <1>9

LEMMA RunDoneFrames ==
    ASSUME StackInv, RunDone \/ RunUnanswered
    PROVE  /\ Len(stack) >= 1
           /\ Len(stack') = Len(stack)
           /\ stack'[1].op = stack[1].op /\ stack'[1].next = Tail(stack[1].next)
           /\ \A i \in 2 .. Len(stack) : stack'[i] = stack[i]
<1> DEFINE rest == [Top EXCEPT !.next = Tail(@)]
<1>1. /\ stack \in Seq(Frames) /\ stack # <<>> /\ Top = stack[1]
      /\ Top \in Frames
  BY TopType, RunIs DEF Runs, StackInv, Top
<1>2. rest.op = Top.op /\ rest.next = Tail(Top.next)
  BY <1>1 DEF Frames
<1>3. stack' = <<rest>> \o Tail(stack)
  BY RunIs DEF Advance
<1> HIDE DEF rest
<1>4. /\ Len(stack) >= 1 /\ Len(stack') = Len(stack)
      /\ stack'[1] = rest
      /\ \A i \in 2 .. Len(stack) : stack'[i] = stack[i]
  BY <1>1, <1>3
<1> QED
  BY <1>1, <1>2, <1>4

LEMMA UnwindFrames ==
    ASSUME StackInv, pc # "idle", NEW to, Unwind(to)
    PROVE  /\ Len(stack) >= 1
           /\ Len(stack') = Len(stack) - 1
           /\ \A i \in 1 .. Len(stack') : stack'[i] = stack[i + 1]
           /\ pc' = IF Len(stack') = 0 THEN "idle" ELSE to
<1>1. stack \in Seq(Frames) /\ stack # <<>> /\ stack' = Tail(stack)
  BY DEF StackInv, Unwind
<1>2. /\ Len(stack) >= 1
      /\ Len(stack') = Len(stack) - 1
      /\ \A i \in 1 .. Len(stack') : stack'[i] = stack[i + 1]
  BY <1>1
<1>3. stack' \in Seq(Frames)
  BY <1>1
<1>4. stack' = <<>> <=> Len(stack') = 0
  BY <1>3, EmptySeq
<1> QED
  BY <1>1, <1>2, <1>4 DEF Unwind

----------------------------------------------------------------------------
(* Every decorated method leaves the session as often as it entered it.     *)

\* The places of the decorated methods on a stack.
HeldAt(st) == {i \in 1 .. Len(st) : Held(st[i].op)}

\* A method about to enter is a decorated one, the outermost without session.
EnterInv ==
    /\ pc = "enter" => Held(stack[1].op)
    /\ pc = "enter" /\ Len(stack) = 1 => sessions = 0

CallsInv == HeldInv /\ StackInv /\ EnterInv /\ LeavesMatchEnters

LEMMA HeldAtFinite ==
    ASSUME NEW st \in Seq(Frames)
    PROVE  IsFiniteSet(HeldAt(st)) /\ Cardinality(HeldAt(st)) \in Nat
<1>1. HeldAt(st) \in SUBSET (1 .. Len(st)) /\ 1 \in Int /\ Len(st) \in Int
  BY DEF HeldAt
<1>2. IsFiniteSet(HeldAt(st))
  BY <1>1, FS_Interval, FS_Subset
<1> QED
  BY <1>2, FS_CardinalityType

(* A frame more, innermost: the places of the others move by one. *)
LEMMA HeldAtPushed ==
    ASSUME NEW st \in Seq(Frames), NEW st1 \in Seq(Frames),
           Len(st1) = Len(st) + 1,
           \A i \in 1 .. Len(st) : st1[i + 1].op = st[i].op
    PROVE  /\ Cardinality(HeldAt(st1) \ {1}) = Cardinality(HeldAt(st))
           /\ Cardinality(HeldAt(st1)) =
                 Cardinality(HeldAt(st)) + (IF Held(st1[1].op) THEN 1 ELSE 0)
<1> DEFINE f == [i \in HeldAt(st) |-> i + 1]
<1>1. /\ \A i \in HeldAt(st) : i \in Nat /\ i >= 1 /\ i <= Len(st)
      /\ Len(st) \in Nat
  BY DEF HeldAt
<1>2. f \in [HeldAt(st) -> HeldAt(st1) \ {1}]
  BY <1>1 DEF HeldAt
<1>3. \A x, y \in HeldAt(st) : f[x] = f[y] => x = y
  BY <1>1
<1>4. ASSUME NEW j \in HeldAt(st1) \ {1} PROVE \E i \in HeldAt(st) : f[i] = j
  <2>1. j \in Nat /\ j >= 2 /\ j <= Len(st) + 1 /\ Held(st1[j].op)
    BY <1>1 DEF HeldAt
  <2>2. j - 1 \in 1 .. Len(st) /\ st1[(j - 1) + 1] = st1[j]
    BY <1>1, <2>1
  <2>3. st[j - 1].op = st1[j].op
    BY <2>2
  <2>4. j - 1 \in HeldAt(st)
    BY <2>1, <2>2, <2>3 DEF HeldAt
  <2> QED
    BY <2>1, <2>4
<1> HIDE DEF f
<1>5. ExistsBijection(HeldAt(st), HeldAt(st1) \ {1})
  <2>1. f \in Injection(HeldAt(st), HeldAt(st1) \ {1})
    BY <1>2, <1>3 DEF Injection, IsInjective
  <2>2. f \in Surjection(HeldAt(st), HeldAt(st1) \ {1})
    BY <1>2, <1>4 DEF Surjection
  <2> QED
    BY <2>1, <2>2 DEF ExistsBijection, Bijection
<1>6. Cardinality(HeldAt(st1) \ {1}) = Cardinality(HeldAt(st))
  BY <1>5, HeldAtFinite, FS_Bijection
<1>7. 1 \in HeldAt(st1) <=> Held(st1[1].op)
  BY <1>1 DEF HeldAt
<1>8. Cardinality(HeldAt(st1) \ {1}) =
          IF 1 \in HeldAt(st1) THEN Cardinality(HeldAt(st1)) - 1
                              ELSE Cardinality(HeldAt(st1))
  BY HeldAtFinite, FS_RemoveElement
<1> QED
  BY <1>6, <1>7, <1>8, HeldAtFinite

LEMMA ActiveIs ==
    Active = IF pc = "enter" THEN HeldAt(stack) \ {1} ELSE HeldAt(stack)
  BY DEF Active, HeldAt

LEMMA ActiveIsNext ==
    Active' = IF pc' = "enter" THEN HeldAt(stack') \ {1} ELSE HeldAt(stack')
  BY DEF Active, HeldAt

\* Only the operations of the methods decide which places are decorated ones.
LEMMA HeldAtSame ==
    ASSUME NEW st \in Seq(Frames), NEW other \in Seq(Frames), Len(other) = Len(st),
           \A i \in 1 .. Len(st) : other[i].op = st[i].op
    PROVE  HeldAt(other) = HeldAt(st)
  BY DEF HeldAt

(* A method that is left was counted if it is decorated, and the ones around it
   are counted as before. *)
LEMMA UnwindDepth ==
    ASSUME CallsInv, StackInv', pc \in {"enter", "body", "raise"},
           NEW to \in {"body", "raise"}, Unwind(to)
    PROVE  Cardinality(Active') =
              IF pc # "enter" /\ Held(stack[1].op) THEN depth - 1 ELSE depth
<1>1. /\ stack \in Seq(Frames) /\ stack' \in Seq(Frames)
      /\ Len(stack) = Len(stack') + 1
      /\ \A i \in 1 .. Len(stack') : stack[i + 1].op = stack'[i].op
      /\ pc' # "enter"
  BY UnwindFrames DEF CallsInv, StackInv
<1>2. /\ Cardinality(HeldAt(stack) \ {1}) = Cardinality(HeldAt(stack'))
      /\ Cardinality(HeldAt(stack)) =
            Cardinality(HeldAt(stack')) + (IF Held(stack[1].op) THEN 1 ELSE 0)
  BY <1>1, HeldAtPushed
<1>3. Cardinality(HeldAt(stack')) \in Nat
  BY <1>1, HeldAtFinite
<1>4. Cardinality(Active') = Cardinality(HeldAt(stack'))
  BY <1>1, ActiveIsNext
<1>5. depth = IF pc = "enter" THEN Cardinality(HeldAt(stack) \ {1})
                              ELSE Cardinality(HeldAt(stack))
  BY ActiveIs DEF CallsInv, LeavesMatchEnters
<1> QED
  BY <1>2, <1>3, <1>4, <1>5

LEMMA DepthStep ==
    ASSUME CallsInv, StackInv', [Next]_vars
    PROVE  depth' = Cardinality(Active')
<1> USE DEF CallsInv
<1>1. depth = Cardinality(Active) /\ depth \in Nat
  BY DEF LeavesMatchEnters, HeldInv, HeldTypeOK
<1>2. ASSUME NEW op \in Public, Call(op) PROVE depth' = Cardinality(Active')
  <2>1. stack = <<>> /\ depth' = depth /\ pc = "idle"
    BY <1>2 DEF Call, StackInv, heldVars
  <2>2. /\ Len(stack) = 0 /\ Len(stack') = 1
        /\ stack'[1].op = op /\ pc' = IF Held(op) THEN "enter" ELSE "body"
    BY <1>2, <2>1, CallFrames
  <2>3. Active = {} /\ Active' = {}
    BY <2>1, <2>2 DEF Active
  <2> QED
    BY <1>1, <2>1, <2>3
<1>3. CASE Entered
  <2>1. /\ stack' = stack /\ pc = "enter" /\ pc' = "body" /\ depth' = depth + 1
        /\ Held(stack[1].op)
    BY <1>3 DEF Entered, EnterOpens, EnterHeld, EnterInv
  <2>2. stack \in Seq(Frames) /\ stack # <<>>
    BY <2>1 DEF StackInv
  <2>3. 1 \in HeldAt(stack)
    BY <2>1, <2>2 DEF HeldAt
  <2>4. IsFiniteSet(HeldAt(stack)) /\ Cardinality(HeldAt(stack)) \in Nat
    BY <2>2, HeldAtFinite
  <2>5. Cardinality(HeldAt(stack) \ {1}) = Cardinality(HeldAt(stack)) - 1
    BY <2>3, <2>4, FS_RemoveElement
  <2>6. Active = HeldAt(stack) \ {1} /\ Active' = HeldAt(stack)
    BY <2>1, ActiveIs, ActiveIsNext
  <2> QED
    BY <1>1, <2>1, <2>4, <2>5, <2>6
<1>4. CASE EnterRaises
  <2>1. Unwind("raise") /\ pc = "enter" /\ depth' = depth
    BY <1>4 DEF EnterRaises, EnterFails, OpenFails, CreateFails
  <2> QED
    BY <2>1, UnwindDepth
<1>5. CASE Nested
  <2>1. /\ stack \in Seq(Frames) /\ stack' \in Seq(Frames)
        /\ pc = "body" /\ depth' = depth
    BY <1>5 DEF Nested, StackInv, heldVars
  <2>2. /\ Len(stack) >= 1 /\ Len(stack) \in Nat
        /\ Len(stack') = Len(stack) + 1
        /\ stack'[2].op = stack[1].op
        /\ \A i \in 2 .. Len(stack) : stack'[i + 1] = stack[i]
        /\ pc' = IF Held(stack'[1].op) THEN "enter" ELSE "body"
    BY <1>5, <2>1, NestedFrames
  <2>3. \A i \in 1 .. Len(stack) : stack'[i + 1].op = stack[i].op
    <3>1. ASSUME NEW i \in 1 .. Len(stack) PROVE stack'[i + 1].op = stack[i].op
      <4>1. CASE i = 1
        BY <2>2, <4>1
      <4>2. CASE i # 1
        BY <2>2, <4>2
      <4> QED
        BY <4>1, <4>2
    <3> QED
      BY <3>1
  <2>4. /\ Cardinality(HeldAt(stack') \ {1}) = Cardinality(HeldAt(stack))
        /\ Cardinality(HeldAt(stack')) =
              Cardinality(HeldAt(stack)) + (IF Held(stack'[1].op) THEN 1 ELSE 0)
    BY <2>1, <2>2, <2>3, HeldAtPushed
  <2>5. Cardinality(HeldAt(stack)) \in Nat
    BY <2>1, HeldAtFinite
  <2>6. Active = HeldAt(stack)
    BY <2>1, ActiveIs
  <2>7. Cardinality(Active') = Cardinality(HeldAt(stack))
    BY <2>2, <2>4, <2>5, ActiveIsNext
  <2> QED
    BY <1>1, <2>1, <2>6, <2>7
<1>6. CASE RunDone \/ RunUnanswered
  <2>1. /\ stack \in Seq(Frames) /\ stack' \in Seq(Frames)
        /\ pc = "body" /\ pc' # "enter" /\ depth' = depth
    BY <1>6, RunIs DEF RunDone, RunUnanswered, Breaks, Runs, StackInv, heldVars
  <2>2. /\ Len(stack') = Len(stack) /\ stack'[1].op = stack[1].op
        /\ \A i \in 2 .. Len(stack) : stack'[i] = stack[i]
    BY <1>6, RunDoneFrames
  <2>3. \A i \in 1 .. Len(stack) : stack'[i].op = stack[i].op
    BY <2>1, <2>2
  <2>4. HeldAt(stack') = HeldAt(stack)
    BY <2>1, <2>2, <2>3, HeldAtSame
  <2> QED
    BY <1>1, <2>1, <2>4, ActiveIs, ActiveIsNext
<1>7. CASE RunBreaks \/ RunRaises \/ ParseRaises
  <2>1. stack' = stack /\ pc = "body" /\ pc' = "raise" /\ depth' = depth
    BY <1>7 DEF RunBreaks, RunRaises, ParseRaises, Runs, Breaks, heldVars
  <2> QED
    BY <1>1, <2>1, ActiveIs, ActiveIsNext
<1>8. CASE Return \/ Propagate
  <2>1. pc \in {"body", "raise"} /\ \E to \in {"body", "raise"} : Unwind(to)
    BY <1>8 DEF Return, Propagate
  <2>2. Top = stack[1]
    BY DEF Top
  <2>3. depth' = IF Held(stack[1].op) THEN depth - 1 ELSE depth
    BY <1>8, <2>2 DEF Return, Propagate, Leave, heldVars
  <2> QED
    BY <2>1, <2>3, UnwindDepth
<1>9. CASE UNCHANGED vars
  BY <1>1, <1>9, ActiveIs, ActiveIsNext DEF vars, heldVars
<1> QED
  BY <1>2, <1>3, <1>4, <1>5, <1>6, <1>7, <1>8, <1>9 DEF Next

LEMMA EnterStep ==
    ASSUME CallsInv, StackInv', [Next]_vars
    PROVE  EnterInv'
<1> USE DEF CallsInv, EnterInv
<1>1. ASSUME NEW op \in Public, Call(op) PROVE EnterInv'
  <2>1. stack'[1].op = op /\ pc' = IF Held(op) THEN "enter" ELSE "body"
    BY <1>1, CallFrames
  <2>2. sessions' = 0
    BY <1>1 DEF Call
  <2> QED
    BY <2>1, <2>2
<1>2. CASE Nested
  <2>1. /\ Len(stack) \in Nat /\ Len(stack) >= 1 /\ Len(stack') = Len(stack) + 1
        /\ pc' = IF Held(stack'[1].op) THEN "enter" ELSE "body"
    BY <1>2, NestedFrames DEF StackInv
  <2> QED
    BY <2>1
<1>3. CASE Entered \/ EnterRaises
  BY <1>3 DEF Entered, EnterRaises, Unwind
<1>4. CASE RunDone \/ RunBreaks \/ RunUnanswered \/ RunRaises \/ ParseRaises
  BY <1>4 DEF RunDone, RunBreaks, RunUnanswered, RunRaises, ParseRaises
<1>5. CASE Return \/ Propagate
  BY <1>5 DEF Return, Propagate, Unwind
<1>6. CASE UNCHANGED vars
  BY <1>6 DEF vars
<1> QED
  BY <1>1, <1>2, <1>3, <1>4, <1>5, <1>6 DEF Next

(* A session is opened when none is held: a decorated outermost method has not
   entered then, so the session is the first of the call. *)
LEMMA OpensFirst ==
    ASSUME CallsInv, pc = "enter", EnterOpens, Held(stack[Len(stack)].op)
    PROVE  sessions = 0
<1> USE DEF CallsInv
<1>1. s = "none" /\ depth = 0
  BY DEF EnterOpens, HeldInv, HeldTypeOK, SessionHeld, FailureIsSticky
<1>2. stack \in Seq(Frames) /\ stack # <<>>
  BY DEF StackInv
<1>3. Len(stack) \in Nat /\ Len(stack) >= 1
  BY <1>2
<1>4. Cardinality(HeldAt(stack) \ {1}) = 0
  BY <1>1, ActiveIs DEF LeavesMatchEnters
<1>5. IsFiniteSet(HeldAt(stack) \ {1})
  BY <1>2, HeldAtFinite, FS_RemoveElement
<1>6. HeldAt(stack) \ {1} = {}
  BY <1>4, <1>5, FS_EmptySet
<1>7. Len(stack) \in HeldAt(stack)
  BY <1>3 DEF HeldAt
<1>8. Len(stack) = 1
  BY <1>6, <1>7
<1> QED
  BY <1>8 DEF EnterInv

LEMMA SessionsStep ==
    ASSUME CallsInv, StackInv', [Next]_vars
    PROVE  (stack # <<>> /\ Held(stack[Len(stack)].op) => sessions <= 1)'
<1> USE DEF CallsInv
<1> DEFINE Once == stack # <<>> /\ Held(stack[Len(stack)].op) => sessions <= 1
<1>1. Once /\ stack \in Seq(Frames)
  BY DEF LeavesMatchEnters, StackInv
<1>2. ASSUME stack' # <<>>, stack # <<>>, sessions' = sessions,
             stack'[Len(stack')].op = stack[Len(stack)].op
      PROVE  Once'
  BY <1>1, <1>2
<1>3. ASSUME NEW op \in Public, Call(op) PROVE Once'
  BY <1>3 DEF Call
<1>4. CASE Entered
  <2>1. pc = "enter" /\ stack' = stack /\ stack # <<>>
    BY <1>4 DEF Entered, StackInv
  <2>2. CASE EnterOpens /\ sessions' = sessions + 1
    <3>1. Held(stack[Len(stack)].op) => sessions' <= 1
      BY <2>1, <2>2, OpensFirst
    <3> QED
      BY <2>1, <3>1
  <2>3. CASE UNCHANGED sessions
    BY <1>1, <2>1, <2>3
  <2> QED
    BY <1>4, <2>2, <2>3 DEF Entered
<1>5. CASE Nested
  <2>1. stack # <<>> /\ stack' # <<>> /\ sessions' = sessions
    BY <1>5 DEF Nested, StackInv
  <2>2. /\ Len(stack) \in Nat /\ Len(stack) >= 1 /\ Len(stack') = Len(stack) + 1
        /\ stack'[2].op = stack[1].op
        /\ \A i \in 2 .. Len(stack) : stack'[i + 1] = stack[i]
    BY <1>1, <1>5, NestedFrames
  <2>3. stack'[Len(stack')].op = stack[Len(stack)].op
    <3>1. CASE Len(stack) = 1
      BY <2>2, <3>1
    <3>2. CASE Len(stack) >= 2
      BY <2>2, <3>2
    <3> QED
      BY <2>2, <3>1, <3>2
  <2> QED
    BY <1>2, <2>1, <2>3
<1>6. CASE RunDone \/ RunUnanswered
  <2>1. stack # <<>> /\ stack' # <<>> /\ sessions' = sessions
    BY <1>6, RunIs DEF Runs, StackInv
  <2>2. /\ Len(stack) \in Nat /\ Len(stack) >= 1 /\ Len(stack') = Len(stack)
        /\ stack'[1].op = stack[1].op
        /\ \A i \in 2 .. Len(stack) : stack'[i] = stack[i]
    BY <1>1, <1>6, RunDoneFrames
  <2>3. stack'[Len(stack')].op = stack[Len(stack)].op
    <3>1. CASE Len(stack) = 1
      BY <2>2, <3>1
    <3>2. CASE Len(stack) >= 2
      BY <2>2, <3>2
    <3> QED
      BY <2>2, <3>1, <3>2
  <2> QED
    BY <1>2, <2>1, <2>3
<1>7. CASE RunBreaks \/ RunRaises \/ ParseRaises \/ UNCHANGED vars
  <2>1. stack' = stack /\ sessions' = sessions
    BY <1>7 DEF RunBreaks, RunRaises, ParseRaises, vars
  <2> QED
    BY <1>1, <2>1
<1>8. CASE EnterRaises \/ Return \/ Propagate
  <2>1. /\ pc # "idle" /\ stack # <<>> /\ sessions' = sessions
        /\ \E to \in {"body", "raise"} : Unwind(to)
    BY <1>8 DEF EnterRaises, Return, Propagate, StackInv
  <2>2. CASE stack' = <<>>
    BY <2>2
  <2>3. CASE stack' # <<>>
    <3>1. stack' \in Seq(Frames) /\ Len(stack') \in Nat \ {0}
      BY <2>3, EmptySeq DEF StackInv
    <3>2. /\ Len(stack') = Len(stack) - 1 /\ Len(stack) \in Nat
          /\ \A i \in 1 .. Len(stack') : stack'[i] = stack[i + 1]
      BY <1>1, <2>1, UnwindFrames
    <3>3. stack'[Len(stack')] = stack[Len(stack)]
      BY <3>1, <3>2
    <3> QED
      BY <1>2, <2>1, <2>3, <3>3
  <2> QED
    BY <2>2, <2>3
<1> QED
  BY <1>3, <1>4, <1>5, <1>6, <1>7, <1>8 DEF Next

LEMMA CallsInvInit == Init => CallsInv
<1> SUFFICES ASSUME Init PROVE CallsInv
  OBVIOUS
<1>1. HeldInv /\ StackInv /\ EnterInv
  BY HeldInvInit DEF Init, StackInv, EnterInv
<1>2. Active = {} /\ depth = 0
  BY DEF Init, Active, HeldInit
<1>3. LeavesMatchEnters
  BY <1>2, FS_EmptySet DEF Init, LeavesMatchEnters
<1> QED
  BY <1>1, <1>3 DEF CallsInv

LEMMA CallsInvStep == CallsInv /\ [Next]_vars => CallsInv'
<1> SUFFICES ASSUME CallsInv, [Next]_vars PROVE CallsInv'
  OBVIOUS
<1>1. HeldInv' /\ StackInv'
  BY HeldInvStep, StepIsHeldStep, StackStep DEF CallsInv
<1>2. EnterInv'
  BY <1>1, EnterStep
<1>3. LeavesMatchEnters'
  BY <1>1, DepthStep, SessionsStep DEF LeavesMatchEnters
<1> QED
  BY <1>1, <1>2, <1>3 DEF CallsInv

(* However deep the methods of Network call each other and wherever exceptions
   are caught, each decorated one leaves the session as often as it entered it,
   and an outermost decorated one needs one session only. *)
THEOREM EntersAndLeavesMatch == Spec => []LeavesMatchEnters
<1>1. Spec => []CallsInv
  BY CallsInvInit, CallsInvStep, PTL DEF Spec
<1> QED
  BY <1>1, PTL DEF CallsInv

----------------------------------------------------------------------------
(* With the commands' effect on a bridge the methods behave as without: what
   is proved of them holds with bridges too (network.py:448-481). *)
THEOREM BridgesKeepCalls == BridgeSpec => Spec
<1>1. BridgeInit => Init
  BY DEF BridgeInit
<1>2. [BridgeNext]_<<vars, bridgeVars>> => [Next]_vars
  BY DEF BridgeNext, IfUp
<1> QED
  BY <1>1, <1>2, PTL DEF BridgeSpec, Spec

\* add_bridge and delete_bridge are outermost, and run one _cmd at a time.
ChangerShape ==
    /\ \A i \in 1 .. Len(stack) : stack[i].op \in Changers => i = Len(stack)
    /\ stack # <<>> /\ stack[Len(stack)].op \in Changers =>
          \/ Len(stack) = 1 /\ stack[1].next \in {<<"_cmd", "_cmd">>, <<"_cmd">>, <<>>}
          \/ /\ Len(stack) = 2 /\ stack[2].next \in {<<"_cmd">>, <<>>}
             /\ stack[1].op = "_cmd" /\ stack[1].next \in {<<"run">>, <<>>}

\* The outermost method is op, and k commands of it have ended.
Completed(op, k) ==
    \/ Len(stack) = 1 /\ stack[1].op = op /\ Len(stack[1].next) <= 2 - k
    \/ /\ Len(stack) = 2 /\ stack[2].op = op
       /\ \/ Len(stack[2].next) <= 1 - k
          \/ stack[1].next = <<>> /\ Len(stack[2].next) <= 2 - k

\* Unless an exception is on its way, the commands that ended had their effect.
EffectInv ==
    pc \in {"enter", "body"} =>
        /\ Completed("add_bridge", 1) => bridge
        /\ Completed("add_bridge", 2) => port
        /\ Completed("delete_bridge", 2) => ~ bridge

BridgeInv == StackInv /\ ChangerShape /\ EffectInv

LEMMA ChangerBody ==
    ASSUME NEW op \in Changers
    PROVE  Body(op) = {<<"_cmd", "_cmd">>}
<1>1. Body(op) = BridgeBody(op)
  BY DEF Changers, Body, HostnameOps, BridgeOps, LookupOps, PlainOps, Queries
<1> QED
  BY <1>1 DEF BridgeBody, Changers

LEMMA CmdBody == Body("_cmd") = {<<"run">>}
  BY DEF Body, HostnameOps, BridgeOps, LookupOps, PlainOps, Queries

\* The steps that have no effect on a bridge but may end a command.
LEMMA ShapeStep ==
    ASSUME StackInv, StackInv', ChangerShape, [Next]_vars
    PROVE  ChangerShape'
<1> USE DEF ChangerShape
<1>1. stack \in Seq(Frames) /\ stack' \in Seq(Frames) /\ Len(stack) \in Nat
  BY DEF StackInv
<1>2. ASSUME NEW op \in Public, Call(op) PROVE ChangerShape'
  <2>1. Len(stack') = 1 /\ stack'[1].op = op /\ stack'[1].next \in Body(op)
    BY <1>2, CallFrames
  <2>2. op \in Changers => stack'[1].next = <<"_cmd", "_cmd">>
    BY <2>1, ChangerBody
  <2>3. \A i \in 1 .. Len(stack') : i = Len(stack')
    BY <2>1
  <2> QED
    BY <2>1, <2>2, <2>3
<1>3. CASE Nested
  <2> DEFINE callee == Head(stack[1].next)
  <2>1. /\ callee \in Ops \ Changers
        /\ Len(stack) >= 1
        /\ Len(stack') = Len(stack) + 1
        /\ stack'[1].op = callee /\ stack'[1].next \in Body(callee)
        /\ stack'[2].op = stack[1].op /\ stack'[2].next = Tail(stack[1].next)
        /\ \A i \in 2 .. Len(stack) : stack'[i + 1] = stack[i]
    BY <1>3, NestedFrames
  <2>2. stack[1].next # <<>> /\ callee # "run"
    BY <1>3 DEF Nested, Top
  <2>3. ASSUME NEW i \in 1 .. Len(stack'), stack'[i].op \in Changers
        PROVE  i = Len(stack')
    <3>1. CASE i = 1
      BY <2>1, <2>3, <3>1
    <3>2. CASE i = 2
      BY <1>1, <2>1, <2>3, <3>2
    <3>3. CASE i > 2
      <4>1. i - 1 \in 2 .. Len(stack) /\ (i - 1) + 1 = i
        BY <1>1, <2>1, <3>3
      <4>2. stack'[i] = stack[i - 1]
        BY <2>1, <4>1
      <4> QED
        BY <1>1, <2>1, <2>3, <4>1, <4>2
    <3> QED
      BY <1>1, <2>1, <3>1, <3>2, <3>3
  <2>4. ASSUME stack'[Len(stack')].op \in Changers
        PROVE  /\ Len(stack') = 2 /\ stack'[2].next \in {<<"_cmd">>, <<>>}
               /\ stack'[1].op = "_cmd" /\ stack'[1].next \in {<<"run">>, <<>>}
    <3>1. Len(stack) = 1
      <4>1. ASSUME Len(stack) = 2 PROVE FALSE
        <5>1. stack'[3] = stack[2] /\ Len(stack') = 3
          BY <2>1, <4>1
        <5>2. stack[1].next \in {<<"run">>, <<>>}
          BY <1>1, <2>4, <4>1, <5>1
        <5> QED
          BY <2>2, <5>2
      <4>2. ASSUME Len(stack) > 2 PROVE FALSE
        <5>1. stack'[Len(stack')] = stack[Len(stack)] /\ stack # <<>>
          BY <1>1, <2>1, <4>2
        <5> QED
          BY <1>1, <2>4, <4>2, <5>1
      <4>3. PICK n \in Nat : n = Len(stack)
        BY <1>1
      <4>4. n >= 1
        BY <2>1, <4>3
      <4>5. n = 1 \/ n = 2 \/ n > 2
        BY <4>4
      <4> QED
        BY <4>1, <4>2, <4>3, <4>5
    <3>2. stack[1].op \in Changers /\ stack # <<>>
      BY <1>1, <2>1, <2>4, <3>1
    <3>3. stack[1].next \in {<<"_cmd", "_cmd">>, <<"_cmd">>}
      BY <2>2, <3>1, <3>2
    <3>4. callee = "_cmd" /\ Tail(stack[1].next) \in {<<"_cmd">>, <<>>}
      <4>1. CASE stack[1].next = <<"_cmd", "_cmd">>
        <5>1. Tail(<<"_cmd", "_cmd">>) = <<"_cmd">>
          OBVIOUS
        <5> QED
          BY <4>1, <5>1
      <4>2. CASE stack[1].next = <<"_cmd">>
        <5>1. Tail(<<"_cmd">>) = <<>>
          OBVIOUS
        <5> QED
          BY <4>2, <5>1
      <4> QED
        BY <3>3, <4>1, <4>2
    <3> QED
      BY <2>1, <3>1, <3>4, CmdBody
  <2> QED
    BY <2>3, <2>4
<1>4. CASE RunDone \/ RunUnanswered
  <2>1. /\ Len(stack) >= 1 /\ Len(stack') = Len(stack)
        /\ stack'[1].op = stack[1].op /\ stack'[1].next = Tail(stack[1].next)
        /\ \A i \in 2 .. Len(stack) : stack'[i] = stack[i]
    BY <1>4, RunDoneFrames
  <2>2. stack[1].next # <<>> /\ Head(stack[1].next) = "run" /\ stack # <<>>
    BY <1>4, RunIs DEF Runs, Top, StackInv
  <2>3. \A i \in 1 .. Len(stack) : stack'[i].op = stack[i].op
    BY <1>1, <2>1
  <2>4. ASSUME stack'[Len(stack')].op \in Changers
        PROVE  /\ Len(stack') = 2 /\ stack'[2].next \in {<<"_cmd">>, <<>>}
               /\ stack'[1].op = "_cmd" /\ stack'[1].next = <<>>
    <3>1. stack[Len(stack)].op \in Changers
      BY <1>1, <2>1, <2>3, <2>4
    <3>2. CASE Len(stack) = 1
      BY <2>2, <3>1, <3>2
    <3>3. CASE Len(stack) = 2 /\ stack[1].next = <<"run">>
      BY <2>1, <2>2, <3>1, <3>3
    <3> QED
      BY <2>2, <3>1, <3>2, <3>3
  <2> QED
    BY <1>1, <2>1, <2>3, <2>4
<1>5. CASE EnterRaises \/ Return \/ Propagate
  <2>1. pc # "idle" /\ \E to \in {"body", "raise"} : Unwind(to)
    BY <1>5 DEF EnterRaises, Return, Propagate
  <2>2. /\ Len(stack) >= 1 /\ Len(stack') = Len(stack) - 1
        /\ \A i \in 1 .. Len(stack') : stack'[i] = stack[i + 1]
    BY <2>1, UnwindFrames
  <2>3. ASSUME NEW i \in 1 .. Len(stack'), stack'[i].op \in Changers
        PROVE  i = Len(stack')
    <3>1. i + 1 \in 1 .. Len(stack) /\ stack'[i] = stack[i + 1]
      BY <1>1, <2>2
    <3> QED
      BY <1>1, <2>2, <2>3, <3>1
  <2>4. ASSUME stack' # <<>>, stack'[Len(stack')].op \in Changers
        PROVE  Len(stack') = 1 /\ stack'[1].next \in {<<"_cmd", "_cmd">>, <<"_cmd">>, <<>>}
    <3>1. Len(stack') \in Nat \ {0}
      BY <1>1, <2>4, EmptySeq
    <3>2. stack'[Len(stack')] = stack[Len(stack)] /\ stack # <<>>
      BY <1>1, <2>2, <3>1
    <3>3. Len(stack) = 2 /\ stack[2].next \in {<<"_cmd">>, <<>>}
      BY <1>1, <2>2, <2>4, <3>1, <3>2
    <3> QED
      BY <2>2, <3>2, <3>3
  <2> QED
    BY <2>3, <2>4
<1>6. CASE Entered \/ RunBreaks \/ RunRaises \/ ParseRaises \/ UNCHANGED vars
  <2>1. stack' = stack
    BY <1>6 DEF Entered, RunBreaks, RunRaises, ParseRaises, vars
  <2> QED
    BY <2>1
<1> QED
  BY <1>2, <1>3, <1>4, <1>5, <1>6 DEF Next

(* A step that runs no command of theirs completes none. *)
LEMMA NothingCompleted ==
    ASSUME BridgeInv, StackInv', ChangerShape', Next, ~ Changing,
           NEW op \in Changers, NEW k \in {1, 2},
           pc' \in {"enter", "body"}, Completed(op, k)'
    PROVE  pc \in {"enter", "body"} /\ Completed(op, k)
<1> USE DEF BridgeInv
<1>1. /\ stack \in Seq(Frames) /\ stack' \in Seq(Frames)
      /\ Len(stack) \in Nat /\ Len(stack') \in {1, 2}
  BY DEF StackInv, Completed
<1>2. ASSUME NEW m \in Public, Call(m) PROVE FALSE
  <2>1. Len(stack') = 1 /\ stack'[1].op = m /\ stack'[1].next \in Body(m)
    BY <1>2, CallFrames
  <2>2. m = op
    BY <2>1 DEF Completed
  <2>3. stack'[1].next = <<"_cmd", "_cmd">>
    BY <2>1, <2>2, ChangerBody
  <2> QED
    BY <2>1, <2>3 DEF Completed
<1>3. CASE Entered
  BY <1>3 DEF Entered, Completed
<1>4. CASE Nested
  <2>1. /\ Len(stack) >= 1 /\ Len(stack') = Len(stack) + 1
        /\ stack'[2].op = stack[1].op /\ stack'[2].next = Tail(stack[1].next)
    BY <1>4, NestedFrames
  <2>2. Len(stack) = 1 /\ Len(stack') = 2
    <3>1. PICK n \in Nat : n = Len(stack)
      BY <1>1
    <3>2. n >= 1 /\ n + 1 \in {1, 2}
      BY <1>1, <2>1, <3>1
    <3>3. n = 1
      BY <3>2
    <3> QED
      BY <2>1, <3>1, <3>3
  <2>3. stack[1].op = op
    BY <2>1, <2>2 DEF Completed
  <2>4. stack[1].next # <<>> /\ stack # <<>> /\ pc = "body"
    BY <1>4 DEF Nested, Top, StackInv
  <2>5. stack[1].next \in {<<"_cmd", "_cmd">>, <<"_cmd">>}
    BY <2>2, <2>3, <2>4 DEF ChangerShape
  <2>6. Head(stack[1].next) = "_cmd" /\ Len(stack'[2].next) = Len(stack[1].next) - 1
        /\ Len(stack[1].next) \in {1, 2}
    <3>1. CASE stack[1].next = <<"_cmd", "_cmd">>
      BY <2>1, <3>1
    <3>2. CASE stack[1].next = <<"_cmd">>
      BY <2>1, <3>2
    <3> QED
      BY <2>5, <3>1, <3>2
  <2>7. stack'[1].next # <<>>
    <3>1. stack'[1].next \in Body("_cmd")
      BY <1>4, <2>6, NestedFrames
    <3> QED
      BY <3>1, CmdBody
  <2>8. Len(stack'[2].next) <= 1 - k
    BY <2>2, <2>7 DEF Completed
  <2> QED
    BY <2>2, <2>3, <2>4, <2>6, <2>8 DEF Completed
<1>5. CASE RunDone \/ RunUnanswered
  <2>1. /\ Len(stack) >= 1 /\ Len(stack') = Len(stack)
        /\ stack'[1].op = stack[1].op
        /\ \A i \in 2 .. Len(stack) : stack'[i] = stack[i]
    BY <1>5, RunDoneFrames
  <2>2. Runs /\ stack[1].next # <<>> /\ Head(stack[1].next) = "run" /\ stack # <<>>
    BY <1>5, RunIs DEF Runs, Top, StackInv
  <2>3. CASE Len(stack) = 1
    BY <2>1, <2>2, <2>3 DEF Completed, ChangerShape
  <2>4. CASE Len(stack) = 2
    <3>1. stack[2].op = op
      BY <2>1, <2>4 DEF Completed
    <3>2. stack[2].next \in {<<"_cmd">>, <<>>}
      BY <2>2, <2>4, <3>1 DEF ChangerShape
    <3>3. Len(stack[2].next) = 1 \/ Len(stack[2].next) = 0
      BY <3>2
    <3>4. Doing(op, 1) \/ Doing(op, 2)
      BY <2>2, <2>4, <3>1, <3>3 DEF Doing
    <3> QED
      BY <3>4 DEF Changing, Changers
  <2> QED
    BY <1>1, <2>1, <2>3, <2>4
<1>6. CASE EnterRaises \/ RunBreaks \/ RunRaises \/ ParseRaises
  BY <1>6 DEF EnterRaises, RunBreaks, RunRaises, ParseRaises, Unwind
<1>7. CASE Return \/ Propagate
  <2>1. pc \in {"body", "raise"} /\ \E to \in {"body", "raise"} : Unwind(to)
    BY <1>7 DEF Return, Propagate
  <2>2. /\ Len(stack) >= 1 /\ Len(stack') = Len(stack) - 1
        /\ \A i \in 1 .. Len(stack') : stack'[i] = stack[i + 1]
    BY <2>1, UnwindFrames
  <2>3. stack # <<>>
    BY <2>1 DEF StackInv
  <2>4. stack[Len(stack)].op = op
    BY <1>1, <2>2 DEF Completed
  <2>5. /\ Len(stack) = 2 /\ stack[1].op = "_cmd"
        /\ stack'[1] = stack[2] /\ Len(stack') = 1
    BY <1>1, <2>2, <2>3, <2>4 DEF ChangerShape
  <2>6. CASE Return
    <3>1. pc = "body" /\ stack[1].next = <<>>
      BY <2>6 DEF Return, Top
    <3> QED
      BY <2>5, <3>1 DEF Completed
  <2>7. CASE Propagate
    <3>1. ~ Catches(Top.op)
      BY <2>5 DEF Catches, Top
    <3>2. pc' # "body" /\ pc' # "enter"
      BY <2>7, <3>1 DEF Propagate, Unwind
    <3> QED
      BY <3>2
  <2> QED
    BY <1>7, <2>6, <2>7
<1> QED
  BY <1>2, <1>3, <1>4, <1>5, <1>6, <1>7 DEF Next

(* A command of theirs that ends well had its effect. *)
LEMMA EffectOfRun ==
    ASSUME BridgeInv, ChangerShape', Next, Changing, Effect,
           pc' \in {"enter", "body"}
    PROVE  EffectInv'
<1> USE DEF BridgeInv
<1>1. Runs /\ pc = "body" /\ stack # <<>> /\ stack \in Seq(Frames)
  BY DEF Changing, Doing, Runs, StackInv
<1>2. RunDone \/ RunUnanswered
  BY <1>1 DEF Next, Call, Entered, EnterRaises, Nested, RunBreaks, RunRaises, ParseRaises,
              Return, Propagate, Runs
<1>3. PICK op \in Changers : Doing(op, 1) \/ Doing(op, 2)
  BY DEF Changing, Changers
<1>4. stack[2].op = op /\ Len(stack) > 1
  BY <1>3 DEF Doing
<1>5. Len(stack) = 2 /\ stack[2].next \in {<<"_cmd">>, <<>>}
  <2>1. 2 \in 1 .. Len(stack)
    BY <1>1, <1>4
  <2>2. Len(stack) = 2
    BY <1>4, <2>1 DEF ChangerShape
  <2> QED
    BY <1>1, <1>4, <2>2 DEF ChangerShape
<1>6. Len(stack') = 2 /\ stack'[2] = stack[2]
  BY <1>2, <1>5, RunDoneFrames
<1>7. CASE op = "add_bridge"
  <2>1. ~ Doing("delete_bridge", 1) /\ ~ Doing("delete_bridge", 2)
    BY <1>4, <1>7 DEF Doing
  <2>2. bridge'
    BY <2>1 DEF Effect
  <2>3. Len(stack[2].next) = 0 => port'
    <3>1. Len(stack[2].next) = 0 => ~ Doing("add_bridge", 1)
      BY DEF Doing
    <3> QED
      BY <2>1, <3>1 DEF Effect
  <2>4. Completed("add_bridge", 2)' => Len(stack[2].next) = 0
    BY <1>5, <1>6 DEF Completed
  <2>5. ~ Completed("delete_bridge", 2)'
    BY <1>4, <1>6, <1>7 DEF Completed
  <2> QED
    BY <2>2, <2>3, <2>4, <2>5 DEF EffectInv
<1>8. CASE op = "delete_bridge"
  <2>1. ~ Doing("add_bridge", 1) /\ ~ Doing("add_bridge", 2)
    BY <1>4, <1>8 DEF Doing
  <2>2. Len(stack[2].next) = 0 => ~ bridge'
    <3>1. Len(stack[2].next) = 0 => ~ Doing("delete_bridge", 1)
      BY DEF Doing
    <3> QED
      BY <2>1, <3>1 DEF Effect
  <2>3. Completed("delete_bridge", 2)' => Len(stack[2].next) = 0
    BY <1>5, <1>6 DEF Completed
  <2>4. ~ Completed("add_bridge", 1)' /\ ~ Completed("add_bridge", 2)'
    BY <1>4, <1>6, <1>8 DEF Completed
  <2> QED
    BY <2>2, <2>3, <2>4 DEF EffectInv
<1> QED
  BY <1>3, <1>7, <1>8 DEF Changers

LEMMA BridgeInvStep == BridgeInv /\ [BridgeNext]_<<vars, bridgeVars>> => BridgeInv'
<1> SUFFICES ASSUME BridgeInv, [BridgeNext]_<<vars, bridgeVars>> PROVE BridgeInv'
  OBVIOUS
<1>1. [Next]_vars
  BY DEF BridgeNext, IfUp
<1>2. StackInv' /\ ChangerShape'
  BY <1>1, StackStep, ShapeStep DEF BridgeInv
<1>3. CASE Next /\ ~ Changing /\ UNCHANGED bridgeVars
  <2>1. "add_bridge" \in Changers /\ "delete_bridge" \in Changers
    BY DEF Changers
  <2>2. CASE pc' \in {"enter", "body"}
    <3>1. Completed("add_bridge", 1)' => bridge
      BY <1>2, <1>3, <2>1, <2>2, NothingCompleted DEF BridgeInv, EffectInv
    <3>2. Completed("add_bridge", 2)' => port
      BY <1>2, <1>3, <2>1, <2>2, NothingCompleted DEF BridgeInv, EffectInv
    <3>3. Completed("delete_bridge", 2)' => ~ bridge
      BY <1>2, <1>3, <2>1, <2>2, NothingCompleted DEF BridgeInv, EffectInv
    <3> QED
      BY <1>2, <1>3, <3>1, <3>2, <3>3 DEF BridgeInv, EffectInv, bridgeVars
  <2> QED
    BY <1>2, <2>2 DEF BridgeInv, EffectInv
<1>4. CASE Next /\ Changing /\ ((Ran /\ Effect) \/ Refused)
  <2>1. CASE pc' \in {"enter", "body"}
    BY <1>2, <1>4, <2>1, EffectOfRun DEF BridgeInv, Refused
  <2> QED
    BY <1>2, <2>1 DEF BridgeInv, EffectInv
<1>5. CASE IfUp \/ UNCHANGED <<vars, bridgeVars>>
  <2>1. UNCHANGED <<stack, pc, bridge, port>>
    BY <1>5 DEF IfUp, vars, bridgeVars
  <2>2. EffectInv'
    BY <2>1 DEF BridgeInv, EffectInv, Completed
  <2> QED
    BY <1>2, <2>2 DEF BridgeInv
<1> QED
  BY <1>3, <1>4, <1>5 DEF BridgeNext

(* Whatever failed calls left on the host before, an add_bridge that returns has
   left a bridge with its network, and a delete_bridge that returns has left
   none (network.py:448-481). *)
THEOREM BridgesAsAnswered == BridgeSpec => []BridgeAnswers
<1>1. BridgeInit => BridgeInv
  <2> SUFFICES ASSUME BridgeInit PROVE BridgeInv
    OBVIOUS
  <2>1. stack = <<>> /\ pc = "idle" /\ Len(stack) = 0 /\ sessions = 0
    BY DEF BridgeInit, Init
  <2> QED
    BY <2>1 DEF BridgeInv, StackInv, ChangerShape, EffectInv
<1>2. BridgeInv => BridgeAnswers
  <2> SUFFICES ASSUME BridgeInv PROVE BridgeAnswers
    OBVIOUS
  <2>1. ASSUME NEW op \in Changers, Finished(op)
        PROVE  pc = "body" /\ Completed(op, 1) /\ Completed(op, 2)
    <3>1. /\ stack # <<>> /\ stack \in Seq(Frames) /\ pc = "body"
          /\ stack[1].op = op /\ stack[1].next = <<>>
      BY <2>1 DEF BridgeInv, StackInv, Finished, Top
    <3>2. 1 \in 1 .. Len(stack)
      BY <3>1
    <3>3. Len(stack) = 1
      BY <3>1, <3>2 DEF BridgeInv, ChangerShape
    <3>4. Len(stack[1].next) = 0
      BY <3>1
    <3> QED
      BY <3>1, <3>3, <3>4 DEF Completed
  <2>2. "add_bridge" \in Changers /\ "delete_bridge" \in Changers
    BY DEF Changers
  <2> QED
    BY <2>1, <2>2 DEF BridgeInv, EffectInv, BridgeAnswers
<1> QED
  BY <1>1, <1>2, BridgeInvStep, PTL DEF BridgeSpec

=============================================================================
