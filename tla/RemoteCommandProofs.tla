------------------------ MODULE RemoteCommandProofs ------------------------
(***************************************************************************)
(* Proofs about ssh.py: RemoteCommand for every window, pipe and set of    *)
(* calls, and ConnectivityWait for every timeout and sample time.          *)
(***************************************************************************)
EXTENDS RemoteCommand, ConnectivityWait, TLAPS

(* The windows are not empty and every call is one CallType describes. *)
LEMMA Constants ==
    /\ Window \in Nat /\ Window > 0
    /\ InWindow \in Nat /\ InWindow > 0
    /\ Pipe \in Nat
    /\ \A c \in Calls :
          /\ c.out \in Nat
          /\ c.err \in Nat
          /\ c.reads \in BOOLEAN
          /\ c.status \in {"ok", "failed"}
          /\ c.style \in {"run", "read_lines", "wget"}
          /\ c.input \in Nat
          /\ c.style = "wget" => c.input = 0
  BY ConstantsAssumption DEF ConstantsAssumption, CallType, Styles

LEMMA TypeInit == Init => TypeOK
<1> SUFFICES ASSUME Init PROVE TypeOK
  OBVIOUS
<1>1. left \in [Streams -> Nat]
  BY Constants DEF Init, Volume
<1>2. buf \in [Streams -> Nat] /\ got \in [Streams -> Nat]
  BY DEF Init
<1> QED
  BY <1>1, <1>2 DEF Init, TypeOK, Places, Running, Transports, Outcomes

LEMMA TypeStep == TypeOK /\ [Next]_vars => TypeOK'
<1> SUFFICES ASSUME TypeOK, [Next]_vars PROVE TypeOK'
  OBVIOUS
<1> USE DEF TypeOK, Places, Running, Transports, Outcomes
<1>1. CASE Open \/ OpenFails \/ Exec \/ ExecFails
  BY <1>1 DEF Open, OpenFails, Exec, ExecFails, remoteVars
<1>2. CASE Feed \/ FeedFails \/ LineRaises \/ InputDone
  <2>1. CASE Feed
    BY <2>1 DEF Feed
  <2>2. CASE FeedFails \/ LineRaises
    BY <2>2 DEF FeedFails, LineRaises, remoteVars
  <2>3. CASE InputDone
    BY <2>3, Constants DEF InputDone
  <2> QED
    BY <1>2, <2>1, <2>2, <2>3
<1>3. ASSUME NEW s \in Streams, Take(s) PROVE TypeOK'
  <2>1. pc' \in Places
    BY <1>3, Constants DEF Take, AfterTake, Streams
  <2>2. buf' \in [Streams -> Nat] /\ got' \in [Streams -> Nat]
    BY <1>3 DEF Take
  <2> QED
    BY <1>3, <2>1, <2>2 DEF Take
<1>4. ASSUME NEW s \in Streams, AtEof(s) PROVE TypeOK'
  <2>1. pc' \in Places
    BY <1>4, Constants DEF AtEof, AfterEof, Streams
  <2> QED
    BY <1>4, <2>1 DEF AtEof, remoteVars
<1>5. CASE Poll
  <2>1. rc' \in {"none", "ok", "failed", "lost"}
    BY <1>5 DEF Poll, Polled
  <2>2. pc' \in Places
    BY <1>5 DEF Poll, First
  <2> QED
    BY <1>5, <2>1, <2>2 DEF Poll, remoteVars
<1>6. CASE Resume \/ Abandon \/ Status \/ IoTimeout
  BY <1>6 DEF Resume, Abandon, Status, IoTimeout, Polled, remoteVars
<1>7. CASE Close \/ Exit \/ ExitFails
  <2>1. CASE Close
    BY <2>1 DEF Close, Polled
  <2>2. CASE Exit \/ ExitFails
    BY <2>2 DEF Exit, ExitFails, Verdict, remoteVars
  <2> QED
    BY <1>7, <2>1, <2>2
<1>8. ASSUME NEW s \in Streams, Send(s) PROVE TypeOK'
  <2>1. buf' \in [Streams -> Nat] /\ left' \in [Streams -> Nat]
    BY <1>8 DEF Send, CanSend
  <2> QED
    BY <1>8, <2>1 DEF Send, clientVars
<1>9. CASE ReadIn \/ SendEof \/ SendStatus \/ HangUp
  <2>1. CASE ReadIn
    BY <2>1 DEF ReadIn, CanReadIn, clientVars
  <2>2. CASE SendEof \/ HangUp
    BY <2>2 DEF SendEof, HangUp, clientVars
  <2>3. CASE SendStatus
    BY <2>3, Constants DEF SendStatus, clientVars
  <2> QED
    BY <1>9, <2>1, <2>2, <2>3
<1>10. CASE Lose \/ Hang
  BY <1>10 DEF Lose, Hang, clientVars, remoteVars
<1>11. CASE UNCHANGED vars
  BY <1>11 DEF vars, clientVars, remoteVars
<1> QED
  BY <1>1, <1>2, <1>3, <1>4, <1>5, <1>6, <1>7, <1>8, <1>9, <1>10, <1>11
     DEF Next, Client, Remote

(* Type correctness of every variable of a remote command. *)
THEOREM TypeCorrect == Spec => []TypeOK
  BY TypeInit, TypeStep, PTL DEF Spec

(* Only Take and Send move data, a unit at a time. *)
LEMMA ConservationStep == TypeOK /\ Conservation /\ [Next]_vars => Conservation'
<1> SUFFICES ASSUME TypeOK, Conservation, [Next]_vars PROVE Conservation'
  OBVIOUS
<1>1. ASSUME NEW s \in Streams, Take(s) PROVE Conservation'
  BY <1>1 DEF Take, TypeOK, Conservation, Volume
<1>2. ASSUME NEW s \in Streams, Send(s) PROVE Conservation'
  BY <1>2 DEF Send, CanSend, TypeOK, Conservation, Volume, clientVars
<1>3. CASE UNCHANGED <<call, got, buf, left>>
  BY <1>3 DEF Conservation, Volume
<1>4. ASSUME NEW s \in Streams, AtEof(s) PROVE UNCHANGED <<call, got, buf, left>>
  BY <1>4 DEF AtEof, remoteVars
<1>5. CASE Open \/ OpenFails \/ Exec \/ ExecFails \/ Feed \/ FeedFails \/ LineRaises \/ InputDone
  BY <1>3, <1>5 DEF Open, OpenFails, Exec, ExecFails, Feed, FeedFails, LineRaises, InputDone, remoteVars
<1>6. CASE Poll \/ Resume \/ Abandon \/ Status \/ IoTimeout \/ Close \/ Exit \/ ExitFails
  BY <1>3, <1>6 DEF Poll, Resume, Abandon, Status, IoTimeout, Close, Exit, ExitFails, remoteVars
<1>7. CASE ReadIn \/ SendEof \/ SendStatus \/ HangUp \/ Lose \/ Hang
  BY <1>3, <1>7 DEF ReadIn, SendEof, SendStatus, HangUp, Lose, Hang, clientVars, remoteVars
<1>8. CASE UNCHANGED vars
  BY <1>3, <1>8 DEF vars, clientVars, remoteVars
<1> QED
  BY <1>1, <1>2, <1>3, <1>4, <1>5, <1>6, <1>7, <1>8 DEF Next, Client, Remote

LEMMA InputStep == TypeOK /\ InputInv /\ [Next]_vars => InputInv'
<1> SUFFICES ASSUME TypeOK, InputInv, [Next]_vars PROVE InputInv'
  OBVIOUS
<1> USE Constants DEF TypeOK, InputInv, Running
<1>1. CASE Open \/ OpenFails \/ Exec \/ ExecFails
  BY <1>1 DEF Open, OpenFails, Exec, ExecFails, remoteVars
<1>2. CASE Feed
  BY <1>2 DEF Feed
<1>3. CASE FeedFails \/ LineRaises \/ InputDone
  BY <1>3 DEF FeedFails, LineRaises, InputDone, remoteVars
<1>4. ASSUME NEW s \in Streams, Take(s) \/ AtEof(s) PROVE InputInv'
  BY <1>4 DEF Take, AtEof, AfterTake, AfterEof, Streams, remoteVars
<1>5. CASE Poll \/ Resume \/ Abandon \/ Status \/ IoTimeout
  BY <1>5 DEF Poll, First, Resume, Abandon, Status, IoTimeout, Waiting, Reading, remoteVars
<1>6. CASE Close \/ Exit \/ ExitFails
  BY <1>6 DEF Close, Exit, ExitFails, remoteVars
<1>7. ASSUME NEW s \in Streams, Send(s) PROVE InputInv'
  BY <1>7 DEF Send, clientVars
<1>8. CASE ReadIn
  BY <1>8 DEF ReadIn, CanReadIn, clientVars
<1>9. CASE SendEof \/ SendStatus \/ HangUp \/ Lose \/ Hang
  BY <1>9 DEF SendEof, SendStatus, HangUp, Lose, Hang, clientVars, remoteVars
<1>10. CASE UNCHANGED vars
  BY <1>10 DEF vars, clientVars, remoteVars
<1> QED
  BY <1>1, <1>2, <1>3, <1>4, <1>5, <1>6, <1>7, <1>8, <1>9, <1>10
     DEF Next, Client, Remote

LEMMA EndStep == TypeOK /\ InputInv /\ EndInv /\ [Next]_vars => EndInv'
<1> SUFFICES ASSUME TypeOK, InputInv, EndInv, [Next]_vars PROVE EndInv'
  OBVIOUS
<1> USE Constants DEF TypeOK, EndInv, InputRead
<1>1. CASE Open \/ OpenFails \/ Exec \/ ExecFails
  BY <1>1 DEF Open, OpenFails, Exec, ExecFails, remoteVars
<1>2. CASE Feed
  BY <1>2 DEF Feed, InputInv
<1>3. CASE FeedFails \/ LineRaises
  BY <1>3 DEF FeedFails, LineRaises, remoteVars
<1>4. CASE InputDone
  BY <1>4 DEF InputDone, InputInv
<1>5. ASSUME NEW s \in Streams, Take(s) \/ AtEof(s) PROVE EndInv'
  BY <1>5 DEF Take, AtEof, AfterTake, AfterEof, Streams, remoteVars
<1>6. CASE Poll \/ Resume \/ Abandon \/ Status \/ IoTimeout
  BY <1>6 DEF Poll, First, Resume, Abandon, Status, IoTimeout, remoteVars
<1>7. CASE Close \/ Exit \/ ExitFails
  BY <1>7 DEF Close, Exit, ExitFails, remoteVars
<1>8. ASSUME NEW s \in Streams, Send(s) PROVE EndInv'
  <2>1. left'["out"] <= left["out"] /\ left'["err"] <= left["err"]
    BY <1>8 DEF Send, CanSend, Streams
  <2>2. left'["out"] \in Nat /\ left'["err"] \in Nat
    BY <1>8 DEF Send, CanSend, Streams
  <2>3. left["out"] \in Nat /\ left["err"] \in Nat
    BY DEF Streams
  <2>4. UNCHANGED <<call, pc, link, inbuf, inEof, eof, status, shut>>
    BY <1>8 DEF Send, clientVars
  <2> QED
    BY <2>1, <2>2, <2>3, <2>4
<1>9. CASE ReadIn
  BY <1>9 DEF ReadIn, CanReadIn, clientVars
<1>10. CASE SendEof \/ SendStatus \/ HangUp
  BY <1>10 DEF SendEof, SendStatus, HangUp, CanSendEof, CanExit, CanHangUp, Alive,
               Running, clientVars
<1>11. CASE Lose \/ Hang
  BY <1>11 DEF Lose, Hang, clientVars, remoteVars
<1>12. CASE UNCHANGED vars
  BY <1>12 DEF vars, clientVars, remoteVars
<1> QED
  BY <1>1, <1>2, <1>3, <1>4, <1>5, <1>6, <1>7, <1>8, <1>9, <1>10, <1>11, <1>12
     DEF Next, Client, Remote

LEMMA PlaceStep == TypeOK /\ EndInv /\ PlaceInv /\ [Next]_vars => PlaceInv'
<1> SUFFICES ASSUME TypeOK, EndInv, PlaceInv, [Next]_vars PROVE PlaceInv'
  OBVIOUS
<1> USE Constants DEF TypeOK, PlaceInv, Places, Running
<1>1. CASE Open \/ OpenFails \/ Exec \/ ExecFails
  BY <1>1 DEF Open, OpenFails, Exec, ExecFails, remoteVars
<1>2. CASE Feed \/ FeedFails \/ LineRaises \/ InputDone
  BY <1>2 DEF Feed, FeedFails, LineRaises, InputDone, remoteVars
<1>3. ASSUME NEW s \in Streams, Take(s) PROVE PlaceInv'
  BY <1>3 DEF Take, AfterTake, Streams
<1>4. ASSUME NEW s \in Streams, AtEof(s) PROVE PlaceInv'
  BY <1>4 DEF AtEof, AfterEof, Streams, remoteVars
<1>5. CASE Poll \/ Status
  BY <1>5 DEF Poll, Polled, First, Status, remoteVars
<1>6. CASE Resume \/ Abandon \/ IoTimeout
  BY <1>6 DEF Resume, Abandon, IoTimeout, Waiting, Reading, remoteVars
<1>7. CASE Close \/ Exit \/ ExitFails
  BY <1>7 DEF Close, Exit, ExitFails, Polled, Verdict, remoteVars
<1>8. ASSUME NEW s \in Streams, Send(s) PROVE PlaceInv'
  <2>1. ~ eof
    BY <1>8 DEF Send, CanSend, Alive, EndInv, Streams
  <2> QED
    BY <1>8, <2>1 DEF Send, CanSend, Alive, clientVars
<1>9. CASE ReadIn \/ SendEof \/ SendStatus \/ HangUp
  BY <1>9 DEF ReadIn, SendEof, SendStatus, HangUp, CanExit, clientVars
<1>10. CASE Lose \/ Hang
  BY <1>10 DEF Lose, Hang, clientVars, remoteVars
<1>11. CASE UNCHANGED vars
  BY <1>11 DEF vars, clientVars, remoteVars
<1> QED
  BY <1>1, <1>2, <1>3, <1>4, <1>5, <1>6, <1>7, <1>8, <1>9, <1>10, <1>11
     DEF Next, Client, Remote

(* The inductive invariant: each part is kept by the parts before it. *)
THEOREM Inductive == Spec => []IInv
<1>1. Init => IInv
  <2> SUFFICES ASSUME Init PROVE IInv
    OBVIOUS
  <2>1. TypeOK
    BY TypeInit
  <2>2. Conservation
    BY <2>1, Constants DEF Init, Conservation, Volume, TypeOK
  <2>3. InputInv /\ EndInv /\ PlaceInv
    BY <2>1, Constants DEF Init, InputInv, EndInv, PlaceInv, Running, TypeOK
  <2> QED
    BY <2>1, <2>2, <2>3 DEF IInv
<1>2. IInv /\ [Next]_vars => IInv'
  BY TypeStep, ConservationStep, InputStep, EndStep, PlaceStep DEF IInv
<1> QED
  BY <1>1, <1>2, PTL DEF Spec

(* Of the steps that end a call only the failed opening leaves a transport. *)
LEMMA ReleasedStep == TypeOK /\ Released /\ [Next]_vars => Released'
<1> SUFFICES ASSUME TypeOK, Released, [Next]_vars PROVE Released'
  OBVIOUS
<1> USE DEF Released
<1>1. CASE OpenFails \/ Exit \/ ExitFails
  BY <1>1 DEF OpenFails, Exit, ExitFails
<1>2. CASE Open \/ Exec \/ ExecFails \/ Feed \/ FeedFails \/ LineRaises \/ InputDone
  BY <1>2 DEF Open, Exec, ExecFails, Feed, FeedFails, LineRaises, InputDone
<1>3. ASSUME NEW st \in Streams, Take(st) \/ AtEof(st) PROVE Released'
  BY <1>3, Constants DEF Take, AtEof, AfterTake, AfterEof, Streams, TypeOK
<1>4. CASE Poll \/ Resume \/ Abandon \/ Status \/ IoTimeout \/ Close
  BY <1>4 DEF Poll, First, Resume, Abandon, Status, IoTimeout, Close
<1>5. CASE Remote \/ Lose \/ Hang \/ UNCHANGED vars
  <2>1. UNCHANGED <<pc, transport, outcome>>
    BY <1>5 DEF Remote, Send, ReadIn, SendEof, SendStatus, HangUp, Lose, Hang,
                vars, clientVars
  <2> QED
    BY <2>1
<1> QED
  BY <1>1, <1>2, <1>3, <1>4, <1>5 DEF Next, Client

(* Whatever ends a call, a dropped generator and an exception included, its
   transport has been closed, or its closing has raised, but for the login that
   is refused while the session opens. *)
THEOREM TransportsReleased == Spec => []Released
<1>1. Init => Released
  BY DEF Init, Released
<1>2. IInv /\ Released /\ [Next]_vars => Released'
  BY ReleasedStep DEF IInv
<1> QED
  BY <1>1, <1>2, Inductive, PTL DEF Spec

(* No output is lost, duplicated or invented. *)
THEOREM OutputConserved == Spec => []Conservation
  BY Inductive, PTL DEF IInv

LEMMA NoWaitInInput ==
    ASSUME IInv, WellBehaved, link = "up", pc = "input", Waiting, RemoteBlocked
    PROVE  FALSE
<1> USE Constants DEF IInv, TypeOK, WellBehaved
<1>1. fed < call.input /\ ~ shut /\ inbuf >= InWindow /\ inbuf > 0
  BY DEF Waiting, Reading
<1>2. call.out + call.err < Window
  BY <1>1 DEF InputInv
<1>3. ~ call.reads
  BY <1>1 DEF RemoteBlocked, CanReadIn, Alive, Running
<1>4. buf["out"] + buf["err"] < Window
  BY <1>2 DEF Conservation, Volume, Streams
<1>5. left["out"] = 0 /\ left["err"] = 0
  BY <1>1, <1>4 DEF RemoteBlocked, CanSend, Alive, Running, Streams
<1>6. eof
  BY <1>1, <1>3, <1>5 DEF RemoteBlocked, CanSendEof, Alive, Running, InputRead
<1>7. status # "none"
  BY <1>1, <1>3, <1>5 DEF RemoteBlocked, CanExit, Alive, Running, InputRead
<1> QED
  BY <1>1, <1>6, <1>7 DEF RemoteBlocked, CanHangUp, Alive, Running

LEMMA NoWaitInRead ==
    ASSUME IInv, WellBehaved, link = "up", pc \in Reading, Waiting, RemoteBlocked
    PROVE  FALSE
<1> USE Constants DEF IInv, TypeOK
<1>1. pc \in Streams /\ buf[pc] = 0 /\ ~ eof /\ ~ shut
  BY DEF Waiting, Reading, Streams, EndInv
<1>2. pc = First(call)
  BY <1>1 DEF PlaceInv, First, Streams
<1>3. Other(pc) \in Streams /\ Volume(Other(pc)) < Window
  BY <1>1, <1>2 DEF WellBehaved, Other, Streams
<1>4. buf["out"] + buf["err"] < Window
  <2>1. buf[Other(pc)] <= Volume(Other(pc)) /\ buf[Other(pc)] \in Nat
    BY <1>3 DEF Conservation, Volume
  <2>2. buf["out"] + buf["err"] = buf[Other(pc)]
    BY <1>1, <2>1 DEF Other, Streams
  <2> QED
    BY <1>3, <2>1, <2>2 DEF Volume
<1>5. left["out"] = 0 /\ left["err"] = 0
  BY <1>1, <1>4 DEF RemoteBlocked, CanSend, Alive, Running, Streams
<1>6. InputRead
  <2>1. call.reads => inEof
    BY <1>1 DEF WellBehaved, InputInv, Running, Streams
  <2>2. call.reads => inbuf = 0
    BY <1>1 DEF RemoteBlocked, CanReadIn, Alive, Running, Streams
  <2> QED
    BY <2>1, <2>2 DEF InputRead
<1> QED
  BY <1>1, <1>5, <1>6 DEF RemoteBlocked, CanSendEof, Alive, Running, Streams

LEMMA NoWaitForStatus ==
    ASSUME IInv, link = "up", pc = "status", status = "none", RemoteBlocked
    PROVE  FALSE
<1> USE Constants DEF IInv, TypeOK
<1>1. eof /\ ~ shut
  BY DEF PlaceInv, EndInv
<1>2. InputRead /\ left["out"] = 0 /\ left["err"] = 0
  BY <1>1 DEF EndInv
<1> QED
  BY <1>1, <1>2 DEF RemoteBlocked, CanExit, Alive, Running

(* Client and program never wait for each other in a well-behaved call. *)
THEOREM MutualWaitFree == Spec => []NoMutualWait
<1>1. IInv => NoMutualWait
  BY NoWaitInInput, NoWaitInRead, NoWaitForStatus
     DEF NoMutualWait, ClientBlocked, Waiting
<1> QED
  BY <1>1, Inductive, PTL

(* A call over a connection that held returns everything. *)
THEOREM ResultComplete == Spec => []CompleteResult
<1>1. IInv => CompleteResult
  BY Constants DEF IInv, TypeOK, EndInv, PlaceInv, CompleteResult, Missing
<1> QED
  BY <1>1, Inductive, PTL

(* A known status bounds what a broken connection took away. *)
THEOREM TruncationIsBounded == Spec => []TruncationBounded
<1>1. IInv => TruncationBounded
  BY Constants DEF IInv, TypeOK, EndInv, PlaceInv, TruncationBounded, Missing, Streams
<1> QED
  BY <1>1, Inductive, PTL

(* wget returns a path only if its program ended with status 0. *)
THEOREM DownloadsReported == Spec => []DownloadReported
<1>1. Init => DownloadReported
  BY DEF Init, DownloadReported
<1>2. IInv /\ DownloadReported /\ [Next]_vars => DownloadReported'
  <2> SUFFICES ASSUME IInv, DownloadReported, [Next]_vars PROVE DownloadReported'
    OBVIOUS
  <2> USE DEF DownloadReported, IInv, TypeOK, PlaceInv, EndInv, Running
  <2>1. CASE Exit
    BY <2>1, Constants DEF Exit, Verdict, remoteVars
  <2>2. CASE OpenFails \/ ExitFails
    BY <2>2 DEF OpenFails, ExitFails, remoteVars
  <2>3. CASE Open \/ Exec \/ ExecFails \/ Feed \/ FeedFails \/ LineRaises \/ InputDone
    BY <2>3 DEF Open, Exec, ExecFails, Feed, FeedFails, LineRaises, InputDone
  <2>4. ASSUME NEW s \in Streams, Take(s) \/ AtEof(s) PROVE DownloadReported'
    BY <2>4, Constants DEF Take, AtEof, AfterTake, AfterEof, Streams
  <2>5. CASE Poll \/ Resume \/ Abandon \/ Status \/ IoTimeout \/ Close
    BY <2>5 DEF Poll, First, Resume, Abandon, Status, IoTimeout, Close
  <2>6. ASSUME Remote PROVE pc # "done" /\ UNCHANGED pc
    BY <2>6 DEF Remote, Send, ReadIn, SendEof, SendStatus, HangUp, CanSend, CanReadIn,
                CanSendEof, CanExit, CanHangUp, Alive, clientVars
  <2>7. ASSUME Lose \/ Hang PROVE pc # "done" /\ UNCHANGED pc
    BY <2>7 DEF Lose, Hang, clientVars
  <2>8. CASE UNCHANGED vars
    BY <2>8 DEF vars, clientVars, remoteVars
  <2> QED
    BY <2>1, <2>2, <2>3, <2>4, <2>5, <2>6, <2>7, <2>8 DEF Next, Client
<1> QED
  BY <1>1, <1>2, Inductive, PTL DEF Spec

LEMMA AbstractInit == Init => Promise!Init
  BY DEF Init, Promise!Init, phaseBar, answerBar

\* While the client is on its way, neither the answer nor the start changes.
LEMMA AbstractRunning ==
    ASSUME IInv, pc \notin {"open", "exec", "done"}, pc' \notin {"open", "exec", "done"},
           UNCHANGED <<status, call>>, outcome' # "refused"
    PROVE  UNCHANGED <<phaseBar, answerBar>>
  BY DEF IInv, PlaceInv, phaseBar, answerBar

LEMMA AbstractExit ==
    ASSUME IInv, Exit \/ ExitFails
    PROVE  [Promise!Next]_<<phaseBar, answerBar>>
<1> USE Constants DEF IInv, TypeOK, PlaceInv, EndInv, Outcomes
<1>1. pc = "exit" /\ pc' = "done" /\ outcome \in {"returned", "raised", "abandoned"}
      /\ UNCHANGED <<call, rc, status, buf, left>>
  BY DEF Exit, ExitFails, remoteVars
<1>2. outcome' = "returned" => outcome = "returned"
  BY DEF Exit, ExitFails, Verdict
<1>3. outcome' \in {"returned", "raised", "abandoned"}
  BY <1>1 DEF Exit, ExitFails, Verdict
<1>4. phaseBar \in {"running", "exited"} /\ UNCHANGED phaseBar
  BY <1>1, <1>3 DEF phaseBar
<1>5. answerBar = "none" /\ answerBar' \in {"complete", "truncated", "raised", "abandoned"}
  BY <1>1, <1>3 DEF answerBar
<1>6. answerBar' = "complete" => phaseBar = "exited"
  <2> SUFFICES ASSUME answerBar' = "complete" PROVE phaseBar = "exited"
    OBVIOUS
  <2>1. outcome' = "returned" /\ Complete'
    BY <1>1, <1>3 DEF answerBar
  <2>2. rc = call.status /\ rc = status
    BY <1>1, <1>2, <2>1 DEF Complete
  <2> QED
    BY <1>1, <2>2 DEF phaseBar
<1>7. Promise!Answer(answerBar')
  BY <1>4, <1>5, <1>6 DEF Promise!Answer, Promise!Earliest
<1> QED
  BY <1>5, <1>7 DEF Promise!Next, Promise!Answers

LEMMA AbstractStep ==
    ASSUME IInv, IInv', [Next]_vars
    PROVE  [Promise!Next]_<<phaseBar, answerBar>>
<1> DEFINE Keep == UNCHANGED <<phaseBar, answerBar>>
<1> USE DEF IInv, PlaceInv, EndInv
<1>1. CASE Open \/ OpenFails
  <2>1. CASE Open
    BY <2>1 DEF Open, phaseBar, answerBar, remoteVars
  <2>2. CASE OpenFails
    <3>1. phaseBar = "idle" /\ phaseBar' = "idle"
      BY <2>2 DEF OpenFails, phaseBar
    <3>2. answerBar = "none" /\ answerBar' = "raised"
      BY <2>2 DEF OpenFails, answerBar
    <3> QED
      BY <3>1, <3>2 DEF Promise!Next, Promise!Answer, Promise!Answers, Promise!Earliest
  <2> QED
    BY <1>1, <2>1, <2>2
<1>2. CASE Exec \/ ExecFails
  <2>1. phaseBar = "idle" /\ phaseBar' = "running"
    BY <1>2 DEF Exec, ExecFails, phaseBar, remoteVars
  <2>2. answerBar = "none" /\ answerBar' = "none"
    BY <1>2 DEF Exec, ExecFails, answerBar
  <2> QED
    BY <2>1, <2>2 DEF Promise!Next, Promise!Start
<1>3. CASE Feed \/ FeedFails \/ LineRaises \/ InputDone
  BY <1>3, AbstractRunning DEF Feed, FeedFails, LineRaises, InputDone, remoteVars
<1>4. ASSUME NEW s \in Streams, Take(s) \/ AtEof(s) PROVE Keep
  BY <1>4, Constants, AbstractRunning
     DEF Take, AtEof, AfterTake, AfterEof, Streams, TypeOK, remoteVars
<1>5. CASE Poll \/ Resume \/ Abandon \/ Status \/ IoTimeout \/ Close
  BY <1>5, AbstractRunning
     DEF Poll, First, Resume, Abandon, Status, IoTimeout, Waiting, Reading, Close, remoteVars
<1>6. CASE Exit \/ ExitFails
  BY <1>6, AbstractExit
<1>7. CASE Remote
  <2>1. pc \in Running /\ UNCHANGED <<pc, outcome, call>>
    BY <1>7 DEF Remote, Send, ReadIn, SendEof, SendStatus, HangUp, CanSend, CanReadIn,
                CanSendEof, CanExit, CanHangUp, Alive, clientVars
  <2>2. answerBar = "none" /\ answerBar' = "none"
    BY <2>1 DEF answerBar, Running
  <2>3. UNCHANGED status \/ (status = "none" /\ status' = call.status)
    BY <1>7 DEF Remote, Send, ReadIn, SendEof, SendStatus, HangUp, CanExit
  <2>4. phaseBar' = phaseBar \/ (phaseBar = "running" /\ phaseBar' = "exited")
    BY <2>1, <2>3, Constants DEF phaseBar, Running, TypeOK
  <2> QED
    BY <2>2, <2>4 DEF Promise!Next, Promise!Exit
<1>8. CASE Lose \/ Hang
  BY <1>8 DEF Lose, Hang, phaseBar, answerBar, Running, clientVars, remoteVars
<1>9. CASE UNCHANGED vars
  BY <1>9 DEF vars, clientVars, remoteVars, phaseBar, answerBar, Complete, Missing
<1> QED
  BY <1>1, <1>2, <1>3, <1>4, <1>5, <1>6, <1>7, <1>8, <1>9 DEF Next, Client

(* A remote command implements the promise of RemoteCall. *)
THEOREM Refinement == Spec => PromiseSpec
<1>1. Init => Promise!Init
  BY AbstractInit
<1>2. IInv /\ IInv' /\ [Next]_vars => [Promise!Next]_<<phaseBar, answerBar>>
  BY AbstractStep
<1> QED
  BY <1>1, <1>2, Inductive, PTL DEF Spec, PromiseSpec, Promise!Spec

----------------------------------------------------------------------------
(* Waiting for connectivity: every timeout, sample, TCP timeout and delay.  *)

\* One probe and one sleep more are one TcpTimeout and one SampleTime more.
LEMMA OneMore ==
    ASSUME NEW n \in Nat
    PROVE  /\ (n + 1) * TcpTimeout = n * TcpTimeout + TcpTimeout
           /\ (n + 1) * SampleTime = n * SampleTime + SampleTime
           /\ n * TcpTimeout \in Nat
           /\ n * SampleTime \in Nat
  BY TimesAssumption DEF TimesAssumption

\* What the client knows about the time when it is not asleep.
ElapsedInv ==
    /\ counter <= elapsed
    /\ waitAt = "done" <=> result # "none"
    /\ result = "no" => counter > Timeout

WaitInv == WaitTypeOK /\ TimeBounded /\ AnswerFresh /\ ElapsedInv

LEMMA WaitInitHolds == WaitInit => WaitInv
<1> SUFFICES ASSUME WaitInit PROVE WaitInv
  OBVIOUS
<1>1. probes * TcpTimeout = 0 /\ probes * SampleTime = 0
  BY TimesAssumption DEF TimesAssumption, WaitInit
<1>2. WaitTypeOK
  BY DEF WaitInit, WaitTypeOK, Hosts
<1>3. TimeBounded
  BY TimesAssumption, <1>1 DEF TimesAssumption, WaitInit, TimeBounded
<1>4. AnswerFresh /\ ElapsedInv
  BY DEF WaitInit, AnswerFresh, ElapsedInv
<1> QED
  BY <1>2, <1>3, <1>4 DEF WaitInv

LEMMA WaitStepHolds == WaitInv /\ [WaitNext]_waitVars => WaitInv'
<1> SUFFICES ASSUME WaitInv, [WaitNext]_waitVars PROVE WaitInv'
  OBVIOUS
<1> USE TimesAssumption DEF TimesAssumption, WaitInv, WaitTypeOK, Hosts
<1>1. CASE Probe
  <2>1. PICK connect \in 0 .. TcpTimeout, delay \in Delays :
          elapsed' = elapsed + connect + delay /\ beyond' = beyond + delay
    BY <1>1 DEF Probe
  <2>2. WaitTypeOK' /\ AnswerFresh' /\ ElapsedInv'
    BY <1>1, <2>1 DEF Probe, AnswerFresh, ElapsedInv
  <2>3. TimeBounded'
    BY <1>1, <2>1, OneMore DEF Probe, TimeBounded
  <2> QED
    BY <2>2, <2>3
<1>2. CASE ProbeBlocks \/ HostChanges
  BY <1>2 DEF ProbeBlocks, HostChanges, TimeBounded, AnswerFresh, ElapsedInv
<1>3. CASE Succeed \/ GiveUp
  BY <1>3 DEF Succeed, GiveUp, Agrees, Expired, TimeBounded, AnswerFresh, ElapsedInv
<1>4. CASE Sleep
  BY <1>4, OneMore DEF Sleep, Expired, TimeBounded, AnswerFresh, ElapsedInv
<1>5. CASE UNCHANGED waitVars
  BY <1>5 DEF waitVars, TimeBounded, AnswerFresh, ElapsedInv
<1> QED
  BY <1>1, <1>2, <1>3, <1>4, <1>5 DEF WaitNext, Waiter

(* The time that passed, the probes and the answer agree in every state. *)
THEOREM WaitInductive == WaitSpec => []WaitInv
  BY WaitInitHolds, WaitStepHolds, PTL DEF WaitSpec

(* The sleeps and the probes are bounded by timeout, the rest of the wait by the
   TCP timeouts of these probes and by what the host adds to each. *)
THEOREM TimeIsBounded == WaitSpec => []TimeBounded
  BY WaitInductive, PTL DEF WaitInv

(* The answer is that of the last probe. *)
THEOREM AnswersFresh == WaitSpec => []AnswerFresh
  BY WaitInductive, PTL DEF WaitInv

(* The wait does not give up before its timeout. *)
THEOREM NeverEarly == WaitSpec => []NotEarly
<1>1. WaitInv => NotEarly
  BY TimesAssumption, OneMore
     DEF TimesAssumption, WaitInv, WaitTypeOK, TimeBounded, ElapsedInv, NotEarly
<1> QED
  BY <1>1, WaitInductive, PTL

=============================================================================
