--------------------------- MODULE HostWorkProofs ---------------------------
(***************************************************************************)
(* Theorems about HostWork, for any number of threads, files, requests and *)
(* arguments: what a file call leaves behind, which key a host shows, what *)
(* the operating system object answers and what a playbook run uploads,    *)
(* names and removes.                                                      *)
(***************************************************************************)
EXTENDS HostWork, SequenceTheorems, WellFoundedInduction, TLAPS

----------------------------------------------------------------------------
(* File calls: types, places and progress.                                 *)

\* The calls that threads make, of a file or of a playbook.
Proper ==
    {c \in Calls : /\ c.op \in Creates => c.text \in Texts /\ c.src = None
                   /\ c.op \in Copies \cup {"move"} => c.src \in Paths}

Filling == {"read", "write", "close", "attrs"}

\* What a call is, and what it has open, at each of its steps.
PlaceInv(t) ==
    /\ pc[t] = "idle" => call[t] = NoCall
    /\ pc[t] # "idle" => call[t] \in Proper /\ dst[t] \in Paths
    /\ pc[t] \in {"source", "open"} \cup Filling => call[t].op \in Creates \cup Copies
    /\ pc[t] = "look" => call[t].op \in Copies \cup {"touch"}
    /\ pc[t] = "command" => call[t].op \in Commands
    /\ pc[t] \in {"idle", "look", "source", "command"} => in[t] = None
    /\ pc[t] \notin Filling => out[t] = None /\ buffer[t] = Empty /\ at[t] = 1
    /\ pc[t] \in Filling => out[t] \in Inodes
    /\ pc[t] \in {"open"} \cup Filling =>
          IF call[t].op \in Creates THEN in[t] = None ELSE in[t] \in Inodes \cup {Dir}
    /\ pc[t] \in {"write", "close", "attrs"} => in[t] # Dir
    /\ pc[t] = "read" /\ call[t].op \in Creates => buffer[t] = Empty /\ at[t] = 1
    /\ pc[t] = "close" => at[t] = 1
    /\ pc[t] = "attrs" => at[t] \in 1 .. Len(Then(call[t]))

\* What the file that is written should hold in the end.
Goal(t) == IF in[t] = out[t] THEN Empty ELSE Meant(t)

\* How far a call that nobody disturbed has come.
ProgressInv(t) ==
    pc[t] \in Filling /\ ~ disturbed[t] =>
        /\ link[dst[t]] = out[t]
        /\ pc[t] = "read" => data[out[t]] = Empty
        /\ pc[t] = "read" /\ in[t] \in Inodes =>
              \A j \in 1 .. Chunks : buffer[t][j] = IF j < at[t] THEN data[in[t]][j] ELSE None
        /\ pc[t] = "write" =>
              /\ buffer[t] = Goal(t)
              /\ \A j \in 1 .. Chunks : data[out[t]][j] = IF j < at[t] THEN buffer[t][j] ELSE None
        /\ pc[t] \in {"close", "attrs"} => data[out[t]] = Goal(t)
        /\ pc[t] = "attrs" => \A j \in 1 .. at[t] - 1 : Then(call[t])[j] \in attr[out[t]]

FilesInv == TypeOK /\ \A t \in Threads : PlaceInv(t) /\ ProgressInv(t)

LEMMA Blocks ==
    /\ None \in Chunk /\ Empty \in Block
    /\ \A c \in Chunk : Whole(c) \in Block
    /\ \A c \in Contents : c \in Chunk
    /\ \A b \in Block : \A i \in 1 .. Chunks : b[i] \in Chunk
    /\ \A b, c \in Block : (\A i \in 1 .. Chunks : b[i] = c[i]) => b = c
    /\ \A i \in 1 .. Chunks : Empty[i] = None
    /\ Chunks \in Nat /\ 1 \in 1 .. Chunks
    /\ None \notin Inodes /\ Dir \notin Inodes /\ None # Dir /\ None \notin Paths
  BY FilesAssumption DEF FilesAssumption, Chunk, Block, Whole, Empty

\* A block with one chunk of another.
Patched(b, i, c) == [b EXCEPT ![i] = c[i]]

LEMMA PatchedBlock ==
    ASSUME NEW b \in Block, NEW c \in Block, NEW i \in 1 .. Chunks
    PROVE  /\ Patched(b, i, c) \in Block
           /\ \A j \in 1 .. Chunks : Patched(b, i, c)[j] = IF j = i THEN c[j] ELSE b[j]
  BY DEF Block, Patched

\* At most two attributes are set.
LEMMA ThenShape ==
    ASSUME NEW c
    PROVE  /\ Then(c) \in Seq(Attributes)
           /\ Len(Then(c)) \in 0 .. 2
           /\ \A i \in 1 .. Len(Then(c)) : Then(c)[i] \in Attributes
           /\ Then(c) # <<>> <=> Len(Then(c)) # 0
<1>1. ASSUME NEW a \in Attributes
      PROVE  Wanted(c, a) \in Seq(Attributes) /\ Len(Wanted(c, a)) \in 0 .. 1
  BY DEF Wanted
<1>2. ASSUME NEW s \in Seq(Attributes), NEW r \in Seq(Attributes),
             Len(s) \in 0 .. 1, Len(r) \in 0 .. 1
      PROVE  s \o r \in Seq(Attributes) /\ Len(s \o r) \in 0 .. 2
  <2>1. s \o r \in Seq(Attributes) /\ Len(s \o r) = Len(s) + Len(r)
    BY ConcatProperties
  <2>2. ASSUME NEW m \in 0 .. 1, NEW n \in 0 .. 1 PROVE m + n \in 0 .. 2
    OBVIOUS
  <2>3. Len(s) + Len(r) \in 0 .. 2
    BY <1>2, <2>2
  <2> QED
    BY <2>1, <2>3
<1>3. Then(c) \in Seq(Attributes) /\ Len(Then(c)) \in 0 .. 2
  <2>1. CASE c.op \in {"create_script", "Host.create_script"}
    BY <2>1 DEF Then, Attributes
  <2>2. CASE c.op \notin {"create_script", "Host.create_script"} /\ c.op = "copy_to"
    <3>1. "x" \in Attributes /\ "owner" \in Attributes
      BY DEF Attributes
    <3>2. Then(c) = Wanted(c, "x") \o Wanted(c, "owner")
      BY <2>2 DEF Then
    <3> QED
      BY <1>1, <1>2, <3>1, <3>2
  <2>3. CASE c.op \notin {"create_script", "Host.create_script", "copy_to"}
    BY <2>3 DEF Then
  <2> QED
    BY <2>1, <2>2, <2>3
<1> QED
  BY <1>3

\* A file that is made has an inode that nobody knows.
LEMMA MakeFacts ==
    ASSUME TypeOK, NEW p \in Paths, Make(p)
    PROVE  \E i \in Inodes :
              /\ \A q \in Paths : link[q] # i
              /\ \A t \in Threads : in[t] # i /\ out[t] # i
              /\ link' = [link EXCEPT ![p] = i]
              /\ data' = [data EXCEPT ![i] = Empty]
              /\ attr' = [attr EXCEPT ![i] = {}]
<1> DEFINE i == CHOOSE i \in Unused : TRUE
<1>1. i \in Unused
  BY DEF Make
<1>2. /\ link' = [link EXCEPT ![p] = i]
      /\ data' = [data EXCEPT ![i] = Empty]
      /\ attr' = [attr EXCEPT ![i] = {}]
  BY DEF Make
<1> HIDE DEF i
<1> QED
  BY <1>1, <1>2 DEF Unused

Typed ==
    /\ link \in [Paths -> Inodes \cup {None, Dir}]
    /\ data \in [Inodes -> Block]
    /\ attr \in [Inodes -> SUBSET Attributes]

LEMMA MakeTypes ==
    ASSUME TypeOK, NEW p \in Paths, Make(p)
    PROVE  Typed'
<1>1. PICK i \in Inodes : /\ link' = [link EXCEPT ![p] = i]
                          /\ data' = [data EXCEPT ![i] = Empty]
                          /\ attr' = [attr EXCEPT ![i] = {}]
  BY MakeFacts
<1> QED
  BY <1>1, Blocks DEF Typed, TypeOK

\* The steps of a call keep the files what they are.
LEMMA WorksTypes ==
    ASSUME TypeOK, NEW t \in Threads, PlaceInv(t), Works(t)
    PROVE  Typed'
<1> USE DEF TypeOK, PlaceInv
<1>1. CASE UNCHANGED files
  BY <1>1 DEF files, Typed
<1>2. CASE OpenOut(t)
  <2>1. dst[t] \in Paths
    BY <1>2 DEF OpenOut
  <2>2. CASE Make(dst[t])
    BY <2>1, <2>2, MakeTypes
  <2>3. CASE /\ link[dst[t]] \in Inodes
             /\ data' = [data EXCEPT ![link[dst[t]]] = Empty]
             /\ UNCHANGED <<link, attr>>
    BY <2>3, Blocks DEF Typed
  <2> QED
    BY <1>2, <2>2, <2>3 DEF OpenOut
<1>3. CASE Write(t)
  <2>1. CASE UNCHANGED data
    BY <1>3, <2>1 DEF Write, Typed
  <2>2. CASE ~ AtEnd(buffer[t], at[t]) /\ data' = [data EXCEPT ![out[t]][at[t]] = buffer[t][at[t]]]
    <3>1. at[t] \in 1 .. Chunks
      BY <2>2, Blocks DEF AtEnd
    <3>2. out[t] \in Inodes /\ data[out[t]] \in Block /\ buffer[t] \in Block
      BY <1>3 DEF Write, Filling
    <3>3. [data[out[t]] EXCEPT ![at[t]] = buffer[t][at[t]]] \in Block
      BY <3>1, <3>2 DEF Block
    <3>4. data' \in [Inodes -> Block]
      BY <2>2, <3>2, <3>3
    <3> QED
      BY <1>3, <3>4 DEF Write, Typed
  <2> QED
    BY <1>3, <2>1, <2>2 DEF Write
<1>4. CASE SetAttr(t)
  <2>1. Then(call[t])[at[t]] \in Attributes
    BY <1>4, ThenShape DEF SetAttr
  <2>2. attr' \in [Inodes -> SUBSET Attributes]
    <3>1. dst[t] \in Paths /\ link[dst[t]] \in Inodes \cup {Dir}
      BY <1>4 DEF SetAttr
    <3> QED
      BY <1>4, <2>1, <3>1 DEF SetAttr
  <2> QED
    BY <1>4, <2>2 DEF SetAttr, Typed
<1>5. CASE Remove(t) \/ Mkdir(t)
  BY <1>5 DEF Remove, Mkdir, Typed
<1>6. CASE Rmdir(t) \/ CommandFails(t)
  BY <1>6 DEF Rmdir, CommandFails, Typed
<1>7. CASE Touch(t) \/ Flush(t)
  <2>1. dst[t] \in Paths
    BY <1>7 DEF Touch, Flush, Runs
  <2>2. CASE Make(dst[t])
    BY <2>1, <2>2, MakeTypes
  <2>3. CASE UNCHANGED files
    BY <1>1, <2>3
  <2>4. CASE /\ link[dst[t]] \in Inodes
             /\ data' = [data EXCEPT ![link[dst[t]]] = Empty]
             /\ UNCHANGED <<link, attr>>
    BY <2>4, Blocks DEF Typed
  <2> QED
    BY <1>7, <2>2, <2>3, <2>4 DEF Touch, Flush
<1>8. CASE Move(t)
  <2>1. PICK p \in Paths : link' = [link EXCEPT ![p] = link[call[t].src], ![call[t].src] = None]
    BY <1>8 DEF Move, Arrival, Runs
  <2>2. link[call[t].src] \in Inodes /\ UNCHANGED <<data, attr>>
    BY <1>8 DEF Move
  <2> QED
    BY <2>1, <2>2 DEF Typed
<1> QED
  BY <1>1, <1>2, <1>3, <1>4, <1>5, <1>6, <1>7, <1>8
     DEF Works, Fails, LookYes, LookNo, OpenSource, Encode, Read, Close, SetAttrFails

ThreadsTyped ==
    /\ pc \in [Threads -> Steps]
    /\ call \in [Threads -> Calls \cup {NoCall}]
    /\ dst \in [Threads -> Paths \cup {None}]
    /\ in \in [Threads -> Inodes \cup {None, Dir}]
    /\ out \in [Threads -> Inodes \cup {None}]
    /\ buffer \in [Threads -> Block]
    /\ at \in [Threads -> 1 .. Chunks + 1]
    /\ answer \in [Threads -> Answers]
    /\ calls \in [Threads -> Nat]
    /\ disturbed \in [Threads -> BOOLEAN]

LEMMA TypesSplit == TypeOK <=> Typed /\ ThreadsTyped
  BY DEF TypeOK, Typed, ThreadsTyped

\* All that the calls of a thread are.
Same(u) ==
    /\ pc'[u] = pc[u] /\ call'[u] = call[u] /\ dst'[u] = dst[u] /\ in'[u] = in[u]
    /\ out'[u] = out[u] /\ buffer'[u] = buffer[u] /\ at'[u] = at[u] /\ answer'[u] = answer[u]

LEMMA NoticeFacts ==
    ASSUME NEW t \in Threads, Notice(t)
    PROVE  /\ disturbed' \in [Threads -> BOOLEAN]
           /\ disturbed'[t] = disturbed[t] \/ disturbed \notin [Threads -> BOOLEAN]
           /\ \A u \in Threads :
                 u # t /\ pc[u] # "idle" /\ ~ disturbed'[u] =>
                    /\ ~ disturbed[u]
                    /\ in[u] \in Inodes => data'[in[u]] = data[in[u]]
                    /\ out[u] # None => /\ link'[dst[u]] = link[dst[u]]
                                        /\ data'[out[u]] = data[out[u]]
                                        /\ attr'[out[u]] = attr[out[u]]
  BY DEF Notice

\* A call that ends.
LEMMA EndFacts ==
    ASSUME ThreadsTyped, NEW t \in Threads, NEW how \in Answers, End(t, how)
    PROVE  /\ ThreadsTyped' /\ Notice(t)
           /\ pc'[t] = "idle" /\ call'[t] = NoCall /\ in'[t] = None /\ out'[t] = None
           /\ buffer'[t] = Empty /\ at'[t] = 1 /\ answer'[t] = how
           /\ \A u \in Threads : u # t => Same(u)
<1> USE DEF ThreadsTyped, End
<1>1. disturbed' \in [Threads -> BOOLEAN]
  BY NoticeFacts
<1>2. /\ pc' \in [Threads -> Steps] /\ call' \in [Threads -> Calls \cup {NoCall}]
      /\ answer' \in [Threads -> Answers] /\ calls' \in [Threads -> Nat]
  BY DEF Steps
<1>3. 1 \in 1 .. Chunks + 1
  BY Blocks
<1>4. /\ dst' \in [Threads -> Paths \cup {None}] /\ in' \in [Threads -> Inodes \cup {None, Dir}]
      /\ out' \in [Threads -> Inodes \cup {None}] /\ buffer' \in [Threads -> Block]
  BY Blocks
<1>5. at' \in [Threads -> 1 .. Chunks + 1]
  BY <1>3
<1>6. \A u \in Threads : u # t => Same(u)
  BY DEF Same
<1> QED
  BY <1>1, <1>2, <1>4, <1>5, <1>6

LEMMA EndPlace ==
    ASSUME ThreadsTyped, NEW t \in Threads, NEW how \in Answers, End(t, how)
    PROVE  PlaceInv(t)' /\ ProgressInv(t)'
<1>1. /\ pc'[t] = "idle" /\ call'[t] = NoCall /\ in'[t] = None /\ out'[t] = None
      /\ buffer'[t] = Empty /\ at'[t] = 1
  BY EndFacts
<1>2. Empty' = Empty
  BY DEF Empty, Whole
<1> QED
  BY <1>1, <1>2 DEF PlaceInv, ProgressInv, Filling

\* A call that goes on: where to, with which destination and handles.
Handles(t) ==
    /\ dst' = [dst EXCEPT ![t] = dst'[t]] /\ dst'[t] \in Paths \cup {None}
    /\ in' = [in EXCEPT ![t] = in'[t]] /\ in'[t] \in Inodes \cup {None, Dir}
    /\ out' = [out EXCEPT ![t] = out'[t]] /\ out'[t] \in Inodes \cup {None}
    /\ buffer' = [buffer EXCEPT ![t] = buffer'[t]] /\ buffer'[t] \in Block
    /\ at' = [at EXCEPT ![t] = at'[t]] /\ at'[t] \in 1 .. Chunks + 1

LEMMA GoesFacts ==
    ASSUME ThreadsTyped, NEW t \in Threads, NEW step \in Steps, Goes(t, step), Handles(t)
    PROVE  /\ ThreadsTyped' /\ Notice(t)
           /\ pc'[t] = step /\ call'[t] = call[t]
           /\ \A u \in Threads : u # t => Same(u)
<1> USE DEF ThreadsTyped, Goes, Handles
<1>1. disturbed' \in [Threads -> BOOLEAN]
  BY NoticeFacts
<1>2. /\ pc' \in [Threads -> Steps] /\ call' \in [Threads -> Calls \cup {NoCall}]
      /\ answer' \in [Threads -> Answers] /\ calls' \in [Threads -> Nat]
  OBVIOUS
<1>4. /\ dst' \in [Threads -> Paths \cup {None}] /\ in' \in [Threads -> Inodes \cup {None, Dir}]
      /\ out' \in [Threads -> Inodes \cup {None}] /\ buffer' \in [Threads -> Block]
  OBVIOUS
<1>5. at' \in [Threads -> 1 .. Chunks + 1]
  OBVIOUS
<1>6. \A u \in Threads : u # t => Same(u)
  BY DEF Same
<1>7. pc'[t] = step /\ call'[t] = call[t]
  OBVIOUS
<1> QED
  BY <1>1, <1>2, <1>4, <1>5, <1>6, <1>7

\* A thread that others leave alone stays where it is, if it was not disturbed.
LEMMA Elsewhere ==
    ASSUME NEW t \in Threads, NEW u \in Threads, u # t, Notice(t), Same(u),
           PlaceInv(u), ProgressInv(u)
    PROVE  PlaceInv(u)' /\ ProgressInv(u)'
<1>1. PlaceInv(u)'
  BY DEF PlaceInv, Same, Empty, Whole, Then, Wanted
<1>2. ASSUME pc[u] \in Filling, ~ disturbed'[u]
      PROVE  /\ ~ disturbed[u]
             /\ in[u] \in Inodes => data'[in[u]] = data[in[u]]
             /\ link'[dst[u]] = link[dst[u]] /\ data'[out[u]] = data[out[u]]
             /\ attr'[out[u]] = attr[out[u]]
  <2>1. out[u] # None /\ pc[u] # "idle"
    BY <1>2, Blocks DEF PlaceInv, Filling
  <2> QED
    BY <1>2, <2>1, NoticeFacts
<1>3. ASSUME pc[u] \in {"write", "close", "attrs"}, ~ disturbed'[u]
      PROVE  Goal(u)' = Goal(u)
  <2>1. pc[u] \in Filling /\ (call[u].op \in Creates \/ in[u] \in Inodes)
    BY <1>3 DEF PlaceInv, Filling
  <2> QED
    BY <1>2, <1>3, <2>1 DEF Goal, Meant, Same, Empty, Whole, Encoded
<1>4. ProgressInv(u)'
  <2> SUFFICES ASSUME pc'[u] \in Filling, ~ disturbed'[u] PROVE ProgressInv(u)'
    BY DEF ProgressInv
  <2>1. pc[u] \in Filling
    BY DEF Same
  <2>2. Then(call'[u]) = Then(call[u])
    BY DEF Same
  <2> QED
    BY <1>2, <1>3, <2>1, <2>2 DEF ProgressInv, Same, Empty, Whole
<1> QED
  BY <1>1, <1>4

----------------------------------------------------------------------------
(* The steps with which a call goes on.                                    *)

\* What every step of a call does.
Stepped(t) ==
    /\ ThreadsTyped' /\ Notice(t)
    /\ PlaceInv(t)' /\ ProgressInv(t)'
    /\ \A u \in Threads : u # t => Same(u)

LEMMA Kinds ==
    /\ Copies \cap Commands = {} /\ Creates \cap Copies = {} /\ Creates \cap Commands = {}
    /\ "touch" \in Commands
  BY DEF Copies, Commands, Creates

\* Nothing of the calls themselves changes with the state.
LEMMA Constant == /\ Empty' = Empty /\ Proper' = Proper /\ \A c : Then(c)' = Then(c)
  BY DEF Empty, Whole, Proper, Then, Wanted

LEMMA LookSteps ==
    ASSUME ThreadsTyped, Typed, NEW t \in Threads, PlaceInv(t), LookYes(t) \/ LookNo(t)
    PROVE  Stepped(t)
<1>1. pc[t] = "look" /\ call[t] \in Proper /\ call[t].op \in Copies \cup {"touch"}
  BY DEF LookYes, LookNo, PlaceInv
<1>2. PICK d \in Paths : dst' = [dst EXCEPT ![t] = d]
  <2>1. CASE LookYes(t)
    BY <2>1 DEF LookYes
  <2>2. CASE LookNo(t)
    <3>1. dst[t] \in Paths
      BY <1>1 DEF PlaceInv
    <3> QED
      BY <2>2, <3>1 DEF LookNo, ThreadsTyped
  <2> QED
    BY <2>1, <2>2
<1>3. PICK step \in Steps : step = AfterLook(call[t])
  BY DEF AfterLook, Steps
<1>4. in[t] = None /\ out[t] = None /\ buffer[t] = Empty /\ at[t] = 1 /\ 1 \in 1 .. Chunks + 1
  BY <1>1, Blocks DEF PlaceInv, Filling
<1>5. /\ in' = [in EXCEPT ![t] = None] /\ out' = [out EXCEPT ![t] = None]
      /\ buffer' = [buffer EXCEPT ![t] = Empty] /\ at' = [at EXCEPT ![t] = 1]
  BY <1>4 DEF LookYes, LookNo, handle, ThreadsTyped
<1>6. Goes(t, step)
  BY <1>3 DEF LookYes, LookNo
<1>a. /\ dst'[t] = d /\ in'[t] = None /\ out'[t] = None /\ buffer'[t] = Empty /\ at'[t] = 1
      /\ Handles(t)
  BY <1>2, <1>4, <1>5, Blocks DEF Handles, ThreadsTyped
<1>7. /\ ThreadsTyped' /\ Notice(t) /\ pc'[t] = step /\ call'[t] = call[t]
      /\ \A u \in Threads : u # t => Same(u)
  BY <1>6, <1>a, GoesFacts
<1>8. \/ step = "command" /\ call[t].op \in Commands
      \/ step = "source" /\ call[t].op \in Copies
  BY <1>1, <1>3, Kinds DEF AfterLook
<1> QED
  BY <1>1, <1>7, <1>8, <1>a, Constant DEF Stepped, PlaceInv, ProgressInv, Filling

LEMMA OpenSourceStep ==
    ASSUME ThreadsTyped, Typed, NEW t \in Threads, PlaceInv(t), OpenSource(t)
    PROVE  Stepped(t)
<1>1. /\ pc[t] = "source" /\ call[t] \in Proper /\ call[t].op \in Creates \cup Copies
      /\ dst[t] \in Paths
  BY DEF OpenSource, PlaceInv
<1>2. in[t] = None /\ out[t] = None /\ buffer[t] = Empty /\ at[t] = 1 /\ 1 \in 1 .. Chunks + 1
  BY <1>1, Blocks DEF PlaceInv, Filling
<1>3. PICK i \in Inodes \cup {None, Dir} :
         /\ in' = [in EXCEPT ![t] = i]
         /\ IF call[t].op \in Creates THEN i = None ELSE i \in Inodes \cup {Dir}
  <2>1. CASE call[t].op \in Creates
    <3>1. call[t].src = None
      BY <1>1, <2>1 DEF Proper
    <3> QED
      BY <1>2, <2>1, <3>1 DEF OpenSource, ThreadsTyped
  <2>2. CASE call[t].op \notin Creates
    <3>1. call[t].src \in Paths
      BY <1>1, <2>2 DEF Proper
    <3>2. /\ link[call[t].src] \in Inodes \cup {Dir}
          /\ in' = [in EXCEPT ![t] = link[call[t].src]]
      BY <3>1, Blocks DEF OpenSource
    <3> QED
      BY <2>2, <3>2
  <2> QED
    BY <2>1, <2>2
<1>4. /\ dst' = [dst EXCEPT ![t] = dst[t]] /\ out' = [out EXCEPT ![t] = None]
      /\ buffer' = [buffer EXCEPT ![t] = Empty] /\ at' = [at EXCEPT ![t] = 1]
  BY <1>2 DEF OpenSource, ThreadsTyped
<1>5. Goes(t, "open") /\ "open" \in Steps
  BY DEF OpenSource, Steps
<1>a. /\ dst'[t] = dst[t] /\ in'[t] = i /\ out'[t] = None /\ buffer'[t] = Empty /\ at'[t] = 1
      /\ Handles(t)
  BY <1>1, <1>2, <1>3, <1>4, Blocks DEF Handles, ThreadsTyped
<1>6. /\ ThreadsTyped' /\ Notice(t) /\ pc'[t] = "open" /\ call'[t] = call[t]
      /\ \A u \in Threads : u # t => Same(u)
  BY <1>5, <1>a, GoesFacts
<1> QED
  BY <1>1, <1>3, <1>6, <1>a, Constant DEF Stepped, PlaceInv, ProgressInv, Filling

LEMMA OpenOutStep ==
    ASSUME TypeOK, NEW t \in Threads, PlaceInv(t), OpenOut(t)
    PROVE  Stepped(t)
<1>1. /\ pc[t] = "open" /\ call[t] \in Proper /\ call[t].op \in Creates \cup Copies
      /\ dst[t] \in Paths
  BY DEF OpenOut, PlaceInv
<1>2. out[t] = None /\ buffer[t] = Empty /\ at[t] = 1 /\ 1 \in 1 .. Chunks + 1
  BY <1>1, Blocks DEF PlaceInv, Filling
<1>3. PICK o \in Inodes : link'[dst[t]] = o /\ data'[o] = Empty
  <2>1. CASE link[dst[t]] \in Inodes /\ data' = [data EXCEPT ![link[dst[t]]] = Empty] /\ UNCHANGED <<link, attr>>
    BY <2>1 DEF TypeOK
  <2>2. CASE Make(dst[t])
    <3>1. PICK i \in Inodes : link' = [link EXCEPT ![dst[t]] = i] /\ data' = [data EXCEPT ![i] = Empty]
      BY <1>1, <2>2, MakeFacts
    <3>2. link'[dst[t]] = i /\ data'[i] = Empty
      BY <1>1, <3>1 DEF TypeOK
    <3> QED
      BY <3>2
  <2> QED
    BY <2>1, <2>2 DEF OpenOut
<1>4. in[t] \in Inodes \cup {None, Dir}
  BY DEF TypeOK
<1>5. /\ dst' = [dst EXCEPT ![t] = dst[t]] /\ in' = [in EXCEPT ![t] = in[t]]
      /\ out' = [out EXCEPT ![t] = o]
      /\ buffer' = [buffer EXCEPT ![t] = Empty] /\ at' = [at EXCEPT ![t] = 1]
  BY <1>2, <1>3 DEF OpenOut, TypeOK
<1>6. Goes(t, "read") /\ "read" \in Steps
  BY DEF OpenOut, Steps
<1>a. /\ dst'[t] = dst[t] /\ in'[t] = in[t] /\ out'[t] = o /\ buffer'[t] = Empty /\ at'[t] = 1
      /\ Handles(t)
  BY <1>1, <1>2, <1>4, <1>5, Blocks DEF Handles, TypeOK
<1>7. /\ ThreadsTyped' /\ Notice(t) /\ pc'[t] = "read" /\ call'[t] = call[t]
      /\ \A u \in Threads : u # t => Same(u)
  BY <1>6, <1>a, GoesFacts, TypesSplit
<1>8. PlaceInv(t)'
  BY <1>1, <1>7, <1>a, Constant DEF PlaceInv, Filling
<1>9. ProgressInv(t)'
  BY <1>3, <1>7, <1>a, Constant, Blocks DEF ProgressInv, Filling
<1> QED
  BY <1>7, <1>8, <1>9 DEF Stepped

LEMMA EncodeStep ==
    ASSUME TypeOK, NEW t \in Threads, PlaceInv(t), ProgressInv(t), Encode(t)
    PROVE  Stepped(t)
<1>1. /\ pc[t] = "read" /\ call[t] \in Proper /\ call[t].op \in Creates
      /\ dst[t] \in Paths /\ out[t] \in Inodes /\ in[t] = None /\ at[t] = 1
  BY DEF Encode, PlaceInv, Filling
<1>2. PICK b \in Block : b = Whole(Encoded(call[t]))
  <2>1. call[t].text \in Texts
    BY <1>1 DEF Proper
  <2>2. Encoded(call[t]) \in Chunk
    BY <2>1, FilesAssumption DEF FilesAssumption, Encoded, Chunk
  <2> QED
    BY <2>2, Blocks
<1>3. /\ dst' = [dst EXCEPT ![t] = dst[t]] /\ in' = [in EXCEPT ![t] = in[t]]
      /\ out' = [out EXCEPT ![t] = out[t]]
      /\ buffer' = [buffer EXCEPT ![t] = b] /\ at' = [at EXCEPT ![t] = at[t]]
  BY <1>2 DEF Encode, TypeOK
<1>4. /\ dst'[t] = dst[t] /\ in'[t] = in[t] /\ out'[t] = out[t] /\ buffer'[t] = b /\ at'[t] = 1
      /\ Handles(t)
  BY <1>1, <1>2, <1>3, Blocks DEF Handles, TypeOK
<1>5. Goes(t, "write") /\ "write" \in Steps /\ data' = data /\ link' = link
  BY DEF Encode, Steps, files
<1>6. /\ ThreadsTyped' /\ Notice(t) /\ pc'[t] = "write" /\ call'[t] = call[t]
      /\ \A u \in Threads : u # t => Same(u)
  BY <1>4, <1>5, GoesFacts, TypesSplit
<1>7. PlaceInv(t)'
  BY <1>1, <1>4, <1>6, Constant, Blocks DEF PlaceInv, Filling
<1>8. ProgressInv(t)'
  <2> SUFFICES ASSUME ~ disturbed'[t] PROVE ProgressInv(t)'
    BY DEF ProgressInv
  <2>1. ~ disturbed[t]
    BY <1>6, NoticeFacts DEF TypeOK
  <2>2. link[dst[t]] = out[t] /\ data[out[t]] = Empty
    BY <1>1, <2>1 DEF ProgressInv, Filling
  <2>3. Goal(t)' = b
    BY <1>1, <1>2, <1>4, <1>6, Blocks DEF Goal, Meant, Encoded, Whole
  <2>4. \A j \in 1 .. Chunks : data'[out[t]][j] = None /\ ~ (j < 1)
    BY <1>5, <2>2, Blocks
  <2> QED
    BY <1>1, <1>4, <1>5, <1>6, <2>2, <2>3, <2>4 DEF ProgressInv
<1> QED
  BY <1>6, <1>7, <1>8 DEF Stepped

LEMMA ReadStep ==
    ASSUME TypeOK, NEW t \in Threads, PlaceInv(t), ProgressInv(t), Read(t)
    PROVE  Stepped(t)
<1>1. /\ pc[t] = "read" /\ call[t] \in Proper /\ call[t].op \in Copies /\ call[t].op \notin Creates
      /\ dst[t] \in Paths /\ out[t] \in Inodes /\ in[t] \in Inodes
      /\ at[t] \in 1 .. Chunks + 1 /\ buffer[t] \in Block /\ data[in[t]] \in Block
  <2>1. /\ pc[t] = "read" /\ call[t].op \in Copies /\ in[t] # Dir
    BY DEF Read
  <2>2. call[t].op \notin Creates
    BY <2>1, Kinds
  <2>3. call[t] \in Proper /\ dst[t] \in Paths /\ out[t] \in Inodes /\ in[t] \in Inodes
    BY <2>1, <2>2 DEF PlaceInv, Filling
  <2> QED
    BY <2>1, <2>2, <2>3 DEF TypeOK
<1>2. /\ dst' = [dst EXCEPT ![t] = dst[t]] /\ in' = [in EXCEPT ![t] = in[t]]
      /\ out' = [out EXCEPT ![t] = out[t]] /\ data' = data /\ link' = link
  BY DEF Read, TypeOK, files
<1>3. ~ disturbed'[t] /\ Notice(t) => /\ ~ disturbed[t] /\ link[dst[t]] = out[t] /\ data[out[t]] = Empty
         /\ \A j \in 1 .. Chunks : buffer[t][j] = IF j < at[t] THEN data[in[t]][j] ELSE None
  BY <1>1, NoticeFacts DEF TypeOK, ProgressInv, Filling
<1>4. CASE AtEnd(data[in[t]], at[t]) /\ at' = [at EXCEPT ![t] = 1] /\ Goes(t, "write") /\ UNCHANGED buffer
  <2>1. buffer' = [buffer EXCEPT ![t] = buffer[t]] /\ at' = [at EXCEPT ![t] = 1]
    BY <1>4 DEF TypeOK
  <2>2. /\ dst'[t] = dst[t] /\ in'[t] = in[t] /\ out'[t] = out[t] /\ buffer'[t] = buffer[t] /\ at'[t] = 1
        /\ Handles(t)
    BY <1>1, <1>2, <2>1, Blocks DEF Handles, TypeOK
  <2>3. /\ ThreadsTyped' /\ Notice(t) /\ pc'[t] = "write" /\ call'[t] = call[t]
        /\ \A u \in Threads : u # t => Same(u)
    BY <1>4, <2>2, GoesFacts, TypesSplit DEF Steps
  <2>4. PlaceInv(t)'
    BY <1>1, <2>2, <2>3, Constant, Blocks DEF PlaceInv, Filling
  <2>5. ASSUME ~ disturbed'[t] PROVE ProgressInv(t)'
    <3>1. /\ link[dst[t]] = out[t] /\ data[out[t]] = Empty
          /\ \A j \in 1 .. Chunks : buffer[t][j] = IF j < at[t] THEN data[in[t]][j] ELSE None
      BY <1>3, <2>3, <2>5
    <3>2. \A j \in 1 .. Chunks : buffer[t][j] = data[in[t]][j]
      BY <1>1, <1>4, <3>1, Blocks DEF AtEnd
    <3>3. buffer[t] = data[in[t]]
      BY <1>1, <3>2, Blocks
    <3>4. Goal(t)' = buffer[t]
      BY <1>1, <1>2, <2>2, <2>3, <3>1, <3>3, Constant DEF Goal, Meant
    <3>5. \A j \in 1 .. Chunks : data'[out[t]][j] = None /\ ~ (j < 1)
      BY <1>2, <3>1, Blocks
    <3> QED
      BY <1>1, <1>2, <2>2, <2>3, <3>1, <3>4, <3>5 DEF ProgressInv
  <2> QED
    BY <2>3, <2>4, <2>5 DEF Stepped, ProgressInv
<1>5. CASE /\ ~ AtEnd(data[in[t]], at[t])
           /\ buffer' = [buffer EXCEPT ![t][at[t]] = data[in[t]][at[t]]]
           /\ at' = [at EXCEPT ![t] = @ + 1]
           /\ Goes(t, "read")
  <2>1. at[t] \in 1 .. Chunks
    BY <1>1, <1>5, Blocks DEF AtEnd
  <2> DEFINE b == Patched(buffer[t], at[t], data[in[t]])
  <2>a. buffer[t] \in Block /\ data[in[t]] \in Block
    BY <1>1
  <2>2. b \in Block /\ \A j \in 1 .. Chunks : b[j] = IF j = at[t] THEN data[in[t]][j] ELSE buffer[t][j]
    BY <2>1, <2>a DEF Block, Patched
  <2>3. buffer' = [buffer EXCEPT ![t] = b] /\ at' = [at EXCEPT ![t] = at[t] + 1]
    BY <1>5 DEF TypeOK, Patched
  <2> HIDE DEF b
  <2>4. at[t] + 1 \in 1 .. Chunks + 1
    BY <2>1, Blocks
  <2>5. /\ dst'[t] = dst[t] /\ in'[t] = in[t] /\ out'[t] = out[t] /\ buffer'[t] = b /\ at'[t] = at[t] + 1
        /\ Handles(t)
    BY <1>1, <1>2, <2>2, <2>3, <2>4 DEF Handles, TypeOK
  <2>6. /\ ThreadsTyped' /\ Notice(t) /\ pc'[t] = "read" /\ call'[t] = call[t]
        /\ \A u \in Threads : u # t => Same(u)
    BY <1>5, <2>5, GoesFacts, TypesSplit DEF Steps
  <2>7. PlaceInv(t)'
    BY <1>1, <2>5, <2>6, Constant, Blocks DEF PlaceInv, Filling
  <2>8. ASSUME ~ disturbed'[t] PROVE ProgressInv(t)'
    <3>1. /\ link[dst[t]] = out[t] /\ data[out[t]] = Empty
          /\ \A j \in 1 .. Chunks : buffer[t][j] = IF j < at[t] THEN data[in[t]][j] ELSE None
      BY <1>3, <2>6, <2>8
    <3>2. \A j \in 1 .. Chunks : b[j] = IF j < at[t] + 1 THEN data[in[t]][j] ELSE None
      BY <2>1, <2>2, <3>1
    <3> QED
      BY <1>1, <1>2, <2>5, <2>6, <3>1, <3>2, Constant DEF ProgressInv
  <2> QED
    BY <2>6, <2>7, <2>8 DEF Stepped, ProgressInv
<1> QED
  BY <1>4, <1>5 DEF Read

LEMMA WriteStep ==
    ASSUME TypeOK, NEW t \in Threads, PlaceInv(t), ProgressInv(t), Write(t)
    PROVE  Stepped(t)
<1>1. /\ pc[t] = "write" /\ call[t] \in Proper /\ call[t].op \in Creates \cup Copies
      /\ dst[t] \in Paths /\ out[t] \in Inodes /\ in[t] \in Inodes \cup {None}
      /\ at[t] \in 1 .. Chunks + 1 /\ buffer[t] \in Block /\ data[out[t]] \in Block
      /\ call[t].op \notin Creates => in[t] \in Inodes
  <2>1. pc[t] = "write"
    BY DEF Write
  <2>2. /\ call[t] \in Proper /\ call[t].op \in Creates \cup Copies
        /\ dst[t] \in Paths /\ out[t] \in Inodes /\ in[t] # Dir
        /\ IF call[t].op \in Creates THEN in[t] = None ELSE in[t] \in Inodes \cup {Dir}
    BY <2>1 DEF PlaceInv, Filling
  <2> QED
    BY <2>1, <2>2 DEF TypeOK
<1>2. /\ dst' = [dst EXCEPT ![t] = dst[t]] /\ in' = [in EXCEPT ![t] = in[t]]
      /\ out' = [out EXCEPT ![t] = out[t]] /\ buffer' = [buffer EXCEPT ![t] = buffer[t]]
      /\ link' = link /\ attr' = attr
  BY DEF Write, TypeOK
<1>3. ~ disturbed'[t] /\ Notice(t) => /\ ~ disturbed[t] /\ link[dst[t]] = out[t] /\ buffer[t] = Goal(t)
         /\ \A j \in 1 .. Chunks : data[out[t]][j] = IF j < at[t] THEN buffer[t][j] ELSE None
  BY <1>1, NoticeFacts DEF TypeOK, ProgressInv, Filling
<1>4. CASE AtEnd(buffer[t], at[t]) /\ UNCHANGED data /\ at' = [at EXCEPT ![t] = 1] /\ Goes(t, "close")
  <2>2. /\ dst'[t] = dst[t] /\ in'[t] = in[t] /\ out'[t] = out[t] /\ buffer'[t] = buffer[t] /\ at'[t] = 1
        /\ Handles(t)
    BY <1>1, <1>2, <1>4, Blocks DEF Handles, TypeOK
  <2>3. /\ ThreadsTyped' /\ Notice(t) /\ pc'[t] = "close" /\ call'[t] = call[t]
        /\ \A u \in Threads : u # t => Same(u)
    BY <1>4, <2>2, GoesFacts, TypesSplit DEF Steps
  <2>4. PlaceInv(t)'
    BY <1>1, <2>2, <2>3, Constant, Blocks DEF PlaceInv, Filling
  <2>5. ASSUME ~ disturbed'[t] PROVE ProgressInv(t)'
    <3>1. /\ link[dst[t]] = out[t] /\ buffer[t] = Goal(t)
          /\ \A j \in 1 .. Chunks : data[out[t]][j] = IF j < at[t] THEN buffer[t][j] ELSE None
      BY <1>3, <2>3, <2>5
    <3>2. \A j \in 1 .. Chunks : data[out[t]][j] = buffer[t][j]
      BY <1>1, <1>4, <3>1, Blocks DEF AtEnd
    <3>3. data[out[t]] = buffer[t]
      BY <1>1, <3>2, Blocks
    <3>4. Goal(t)' = Goal(t)
      BY <1>1, <1>4, <2>2, <2>3, Constant DEF Goal, Meant, Encoded, Whole
    <3> QED
      BY <1>1, <1>2, <1>4, <2>2, <2>3, <3>1, <3>3, <3>4 DEF ProgressInv
  <2> QED
    BY <2>3, <2>4, <2>5 DEF Stepped, ProgressInv
<1>5. CASE /\ ~ AtEnd(buffer[t], at[t])
           /\ data' = [data EXCEPT ![out[t]][at[t]] = buffer[t][at[t]]]
           /\ at' = [at EXCEPT ![t] = @ + 1]
           /\ Goes(t, "write")
  <2>1. at[t] \in 1 .. Chunks
    BY <1>1, <1>5, Blocks DEF AtEnd
  <2> DEFINE b == Patched(data[out[t]], at[t], buffer[t])
  <2>2. b \in Block /\ \A j \in 1 .. Chunks : b[j] = IF j = at[t] THEN buffer[t][j] ELSE data[out[t]][j]
    <3>1. data[out[t]] \in Block /\ buffer[t] \in Block
      BY <1>1
    <3>2. Patched(data[out[t]], at[t], buffer[t]) \in Block
      BY <2>1, <3>1, PatchedBlock
    <3>3. \A j \in 1 .. Chunks :
             Patched(data[out[t]], at[t], buffer[t])[j] = IF j = at[t] THEN buffer[t][j] ELSE data[out[t]][j]
      BY <2>1, <3>1 DEF Patched, Block
    <3> QED
      BY <3>2, <3>3
  <2>3. data' = [data EXCEPT ![out[t]] = b] /\ at' = [at EXCEPT ![t] = at[t] + 1]
    BY <1>5 DEF TypeOK, Patched
  <2> HIDE DEF b
  <2>4. at[t] + 1 \in 1 .. Chunks + 1
    BY <2>1, Blocks
  <2>5. /\ dst'[t] = dst[t] /\ in'[t] = in[t] /\ out'[t] = out[t] /\ buffer'[t] = buffer[t]
        /\ at'[t] = at[t] + 1 /\ Handles(t)
    BY <1>1, <1>2, <2>3, <2>4 DEF Handles, TypeOK
  <2>6. /\ ThreadsTyped' /\ Notice(t) /\ pc'[t] = "write" /\ call'[t] = call[t]
        /\ \A u \in Threads : u # t => Same(u)
    BY <1>5, <2>5, GoesFacts, TypesSplit DEF Steps
  <2>7. PlaceInv(t)'
    BY <1>1, <2>5, <2>6, Constant, Blocks DEF PlaceInv, Filling
  <2>8. ASSUME ~ disturbed'[t] PROVE ProgressInv(t)'
    <3>1. /\ link[dst[t]] = out[t] /\ buffer[t] = Goal(t)
          /\ \A j \in 1 .. Chunks : data[out[t]][j] = IF j < at[t] THEN buffer[t][j] ELSE None
      BY <1>3, <2>6, <2>8
    <3>2. \A j \in 1 .. Chunks : b[j] = IF j < at[t] + 1 THEN buffer[t][j] ELSE None
      BY <2>1, <2>2, <3>1
    <3>3. data'[out[t]] = b /\ (in[t] \in Inodes /\ in[t] # out[t] => data'[in[t]] = data[in[t]])
      BY <1>1, <2>3 DEF TypeOK
    <3>4. Goal(t)' = Goal(t)
      BY <1>1, <2>5, <2>6, <3>3, Constant DEF Goal, Meant, Encoded, Whole
    <3> QED
      BY <1>1, <1>2, <2>5, <2>6, <3>1, <3>2, <3>3, <3>4 DEF ProgressInv
  <2> QED
    BY <2>6, <2>7, <2>8 DEF Stepped, ProgressInv
<1> QED
  BY <1>4, <1>5 DEF Write

\* The attributes: from the closed file to the first, or to the next.
LEMMA AttrStep ==
    ASSUME TypeOK, NEW t \in Threads, PlaceInv(t), ProgressInv(t),
           \/ pc[t] = "close" /\ Then(call[t]) # <<>> /\ UNCHANGED <<files, dst, handle>>
           \/ /\ pc[t] = "attrs" /\ SetAttr(t)
              /\ at[t] < Len(Then(call[t])) /\ at' = [at EXCEPT ![t] = @ + 1]
              /\ UNCHANGED <<dst, in, out, buffer>>,
           Goes(t, "attrs")
    PROVE  Stepped(t)
<1>1. /\ call[t] \in Proper /\ call[t].op \in Creates \cup Copies
      /\ dst[t] \in Paths /\ out[t] \in Inodes /\ in[t] # Dir
      /\ IF call[t].op \in Creates THEN in[t] = None ELSE in[t] \in Inodes \cup {Dir}
  BY DEF PlaceInv, Filling
<1>2. /\ dst' = [dst EXCEPT ![t] = dst[t]] /\ in' = [in EXCEPT ![t] = in[t]]
      /\ out' = [out EXCEPT ![t] = out[t]] /\ buffer' = [buffer EXCEPT ![t] = buffer[t]]
      /\ link' = link /\ data' = data
  BY DEF TypeOK, files, handle, SetAttr
<1>3. PICK n \in 1 .. 2 : /\ n \in 1 .. Len(Then(call[t])) /\ at' = [at EXCEPT ![t] = n]
                          /\ pc[t] = "close" => n = 1
                          /\ pc[t] = "attrs" => n = at[t] + 1
  <2>0. PICK m \in 0 .. 2 : m = Len(Then(call[t])) /\ (Then(call[t]) # <<>> => m # 0)
    BY ThenShape
  <2>1. CASE pc[t] = "close"
    <3>1. at[t] = 1 /\ at' = at /\ m # 0
      BY <2>0, <2>1 DEF PlaceInv, handle
    <3>2. at' = [at EXCEPT ![t] = 1] /\ 1 \in 1 .. m
      BY <2>0, <3>1 DEF TypeOK
    <3> QED
      BY <2>0, <2>1, <3>2
  <2>2. CASE pc[t] = "attrs"
    <3>1. at[t] \in 1 .. m /\ at[t] < m /\ at' = [at EXCEPT ![t] = at[t] + 1]
      BY <2>0, <2>2 DEF PlaceInv
    <3>a. PICK a \in 1 .. m : a = at[t]
      BY <3>1
    <3>b. a + 1 \in 1 .. 2 /\ a + 1 \in 1 .. m
      BY <3>1, <3>a
    <3>2. at[t] + 1 \in 1 .. 2 /\ at[t] + 1 \in 1 .. m
      BY <3>a, <3>b
    <3> QED
      BY <2>0, <2>2, <3>1, <3>2
  <2> QED
    BY <2>1, <2>2
<1>4. n \in 1 .. Chunks + 1
  BY FilesAssumption DEF FilesAssumption
<1>5. /\ dst'[t] = dst[t] /\ in'[t] = in[t] /\ out'[t] = out[t] /\ buffer'[t] = buffer[t] /\ at'[t] = n
      /\ Handles(t)
  BY <1>1, <1>2, <1>3, <1>4 DEF Handles, TypeOK
<1>6. /\ ThreadsTyped' /\ Notice(t) /\ pc'[t] = "attrs" /\ call'[t] = call[t]
      /\ \A u \in Threads : u # t => Same(u)
  BY <1>5, GoesFacts, TypesSplit DEF Steps
<1>7. PlaceInv(t)'
  BY <1>1, <1>3, <1>5, <1>6, Constant, Blocks DEF PlaceInv, Filling
<1>8. ASSUME ~ disturbed'[t] PROVE ProgressInv(t)'
  <2>1. /\ link[dst[t]] = out[t] /\ data[out[t]] = Goal(t)
        /\ pc[t] = "attrs" => \A j \in 1 .. at[t] - 1 : Then(call[t])[j] \in attr[out[t]]
    BY <1>6, <1>8, NoticeFacts DEF TypeOK, ProgressInv, Filling
  <2>2. Goal(t)' = Goal(t)
    BY <1>1, <1>2, <1>5, <1>6, Constant DEF Goal, Meant, Encoded, Whole
  <2>3. \A j \in 1 .. n - 1 : Then(call[t])[j] \in attr'[out[t]]
    <3>1. CASE pc[t] = "close"
      BY <1>3, <3>1
    <3>2. CASE pc[t] = "attrs"
      <4>1. attr' = [attr EXCEPT ![out[t]] = @ \cup {Then(call[t])[at[t]]}]
        BY <1>1, <2>1, <3>2, Blocks DEF SetAttr
      <4>2. attr'[out[t]] = attr[out[t]] \cup {Then(call[t])[at[t]]}
        BY <1>1, <4>1 DEF TypeOK
      <4>3. at[t] \in Nat /\ n = at[t] + 1
        BY <1>3, <3>2 DEF TypeOK
      <4>4. \A j \in 1 .. n - 1 : j = at[t] \/ j \in 1 .. at[t] - 1
        BY <4>3
      <4> QED
        BY <2>1, <3>2, <4>2, <4>4
    <3> QED
      BY <3>1, <3>2
  <2> QED
    BY <1>1, <1>2, <1>5, <1>6, <2>1, <2>2, <2>3, Constant DEF ProgressInv
<1> QED
  BY <1>6, <1>7, <1>8 DEF Stepped, ProgressInv

LEMMA EndStep ==
    ASSUME TypeOK, NEW t \in Threads, NEW how \in Answers, End(t, how)
    PROVE  Stepped(t)
  BY EndFacts, EndPlace, TypesSplit DEF Stepped

\* Every step of a call is of one of these kinds.
LEMMA WorksStepped ==
    ASSUME TypeOK, NEW t \in Threads, PlaceInv(t), ProgressInv(t), Works(t)
    PROVE  Stepped(t)
<1>1. CASE Fails(t) \/ SetAttrFails(t) \/ CommandFails(t) \/ Done(t)
  <2>1. \E how \in Answers : End(t, how)
    BY <1>1 DEF Fails, SetAttrFails, CommandFails, Done, Answers
  <2> QED
    BY <2>1, EndStep
<1>2. CASE LookYes(t) \/ LookNo(t)
  BY <1>2, LookSteps, TypesSplit
<1>3. CASE OpenSource(t)
  BY <1>3, OpenSourceStep, TypesSplit
<1>4. CASE OpenOut(t)
  BY <1>4, OpenOutStep
<1>5. CASE Encode(t)
  BY <1>5, EncodeStep
<1>6. CASE Read(t)
  BY <1>6, ReadStep
<1>7. CASE Write(t)
  BY <1>7, WriteStep
<1>8. CASE Close(t)
  <2>1. CASE End(t, "ok")
    BY <2>1, EndStep DEF Answers
  <2>2. CASE Then(call[t]) # <<>> /\ Goes(t, "attrs") /\ UNCHANGED <<dst, handle>>
    BY <1>8, <2>2, AttrStep DEF Close
  <2> QED
    BY <1>8, <2>1, <2>2 DEF Close
<1>9. CASE SetAttr(t)
  <2>1. CASE \E how \in {"ok", "raised"} : End(t, how)
    BY <2>1, EndStep DEF Answers
  <2>2. CASE /\ at[t] < Len(Then(call[t])) /\ at' = [at EXCEPT ![t] = @ + 1]
             /\ Goes(t, "attrs") /\ UNCHANGED <<dst, in, out, buffer>>
    <3>1. pc[t] = "attrs"
      BY <1>9 DEF SetAttr
    <3> QED
      BY <1>9, <2>2, <3>1, AttrStep
  <2> QED
    BY <1>9, <2>1, <2>2 DEF SetAttr
<1> QED
  BY <1>1, <1>2, <1>3, <1>4, <1>5, <1>6, <1>7, <1>8, <1>9
     DEF Works, Remove, Rmdir, Mkdir, Touch, Flush, Move

LEMMA WorksInv ==
    ASSUME FilesInv, NEW t \in Threads, Works(t)
    PROVE  FilesInv'
<1>1. TypeOK /\ PlaceInv(t) /\ ProgressInv(t)
  BY DEF FilesInv
<1>2. Stepped(t) /\ Typed'
  BY <1>1, WorksStepped, WorksTypes
<1>3. TypeOK'
  BY <1>2, TypesSplit DEF Stepped, TypeOK, Typed, ThreadsTyped
<1>4. ASSUME NEW u \in Threads, u # t PROVE PlaceInv(u)' /\ ProgressInv(u)'
  BY <1>2, <1>4, Elsewhere DEF FilesInv, Stepped
<1> QED
  BY <1>2, <1>3, <1>4 DEF FilesInv, Stepped

----------------------------------------------------------------------------
(* Calls that begin, and files that ssh-keygen writes.                     *)

LEMMA BeginInv ==
    ASSUME FilesInv, NEW t \in Threads, pc[t] = "idle", NEW c \in Proper, Begin(t, c),
           calls' \in [Threads -> Nat]
    PROVE  FilesInv' /\ \A u \in Threads : u # t => Same(u)
<1>0. TypeOK /\ PlaceInv(t) /\ c \in Calls /\ c.dst \in Paths
  BY DEF FilesInv, Proper, Calls
<1>1. /\ in[t] = None /\ out[t] = None /\ buffer[t] = Empty /\ at[t] = 1
  BY <1>0 DEF PlaceInv, Filling
<1>2. UNCHANGED <<link, data, attr, in, out, buffer, at>>
  BY DEF Begin, files, handle
<1>3. PICK step \in {"look", "command", "source"} :
         /\ pc' = [pc EXCEPT ![t] = step]
         /\ step = "look" => c.op \in Copies \cup {"touch"}
         /\ step = "command" => c.op \in Commands
         /\ step = "source" => c.op \in Creates \cup Copies
  <2>1. c.op \in Creates \cup Copies \cup Commands
    BY <1>0 DEF Calls
  <2> QED
    BY <2>1 DEF Begin, Looks, AfterLook, Copies
<1>4. /\ pc'[t] = step /\ call'[t] = c /\ dst'[t] = c.dst
      /\ \A u \in Threads : u # t => Same(u) /\ disturbed'[u] = disturbed[u]
  BY <1>0, <1>2, <1>3 DEF Begin, TypeOK, Same
<1>5. TypeOK'
  <2>1. pc' \in [Threads -> Steps]
    BY <1>0, <1>3 DEF TypeOK, Steps
  <2>2. /\ call' \in [Threads -> Calls \cup {NoCall}] /\ dst' \in [Threads -> Paths \cup {None}]
        /\ answer' \in [Threads -> Answers] /\ disturbed' \in [Threads -> BOOLEAN]
    BY <1>0 DEF TypeOK, Begin, Answers
  <2> QED
    BY <1>0, <1>2, <2>1, <2>2 DEF TypeOK
<1>6. PlaceInv(t)' /\ ProgressInv(t)'
  BY <1>0, <1>1, <1>2, <1>3, <1>4, Constant DEF PlaceInv, ProgressInv, Filling
<1>7. ASSUME NEW u \in Threads, u # t PROVE PlaceInv(u)' /\ ProgressInv(u)'
  <2>1. PlaceInv(u) /\ ProgressInv(u) /\ Same(u) /\ disturbed'[u] = disturbed[u]
    BY <1>4, <1>7 DEF FilesInv
  <2>2. PlaceInv(u)'
    BY <2>1 DEF PlaceInv, Same, Empty, Whole, Then, Wanted
  <2>3. Goal(u)' = Goal(u) /\ Then(call'[u]) = Then(call[u])
    BY <1>2, <2>1 DEF Goal, Meant, Same, Empty, Whole, Encoded
  <2> QED
    BY <1>2, <2>1, <2>2, <2>3, Constant DEF ProgressInv, Same
<1> QED
  BY <1>4, <1>5, <1>6, <1>7 DEF FilesInv

LEMMA SaveFacts ==
    ASSUME TypeOK, NEW p \in Paths, NEW k, Save(p, k)
    PROVE  \E i \in Inodes :
              /\ \/ link[p] = i
                 \/ /\ link[p] = None /\ \A q \in Paths : link[q] # i
                    /\ \A t \in Threads : in[t] # i /\ out[t] # i
              /\ link' = [link EXCEPT ![p] = i]
              /\ data' = [data EXCEPT ![i] = Whole(k)]
              /\ attr' = attr
<1> DEFINE i == IF link[p] = None THEN CHOOSE i \in Unused : TRUE ELSE link[p]
<1>1. link[p] = None => i \in Unused
  BY DEF Save
<1>2. link[p] # None => i = link[p] /\ i \in Inodes
  BY DEF Save, TypeOK
<1>3. /\ link' = [link EXCEPT ![p] = i]
      /\ data' = [data EXCEPT ![i] = Whole(k)]
      /\ attr' = attr
  BY DEF Save
<1> HIDE DEF i
<1> QED
  BY <1>1, <1>2, <1>3 DEF Unused

LEMMA SaveInv ==
    ASSUME FilesInv, NEW t \in Threads, pc[t] = "idle", NEW p \in Paths,
           NEW k \in Chunk, Save(p, k), Notice(t), UNCHANGED Rest
    PROVE  FilesInv' /\ \A u \in Threads : Same(u)
<1>1. PICK i \in Inodes : /\ link' = [link EXCEPT ![p] = i]
                          /\ data' = [data EXCEPT ![i] = Whole(k)]
                          /\ attr' = attr
  BY SaveFacts DEF FilesInv
<1>2. Typed'
  BY <1>1, Blocks DEF Typed, FilesInv, TypeOK
<1>3. \A u \in Threads : Same(u)
  BY DEF Rest, handle, Same
<1>4. TypeOK'
  BY <1>2, NoticeFacts DEF FilesInv, TypeOK, Typed, Rest, handle
<1>5. PlaceInv(t)' /\ ProgressInv(t)'
  BY <1>3 DEF FilesInv, PlaceInv, ProgressInv, Same, Empty, Whole, Then, Wanted, Filling
<1>6. ASSUME NEW u \in Threads, u # t PROVE PlaceInv(u)' /\ ProgressInv(u)'
  BY <1>3, <1>6, Elsewhere DEF FilesInv
<1> QED
  BY <1>3, <1>4, <1>5, <1>6 DEF FilesInv

----------------------------------------------------------------------------
(* The threads together: who does what, and with which arguments.          *)

\* A thread does one thing at a time.
OneThing(t) == keyAt[t] # "none" => pc[t] = "idle" /\ (t = Runner => stage = "none")

\* The arguments of a run, and how far it has come with them.
ArgsInv ==
    /\ runs \in Nat
    /\ runs = 0 => stage = "none" /\ args = <<>> /\ cmd = <<>>
    /\ runs # 0 => args \in RunArgs
    /\ next \in 1 .. Len(args) + 1
    /\ stage = "upload" => next <= Len(args) /\ args[next].op # "none"
    /\ stage = "ansible" => next = Len(args) + 1
    /\ phase # "idle" /\ reply = "none" => stage = "ansible"

BaseInv == FilesInv /\ KeysTypeOK /\ ArgsInv /\ \A t \in Threads : OneThing(t)

LEMMA ArgsFacts ==
    ASSUME ArgsInv
    PROVE  /\ args \in Seq(Argument) /\ Len(args) \in Nat
           /\ \A i \in 1 .. Len(args) :
                 /\ args[i] \in Argument
                 /\ args[i].op # "none" <=> Parent[args[i].word] = ExecDir
                 /\ args[i].op = "put" => args[i].src \in Paths /\ args[i].src \in Sources
                 /\ args[i].op = "create_file" =>
                       args[i].src = None /\ args[i].text \in Texts /\ Latin1[args[i].text] # None
           /\ stage # "none" => args \in RunArgs /\ Len(args) # 0
           /\ args \in RunArgs => Len(args) >= 2 /\ args[Len(args) - 1].op # "none"
<1>1. CASE runs = 0 /\ args \notin RunArgs
  BY <1>1 DEF ArgsInv
<1>2. CASE args \in RunArgs
  <2>1. /\ args \in Seq(Argument) /\ args # <<>>
        /\ Len(args) >= 2 /\ args[Len(args) - 1].op # "none"
        /\ \A i \in 1 .. Len(args) :
              /\ args[i].op # "none" <=> Parent[args[i].word] = ExecDir
              /\ args[i].op = "put" => args[i].src # None
              /\ args[i].op = "create_file" =>
                    args[i].src = None /\ args[i].text \in Texts /\ Latin1[args[i].text] # None
    BY <1>2, PlaybookAssumption DEF PlaybookAssumption
  <2>a. \A i \in 1 .. Len(args) : args[i] \in Argument
    BY <2>1
  <2>b. \A a \in Argument : a.src \in Paths \cup {None}
    BY DEF Argument
  <2>2. \A i \in 1 .. Len(args) : args[i] \in Argument /\ args[i].src \in Paths \cup {None}
    BY <2>a, <2>b
  <2>3. \A i \in 1 .. Len(args) : args[i].op = "put" => args[i].src \in Paths /\ args[i].src \in Sources
    BY <1>2, <2>1, <2>2 DEF Sources
  <2> QED
    BY <1>2, <2>1, <2>2, <2>3
<1> QED
  BY <1>1, <1>2 DEF ArgsInv

LEMMA ProperCalls ==
    /\ Requests \subseteq Proper
    /\ \A op \in {"rmdir", "mkdir"} : OnDir(op) \in Proper
    /\ ArgsInv => \A i \in 1 .. Len(args) : args[i].op # "none" => Uploads(args[i]) \in Proper
<1>1. Requests \subseteq Proper
  BY FilesAssumption DEF FilesAssumption, Proper
<1>2. \A op \in {"rmdir", "mkdir"} : OnDir(op) \in Proper
  BY PlaybookAssumption DEF PlaybookAssumption, OnDir, Proper, Calls, Commands, Creates, Copies
<1>3. ASSUME ArgsInv, NEW i \in 1 .. Len(args), args[i].op # "none"
      PROVE  Uploads(args[i]) \in Proper
  <2>1. args[i] \in Argument
    BY <1>3, ArgsFacts
  <2>2. args[i].op \in {"create_file", "put"}
    BY <1>3, <2>1 DEF Argument
  <2>3. /\ args[i].word \in Paths /\ args[i].src \in Paths \cup {None}
        /\ args[i].text \in Texts \cup {None}
    BY <2>1 DEF Argument
  <2>4. Uploads(args[i]) \in Calls
    BY <2>2, <2>3 DEF Uploads, Calls, Creates, Copies
  <2>5. CASE args[i].op = "create_file"
    BY <1>3, <2>4, <2>5, ArgsFacts DEF Uploads, Proper, Creates, Copies
  <2>6. CASE args[i].op = "put"
    BY <1>3, <2>4, <2>6, ArgsFacts DEF Uploads, Proper, Creates, Copies
  <2> QED
    BY <2>2, <2>5, <2>6
<1> QED
  BY <1>1, <1>2, <1>3

PlaybookActs == RunPlaybook \/ PlaybookWorks

\* What a playbook run does to the files and calls: it begins a call, at most.
LEMMA PlaybookBegins ==
    ASSUME ArgsInv, PlaybookActs
    PROVE  /\ pc[Runner] = "idle"
           /\ \/ UNCHANGED vars
              \/ UNCHANGED calls /\ \E c \in Proper : Begin(Runner, c)
<1>1. pc[Runner] = "idle"
  BY DEF PlaybookActs, PlaybookWorks, RunPlaybook, Cleared, Made, Upload, Uploaded, Execute, Plays,
         Played, Removed, Turn
<1>2. CASE Upload
  <2>1. next \in 1 .. Len(args)
    BY <1>2, ArgsFacts DEF Upload, ArgsInv
  <2> QED
    BY <1>1, <1>2, <2>1, ProperCalls DEF Upload
<1>3. CASE ~ Upload
  BY <1>1, <1>3, ProperCalls
     DEF PlaybookActs, PlaybookWorks, RunPlaybook, Cleared, Made, Uploaded, Execute, Plays,
         Played, Removed, Leave, Finally
<1> QED
  BY <1>2, <1>3

LEMMA ArgsStep ==
    ASSUME ArgsInv, PlaybookActs
    PROVE  ArgsInv'
<1>0. Len(args) \in Nat
  BY ArgsFacts
<1>1. CASE RunPlaybook
  <2>1. PICK a \in RunArgs : args' = a
    BY <1>1 DEF RunPlaybook
  <2>2. Len(a) \in Nat
    BY PlaybookAssumption DEF PlaybookAssumption
  <2>3. 1 \in 1 .. Len(a) + 1 /\ runs + 1 \in Nat /\ runs + 1 # 0
    BY <2>2 DEF ArgsInv
  <2> QED
    BY <1>1, <2>1, <2>3 DEF RunPlaybook, ArgsInv
<1>2. ASSUME UNCHANGED <<args, next, phase, reply, runs>>, stage' \in {"none", "make", "next", "remove"},
             stage # "none", stage # "ansible" \/ reply # "none"
      PROVE  ArgsInv'
  BY <1>2 DEF ArgsInv
<1>3. CASE Cleared \/ Made \/ Removed
  BY <1>2, <1>3 DEF Cleared, Made, Removed, Leave, Turn
<1>4. CASE Played
  BY <1>2, <1>4 DEF Played, Finally, Turn
<1>5. ASSUME NEW w, Names(w), next <= Len(args), stage # "none", stage # "ansible",
             UNCHANGED <<args, phase, reply, runs>>
      PROVE  ArgsInv'
  BY <1>0, <1>5 DEF ArgsInv, Names
<1>6. CASE Upload
  <2>1. CASE Names(args[next].word)
    BY <1>5, <1>6, <2>1 DEF Upload, Turn
  <2>2. CASE stage' = "upload" /\ args[next].op # "none" /\ UNCHANGED next
    BY <1>6, <2>2 DEF Upload, Turn, ArgsInv
  <2> QED
    BY <1>6, <2>1, <2>2 DEF Upload
<1>7. CASE Uploaded
  <2>1. CASE Names(args[next].word)
    BY <1>5, <1>7, <2>1 DEF Uploaded, Turn, ArgsInv
  <2>2. CASE Finally(TRUE) /\ UNCHANGED <<next, cmd>>
    BY <1>2, <1>7, <2>2 DEF Uploaded, Finally, Turn
  <2> QED
    BY <1>7, <2>1, <2>2 DEF Uploaded
<1>8. CASE Execute
  BY <1>0, <1>8 DEF Execute, Turn, ArgsInv
<1>9. CASE Plays
  BY <1>9 DEF Plays, Turn, ArgsInv
<1> QED
  BY <1>1, <1>3, <1>4, <1>6, <1>7, <1>8, <1>9 DEF PlaybookActs, PlaybookWorks

LEMMA Working == ASSUME NEW t, Works(t) PROVE pc[t] # "idle"
  BY DEF Works, Fails, LookYes, LookNo, OpenSource, OpenOut, Encode, Read, Write, Close, SetAttr,
         SetAttrFails, Remove, Rmdir, Mkdir, Touch, Flush, Move, CommandFails, Runs

LEMMA FilesUnchanged ==
    ASSUME FilesInv, UNCHANGED vars
    PROVE  FilesInv'
<1> USE DEF FilesInv, vars, files, handle
<1>1. TypeOK'
  BY DEF TypeOK
<1>2. ASSUME NEW u \in Threads PROVE PlaceInv(u)'
  <2>1. PlaceInv(u)
    OBVIOUS
  <2> QED
    BY <2>1, Constant DEF PlaceInv
<1>3. ASSUME NEW u \in Threads PROVE ProgressInv(u)'
  <2>1. ProgressInv(u)
    OBVIOUS
  <2>2. Goal(u)' = Goal(u)
    BY Constant DEF Goal, Meant, Encoded, Whole
  <2> QED
    BY <2>1, <2>2, Constant DEF ProgressInv
<1> QED
  BY <1>1, <1>2, <1>3

\* Which steps a key request takes, and what they do to its state.
LEMMA KeyTypes ==
    ASSUME TypeOK, KeysTypeOK, NEW t \in Threads, AskKey(t) \/ KeyWorks(t)
    PROVE  /\ KeysTypeOK'
           /\ \A u \in Threads : u # t => keyAt'[u] = keyAt[u] /\ made'[u] = made[u]
<1> USE DEF KeysTypeOK, KeyGoes
<1>0. ASSUME NEW k \in Chunk \cup {"raised"}, KeyEnds(t, k), UNCHANGED keyCalls, spoiled' \in BOOLEAN
      PROVE  /\ KeysTypeOK'
             /\ \A u \in Threads : u # t => keyAt'[u] = keyAt[u] /\ made'[u] = made[u]
  BY <1>0 DEF KeyEnds
<1>1. CASE AskKey(t) \/ KeyLook(t)
  BY <1>1 DEF AskKey, KeyLook
<1>2. CASE KeyFails(t)
  BY <1>0, <1>2, Blocks DEF KeyFails
<1>3. CASE Cat(t)
  <2>1. (IF link[Pub] \in Inodes THEN data[link[Pub]][1] ELSE None) \in Chunk
    BY Blocks DEF TypeOK
  <2> QED
    BY <1>0, <1>3, <2>1 DEF Cat
<1>4. CASE Keygen(t)
  BY <1>4 DEF Keygen
<1>5. CASE SavePrivate(t) \/ SavePublic(t)
  <2>1. spoiled' \in BOOLEAN /\ UNCHANGED keyCalls
    BY <1>5 DEF SavePrivate, SavePublic
  <2>2. CASE KeyEnds(t, "raised")
    BY <1>0, <2>1, <2>2
  <2>3. CASE UNCHANGED <<made, key>> /\ keyAt' \in {[keyAt EXCEPT ![t] = x] : x \in {"public", "cat"}}
    BY <2>1, <2>3
  <2> QED
    BY <1>5, <2>2, <2>3 DEF SavePrivate, SavePublic
<1> QED
  BY <1>1, <1>2, <1>3, <1>4, <1>5 DEF KeyWorks

\* The files and calls when a key is asked for.
LEMMA KeyFiles ==
    ASSUME BaseInv, NEW t \in Threads, AskKey(t) \/ KeyWorks(t)
    PROVE  FilesInv' /\ pc' = pc
<1>1. CASE UNCHANGED vars
  BY <1>1, FilesUnchanged DEF BaseInv, vars
<1>2. ASSUME NEW p \in {Prv, Pub}, Save(p, made[t]), keyAt[t] # "none", Notice(t), UNCHANGED Rest
      PROVE  FilesInv' /\ pc' = pc
  <2>1. pc[t] = "idle" /\ made[t] \in Keys \cup {None}
    BY <1>2 DEF BaseInv, OneThing, KeysTypeOK
  <2>2. made[t] \in Chunk /\ p \in Paths
    BY <2>1, KeysAssumption DEF KeysAssumption, Chunk
  <2> QED
    BY <1>2, <2>1, <2>2, SaveInv DEF BaseInv, Rest
<1>3. CASE SavePrivate(t)
  BY <1>2, <1>3 DEF SavePrivate
<1>4. CASE SavePublic(t)
  BY <1>2, <1>4 DEF SavePublic
<1> QED
  BY <1>1, <1>3, <1>4 DEF AskKey, KeyWorks, KeyLook, Keygen, Cat, KeyFails

\* The steps of the program, by what they do to the files.
LEMMA WorkCases ==
    ASSUME WorkNext
    PROVE  \/ \E t \in Threads : Free(t) /\ Call(t) /\ UNCHANGED <<keyVars, run, osVars>>
           \/ \E t \in Threads : /\ Works(t) /\ spoiled' = (spoiled \/ ~ KeyFilesKept)
                                 /\ UNCHANGED <<keyAt, made, key, keyCalls, run, osVars>>
           \/ \E t \in Threads : /\ (Free(t) /\ AskKey(t)) \/ KeyWorks(t)
                                 /\ UNCHANGED <<run, osVars>>
           \/ OsStep /\ UNCHANGED <<vars, keyVars, run>>
           \/ /\ (Free(Runner) /\ RunPlaybook) \/ PlaybookWorks
              /\ UNCHANGED <<keyVars, osVars>>
<1>1. CASE OsStep
  <2>1. UNCHANGED vars
    BY <1>1 DEF OsStep, Inquire, OsWorks, OsLook, Fetch, FetchFails, Exists, Store, Give, OsRaises, Upgrade
  <2> QED
    BY <1>1, <2>1 DEF OsStep
<1>2. CASE PlaybookStep
  BY <1>2 DEF PlaybookStep
<1>3. ASSUME NEW t \in Threads, FileStep(t)
      PROVE  \/ Free(t) /\ Call(t) /\ UNCHANGED <<keyVars, run, osVars>>
             \/ /\ Works(t) /\ spoiled' = (spoiled \/ ~ KeyFilesKept)
                /\ UNCHANGED <<keyAt, made, key, keyCalls, run, osVars>>
  BY <1>3 DEF FileStep, keyVars
<1>4. ASSUME NEW t \in Threads, KeyStep(t)
      PROVE  ((Free(t) /\ AskKey(t)) \/ KeyWorks(t)) /\ UNCHANGED <<run, osVars>>
  BY <1>4 DEF KeyStep
<1> QED
  BY <1>1, <1>2, <1>3, <1>4 DEF WorkNext

LEMMA BaseStep == BaseInv /\ [WorkNext]_workVars => BaseInv'
<1> SUFFICES ASSUME BaseInv, [WorkNext]_workVars PROVE BaseInv'
  OBVIOUS
<1>0. ASSUME UNCHANGED run PROVE ArgsInv' /\ stage' = stage
  BY <1>0 DEF run, BaseInv, ArgsInv
<1>1. ASSUME NEW t \in Threads, Free(t), Call(t), UNCHANGED <<keyVars, run, osVars>>
      PROVE  BaseInv'
  <2>1. PICK c \in Requests : Begin(t, c)
    BY <1>1 DEF Call
  <2>2. c \in Proper /\ pc[t] = "idle" /\ calls' \in [Threads -> Nat]
    BY <1>1, ProperCalls DEF Call, BaseInv, FilesInv, TypeOK
  <2>3. FilesInv' /\ \A u \in Threads : u # t => Same(u)
    BY <2>1, <2>2, BeginInv DEF BaseInv
  <2>4. KeysTypeOK' /\ keyAt' = keyAt
    BY <1>1 DEF keyVars, BaseInv, KeysTypeOK
  <2>5. ASSUME NEW u \in Threads PROVE OneThing(u)'
    BY <1>0, <1>1, <2>3, <2>4 DEF Free, BaseInv, OneThing, Same
  <2> QED
    BY <1>0, <1>1, <2>3, <2>4, <2>5 DEF BaseInv
<1>2. ASSUME NEW t \in Threads, Works(t), spoiled' = (spoiled \/ ~ KeyFilesKept),
             UNCHANGED <<keyAt, made, key, keyCalls, run, osVars>>
      PROVE  BaseInv'
  <2>1. FilesInv'
    BY <1>2, WorksInv DEF BaseInv
  <2>2. \A u \in Threads : u # t => Same(u)
    BY <1>2, WorksStepped DEF BaseInv, FilesInv, Stepped
  <2>3. spoiled' \in BOOLEAN
    BY <1>2
  <2>4. KeysTypeOK'
    BY <1>2, <2>3 DEF BaseInv, KeysTypeOK
  <2>5. keyAt[t] = "none"
    BY <1>2, Working DEF BaseInv, OneThing
  <2>6. ASSUME NEW u \in Threads PROVE OneThing(u)'
    BY <1>0, <1>2, <2>2, <2>5 DEF BaseInv, OneThing, Same
  <2> QED
    BY <1>0, <1>2, <2>1, <2>4, <2>6 DEF BaseInv
<1>3. ASSUME NEW t \in Threads, (Free(t) /\ AskKey(t)) \/ KeyWorks(t), UNCHANGED <<run, osVars>>
      PROVE  BaseInv'
  <2>1. FilesInv' /\ pc' = pc
    BY <1>3, KeyFiles
  <2>2. KeysTypeOK' /\ \A u \in Threads : u # t => keyAt'[u] = keyAt[u]
    BY <1>3, KeyTypes DEF BaseInv, FilesInv
  <2>3. pc[t] = "idle" /\ (t = Runner => stage = "none")
    BY <1>3 DEF AskKey, Free, BaseInv, OneThing, KeyWorks, KeyLook, Keygen, SavePrivate, SavePublic, Cat,
                KeyFails
  <2>4. ASSUME NEW u \in Threads PROVE OneThing(u)'
    BY <1>0, <1>3, <2>1, <2>2, <2>3 DEF BaseInv, OneThing
  <2> QED
    BY <1>0, <1>3, <2>1, <2>2, <2>4 DEF BaseInv
<1>4. CASE UNCHANGED <<vars, keyVars, run>>
  <2>1. FilesInv'
    BY <1>4, FilesUnchanged DEF BaseInv
  <2>2. KeysTypeOK' /\ keyAt' = keyAt /\ pc' = pc
    BY <1>4 DEF keyVars, vars, BaseInv, KeysTypeOK
  <2>3. \A u \in Threads : OneThing(u)'
    BY <1>0, <1>4, <2>2 DEF BaseInv, OneThing
  <2> QED
    BY <1>0, <1>4, <2>1, <2>2, <2>3 DEF BaseInv
<1>5. ASSUME (Free(Runner) /\ RunPlaybook) \/ PlaybookWorks, UNCHANGED <<keyVars, osVars>>
      PROVE  BaseInv'
  <2>0. PlaybookActs /\ Runner \in Threads
    BY <1>5, PlaybookAssumption DEF PlaybookActs, PlaybookAssumption
  <2>1. keyAt[Runner] = "none"
    BY <1>5, <2>0 DEF Free, BaseInv, OneThing, PlaybookWorks, Cleared, Made, Upload, Uploaded, Execute, Plays,
                Played, Removed, Turn
  <2>2. FilesInv' /\ \A u \in Threads : u # Runner => pc'[u] = pc[u]
    <3>1. CASE UNCHANGED vars
      BY <3>1, FilesUnchanged DEF BaseInv, vars
    <3>2. ASSUME UNCHANGED calls, NEW c \in Proper, Begin(Runner, c), pc[Runner] = "idle"
          PROVE  FilesInv' /\ \A u \in Threads : u # Runner => pc'[u] = pc[u]
      <4>1. calls' \in [Threads -> Nat]
        BY <3>2 DEF BaseInv, FilesInv, TypeOK
      <4> QED
        BY <2>0, <3>2, <4>1, BeginInv DEF BaseInv, Same
    <3> QED
      BY <2>0, <3>1, <3>2, PlaybookBegins DEF BaseInv
  <2>3. KeysTypeOK' /\ keyAt' = keyAt
    BY <1>5 DEF keyVars, BaseInv, KeysTypeOK
  <2>4. ArgsInv'
    BY <2>0, ArgsStep DEF BaseInv
  <2>5. ASSUME NEW u \in Threads PROVE OneThing(u)'
    BY <2>1, <2>2, <2>3 DEF BaseInv, OneThing
  <2> QED
    BY <2>2, <2>3, <2>4, <2>5 DEF BaseInv
<1>6. CASE WorkNext
  BY <1>1, <1>2, <1>3, <1>4, <1>5, <1>6, WorkCases
<1>7. CASE UNCHANGED workVars
  BY <1>4, <1>7 DEF workVars
<1> QED
  BY <1>6, <1>7

LEMMA BaseInit == WorkInit => BaseInv
<1> SUFFICES ASSUME WorkInit PROVE BaseInv
  OBVIOUS
<1>1. TypeOK
  <2>1. \A i \in Inodes : Whole(Held[i]) \in Block
    BY FilesAssumption, Blocks DEF FilesAssumption, Chunk
  <2>2. Typed
    BY <2>1, FilesAssumption DEF WorkInit, Init, FilesAssumption, Typed
  <2>3. 1 \in 1 .. Chunks + 1
    BY Blocks
  <2>4. ThreadsTyped
    BY <2>3, Blocks DEF WorkInit, Init, ThreadsTyped, Steps, Answers
  <2> QED
    BY <2>2, <2>4, TypesSplit
<1>2. \A t \in Threads : PlaceInv(t) /\ ProgressInv(t)
  BY DEF WorkInit, Init, PlaceInv, ProgressInv, Filling
<1>3. KeysTypeOK
  BY DEF WorkInit, KeysInit, KeysTypeOK, Chunk
<1>4. ArgsInv
  BY DEF WorkInit, PlaybookInit, ArgsInv, Ansible!Init
<1>5. \A t \in Threads : OneThing(t)
  BY DEF WorkInit, KeysInit, OneThing
<1> QED
  BY <1>1, <1>2, <1>3, <1>4, <1>5 DEF BaseInv, FilesInv

(* Calls, their handles and the files keep their types, and a call that nobody
   disturbed has read and written what it should have at each of its steps. *)
THEOREM BaseInductive == WorkSpec => []BaseInv
<1> QED
  BY BaseInit, BaseStep, PTL DEF WorkSpec

----------------------------------------------------------------------------
(* What a call that ends has left behind.                                  *)

LEMMA GoesOn == ASSUME TypeOK, NEW t \in Threads, NEW step, Goes(t, step) PROVE pc'[t] = step
  BY DEF Goes, TypeOK

LEMMA Ends ==
    ASSUME TypeOK, NEW t \in Threads, NEW how, End(t, how)
    PROVE  pc'[t] = "idle" /\ answer'[t] = how
  BY DEF End, TypeOK

\* A file is written well by closing it or by setting its last attribute.
LEMMA WrittenBy ==
    ASSUME TypeOK, NEW t \in Threads, PlaceInv(t), Works(t),
           call[t].op \in Creates \cup Copies, pc'[t] = "idle", answer'[t] = "ok"
    PROVE  \/ pc[t] = "close" /\ Then(call[t]) = <<>> /\ UNCHANGED files
           \/ SetAttr(t) /\ at[t] = Len(Then(call[t]))
<1>1. ~ Fails(t) /\ ~ SetAttrFails(t)
  BY Ends DEF Fails, SetAttrFails
<1>2. ~ LookYes(t) /\ ~ LookNo(t)
  BY GoesOn DEF LookYes, LookNo, AfterLook
<1>3. ~ OpenSource(t) /\ ~ OpenOut(t) /\ ~ Encode(t) /\ ~ Read(t) /\ ~ Write(t)
  BY GoesOn DEF OpenSource, OpenOut, Encode, Read, Write
<1>4. pc[t] # "command"
  BY Kinds DEF PlaceInv
<1>5. CASE Close(t)
  BY <1>5, GoesOn DEF Close
<1>6. CASE SetAttr(t)
  BY <1>6, GoesOn DEF SetAttr
<1> QED
  BY <1>1, <1>2, <1>3, <1>4, <1>5, <1>6
     DEF Works, Remove, Rmdir, Mkdir, Touch, Flush, Move, CommandFails, Runs

LEMMA Leaves ==
    ASSUME TypeOK, NEW t \in Threads, PlaceInv(t), ProgressInv(t), Works(t),
           call[t].op \in Creates \cup Copies, pc'[t] = "idle", answer'[t] = "ok", ~ disturbed'[t]
    PROVE  /\ link'[dst[t]] = out[t] /\ out[t] \in Inodes /\ dst[t] \in Paths
           /\ \A i \in 1 .. Len(Then(call[t])) : Then(call[t])[i] \in attr'[out[t]]
           /\ data'[out[t]] = Goal(t)
           /\ in[t] # Dir /\ (call[t].op \in Copies => in[t] \in Inodes)
<1>1. ~ disturbed[t]
  BY WorksStepped, NoticeFacts DEF Stepped, TypeOK
<1>2. pc[t] \in {"close", "attrs"}
  BY WrittenBy DEF SetAttr
<1>3. /\ out[t] \in Inodes /\ dst[t] \in Paths /\ link[dst[t]] = out[t] /\ data[out[t]] = Goal(t)
      /\ in[t] # Dir /\ (call[t].op \in Copies => in[t] \in Inodes)
  BY <1>1, <1>2, Kinds DEF PlaceInv, ProgressInv, Filling
<1>4. CASE pc[t] = "close"
  <2>1. Then(call[t]) = <<>> /\ UNCHANGED files
    BY <1>4, WrittenBy DEF SetAttr
  <2> QED
    BY <1>3, <2>1 DEF files
<1>5. CASE pc[t] = "attrs"
  <2>1. SetAttr(t) /\ at[t] = Len(Then(call[t]))
    BY <1>5, WrittenBy
  <2>2. /\ link' = link /\ data' = data
        /\ attr' = [attr EXCEPT ![out[t]] = @ \cup {Then(call[t])[at[t]]}]
    BY <1>3, <2>1, Blocks DEF SetAttr
  <2>3. attr'[out[t]] = attr[out[t]] \cup {Then(call[t])[at[t]]}
    BY <1>3, <2>2 DEF TypeOK
  <2>4. \A j \in 1 .. at[t] - 1 : Then(call[t])[j] \in attr[out[t]]
    BY <1>1, <1>5 DEF ProgressInv, Filling
  <2>5. at[t] \in Nat
    BY DEF TypeOK
  <2>6. \A j \in 1 .. at[t] : j = at[t] \/ j \in 1 .. at[t] - 1
    BY <2>5
  <2> QED
    BY <1>3, <2>1, <2>2, <2>3, <2>4, <2>6
<1> QED
  BY <1>2, <1>4, <1>5

\* Only its own steps end a call.
LEMMA EndsItself ==
    ASSUME BaseInv, [WorkNext]_workVars, NEW t \in Threads, pc[t] # "idle", pc'[t] # pc[t] \/ answer'[t] # answer[t]
    PROVE  Works(t)
<1>1. ASSUME NEW u \in Threads, Call(u) PROVE FALSE
  BY <1>1 DEF Call, Begin, BaseInv, FilesInv, TypeOK
<1>2. ASSUME NEW u \in Threads, Works(u) PROVE Works(t)
  <2>1. \A x \in Threads : x # u => Same(x)
    BY <1>2, WorksStepped DEF BaseInv, FilesInv, Stepped
  <2> QED
    BY <1>2, <2>1 DEF Same
<1>3. ASSUME NEW u \in Threads, AskKey(u) \/ KeyWorks(u) PROVE FALSE
  BY <1>3 DEF AskKey, KeyWorks, KeyLook, Keygen, SavePrivate, SavePublic, Cat, KeyFails, Rest, vars
<1>4. CASE UNCHANGED vars
  BY <1>4 DEF vars
<1>5. CASE PlaybookActs
  <2>1. Runner \in Threads
    BY PlaybookAssumption DEF PlaybookAssumption
  <2>2. PICK c \in Proper : Begin(Runner, c) /\ pc[Runner] = "idle"
    BY <1>4, <1>5, PlaybookBegins DEF BaseInv, vars
  <2> QED
    BY <2>1, <2>2 DEF Begin, BaseInv, FilesInv, TypeOK
<1> QED
  BY <1>1, <1>2, <1>3, <1>4, <1>5, WorkCases DEF workVars, PlaybookActs

(* Whatever other threads do to the files of the host, a create, put, get,
   transfer or copy_to that ends well and whose files nobody else changed
   has left all of its content and attributes (filesystem.py:137-162,
   213-271, host.py:278-301). *)
THEOREM CallsDeliver == WorkSpec => Delivered
<1> DEFINE Delivers(t) ==
        /\ call[t] # NoCall /\ call[t].op \in Creates \cup Copies
        /\ pc'[t] = "idle" /\ answer'[t] = "ok" /\ ~ disturbed'[t]
        => /\ link'[dst[t]] = out[t]
           /\ \A i \in 1 .. Len(Then(call[t])) : Then(call[t])[i] \in attr'[out[t]]
           /\ data'[out[t]] = IF in[t] = out[t] THEN Empty ELSE Meant(t)
<1>1. BaseInv /\ [WorkNext]_workVars => [\A t \in Threads : Delivers(t)]_vars
  <2> SUFFICES ASSUME BaseInv, [WorkNext]_workVars, NEW t \in Threads,
                      call[t] # NoCall, call[t].op \in Creates \cup Copies,
                      pc'[t] = "idle", answer'[t] = "ok", ~ disturbed'[t]
               PROVE  /\ link'[dst[t]] = out[t]
                      /\ \A i \in 1 .. Len(Then(call[t])) : Then(call[t])[i] \in attr'[out[t]]
                      /\ data'[out[t]] = IF in[t] = out[t] THEN Empty ELSE Meant(t)
    OBVIOUS
  <2>1. TypeOK /\ PlaceInv(t) /\ ProgressInv(t)
    BY DEF BaseInv, FilesInv
  <2>2. pc[t] # "idle"
    BY <2>1 DEF PlaceInv
  <2>3. Works(t)
    BY <2>2, EndsItself
  <2> QED
    BY <2>1, <2>3, Leaves DEF Goal
<1> QED
  BY <1>1, BaseInductive, PTL DEF WorkSpec, Delivered

\* A file becomes executable only by a step that sets an attribute.
LEMMA Executable ==
    ASSUME BaseInv, WorkNext, NEW i \in Inodes, "x" \in attr'[i] \ attr[i]
    PROVE  \E t \in Threads : SetAttr(t)
<1>1. ASSUME NEW t \in Threads, Works(t), ~ SetAttr(t) PROVE FALSE
  <2>1. TypeOK /\ PlaceInv(t)
    BY DEF BaseInv, FilesInv
  <2>2. ASSUME NEW p \in Paths, Make(p) PROVE FALSE
    BY <2>1, <2>2, MakeFacts DEF TypeOK
  <2>3. CASE OpenOut(t)
    BY <2>1, <2>2, <2>3 DEF OpenOut, PlaceInv
  <2>4. CASE Touch(t) \/ Flush(t)
    BY <2>1, <2>2, <2>4 DEF Touch, Flush, files, PlaceInv, Runs
  <2>5. CASE UNCHANGED attr
    BY <2>5
  <2> QED
    BY <1>1, <2>3, <2>4, <2>5
       DEF Works, Fails, LookYes, LookNo, OpenSource, Encode, Read, Write, Close, SetAttrFails,
           Remove, Rmdir, Mkdir, Move, CommandFails, files
<1>2. ASSUME NEW t \in Threads, AskKey(t) \/ KeyWorks(t) PROVE FALSE
  BY <1>2 DEF AskKey, KeyWorks, KeyLook, Keygen, SavePrivate, SavePublic, Cat, KeyFails, Save, vars, files
<1>3. ASSUME NEW t \in Threads, Call(t) PROVE FALSE
  BY <1>3 DEF Call, Begin, files
<1>4. CASE UNCHANGED vars
  BY <1>4 DEF vars, files
<1>5. CASE PlaybookActs
  BY <1>4, <1>5, PlaybookBegins DEF BaseInv, Begin, files
<1> QED
  BY <1>1, <1>2, <1>3, <1>4, <1>5, WorkCases DEF PlaybookActs

(* Whichever step of its creation fails, a script becomes executable only once
   it is whole (filesystem.py:158-162, host.py:293-299). *)
THEOREM ScriptsAreWhole == WorkSpec => RunnableIsWhole
<1> DEFINE WholeFirst(i) ==
        "x" \in attr'[i] \ attr[i] =>
           \E t \in Threads :
              /\ pc[t] = "attrs"
              /\ disturbed[t] \/ (out[t] = i /\ (in[t] = i \/ data[i] = Meant(t)))
<1>1. BaseInv /\ [WorkNext]_workVars => [\A i \in Inodes : WholeFirst(i)]_vars
  <2> SUFFICES ASSUME BaseInv, WorkNext, NEW i \in Inodes, "x" \in attr'[i] \ attr[i]
               PROVE  \E t \in Threads :
                         /\ pc[t] = "attrs"
                         /\ disturbed[t] \/ (out[t] = i /\ (in[t] = i \/ data[i] = Meant(t)))
    BY DEF workVars
  <2>1. PICK t \in Threads : SetAttr(t)
    BY Executable
  <2>2. TypeOK /\ PlaceInv(t) /\ ProgressInv(t) /\ pc[t] = "attrs"
    BY <2>1 DEF BaseInv, FilesInv, SetAttr
  <2>3. link[dst[t]] = i
    BY <2>1, <2>2 DEF SetAttr, TypeOK
  <2>4. ~ disturbed[t] => link[dst[t]] = out[t] /\ data[out[t]] = Goal(t)
    BY <2>2 DEF ProgressInv, Filling
  <2>5. ~ disturbed[t] => out[t] = i /\ (in[t] = i \/ data[i] = Meant(t))
    BY <2>3, <2>4 DEF Goal
  <2> QED
    BY <2>2, <2>5
<1> QED
  BY <1>1, BaseInductive, PTL DEF WorkSpec, RunnableIsWhole

----------------------------------------------------------------------------
(* Keys.                                                                   *)

\* A public key that is there belongs to the private key.
Pair ==
    link[Pub] \in Inodes /\ data[link[Pub]][1] \in Keys =>
        link[Prv] \in Inodes /\ data[link[Prv]] = Whole(data[link[Pub]][1])

\* ssh-keygen writes where no private key was, and the public half is still to come.
KeyInv(t) ==
    /\ keyAt[t] \in {"private", "public"} => made[t] \in Keys
    /\ keyAt[t] = "private" => link[Prv] = None
    /\ keyAt[t] = "public" => /\ link[Prv] \in Inodes /\ link[Pub] # link[Prv]
                              /\ data[link[Prv]] = Whole(made[t])

PairInv == ~ spoiled => Pair /\ \A t \in Threads : KeyInv(t)

\* Steps that keep the key files.
LEMMA PairKept ==
    ASSUME PairInv, KeyFilesKept, spoiled => spoiled',
           \A u \in Threads : /\ keyAt'[u] \notin {"private", "public"} \/ keyAt'[u] = keyAt[u]
                              /\ keyAt'[u] = keyAt[u] => made'[u] = made[u] \/ keyAt[u] \notin {"private", "public"}
    PROVE  PairInv'
<1> SUFFICES ASSUME ~ spoiled' PROVE Pair' /\ \A u \in Threads : KeyInv(u)'
  BY DEF PairInv
<1>1. Pair /\ \A u \in Threads : KeyInv(u)
  BY DEF PairInv
<1>2. /\ link'[Prv] = link[Prv] /\ link'[Pub] = link[Pub]
      /\ link[Prv] \in Inodes => data'[link[Prv]] = data[link[Prv]]
      /\ link[Pub] \in Inodes => data'[link[Pub]] = data[link[Pub]]
  BY DEF KeyFilesKept
<1>3. Pair'
  BY <1>1, <1>2 DEF Pair, Whole
<1>4. ASSUME NEW u \in Threads PROVE KeyInv(u)'
  <2>1. KeyInv(u)
    BY <1>1
  <2> QED
    BY <1>2, <2>1 DEF KeyInv, Whole
<1> QED
  BY <1>3, <1>4

LEMMA KeygenPair ==
    ASSUME BaseInv, PairInv, NEW t \in Threads, Keygen(t)
    PROVE  PairInv'
<1>1. KeyFilesKept /\ spoiled' = spoiled /\ UNCHANGED <<link, data>>
  BY DEF Keygen, vars, files, KeyFilesKept
<1>2. CASE keyAt' = [keyAt EXCEPT ![t] = "asks"] /\ UNCHANGED made
  BY <1>1, <1>2, PairKept DEF BaseInv, KeysTypeOK
<1>3. ASSUME link[Prv] = None, NEW k \in Keys, made' = [made EXCEPT ![t] = k],
             keyAt' = [keyAt EXCEPT ![t] = "private"]
      PROVE  PairInv'
  <2> SUFFICES ASSUME ~ spoiled' PROVE Pair' /\ \A u \in Threads : KeyInv(u)'
    BY DEF PairInv
  <2>1. Pair /\ \A u \in Threads : KeyInv(u)
    BY <1>1 DEF PairInv
  <2>2. /\ keyAt'[t] = "private" /\ made'[t] = k
        /\ \A u \in Threads : u # t => keyAt'[u] = keyAt[u] /\ made'[u] = made[u]
    BY <1>3 DEF BaseInv, KeysTypeOK
  <2>3. Pair'
    BY <1>1, <2>1 DEF Pair, Whole
  <2>4. KeyInv(t)'
    BY <1>1, <1>3, <2>2 DEF KeyInv
  <2>5. ASSUME NEW u \in Threads, u # t PROVE KeyInv(u)'
    <3>1. KeyInv(u)
      BY <2>1
    <3> QED
      BY <1>1, <2>2, <2>5, <3>1 DEF KeyInv, Whole
  <2> QED
    BY <2>3, <2>4, <2>5
<1> QED
  BY <1>2, <1>3 DEF Keygen, KeyGoes

LEMMA SavePrivatePair ==
    ASSUME BaseInv, PairInv, NEW t \in Threads, SavePrivate(t)
    PROVE  PairInv'
<1> SUFFICES ASSUME ~ spoiled' PROVE Pair' /\ \A u \in Threads : KeyInv(u)'
  BY DEF PairInv
<1>0. TypeOK /\ KeysTypeOK /\ Prv \in Paths /\ Pub \in Paths /\ Prv # Pub
  BY KeysAssumption DEF KeysAssumption, BaseInv, FilesInv
<1>1. ~ spoiled /\ \A u \in Threads : u # t => keyAt[u] \notin {"private", "public"}
  BY DEF SavePrivate, Racing
<1>2. Pair /\ KeyInv(t) /\ keyAt[t] = "private"
  BY <1>1 DEF PairInv, SavePrivate
<1>3. made[t] \in Keys /\ link[Prv] = None
  BY <1>2 DEF KeyInv
<1>4. PICK i \in Inodes : /\ \A q \in Paths : link[q] # i
                          /\ link' = [link EXCEPT ![Prv] = i]
                          /\ data' = [data EXCEPT ![i] = Whole(made[t])]
  <2>1. Save(Prv, made[t])
    BY DEF SavePrivate
  <2> QED
    BY <1>0, <1>3, <2>1, SaveFacts, Blocks
<1>5. /\ link'[Prv] = i /\ data'[i] = Whole(made[t]) /\ link'[Pub] = link[Pub] /\ link[Pub] # i
      /\ link[Pub] \in Inodes => data'[link[Pub]] = data[link[Pub]]
  BY <1>0, <1>4 DEF TypeOK
<1>6. /\ keyAt'[t] = "public" /\ made' = made
      /\ \A u \in Threads : u # t => keyAt'[u] = keyAt[u]
  BY <1>0 DEF SavePrivate, KeyGoes, KeysTypeOK
<1>7. Pair'
  BY <1>2, <1>3, <1>5, Blocks DEF Pair
<1>8. KeyInv(t)'
  BY <1>3, <1>5, <1>6 DEF KeyInv, Whole
<1>9. \A u \in Threads : u # t => KeyInv(u)'
  BY <1>1, <1>6 DEF KeyInv
<1> QED
  BY <1>7, <1>8, <1>9

LEMMA SavePublicPair ==
    ASSUME BaseInv, PairInv, NEW t \in Threads, SavePublic(t)
    PROVE  PairInv'
<1> SUFFICES ASSUME ~ spoiled' PROVE Pair' /\ \A u \in Threads : KeyInv(u)'
  BY DEF PairInv
<1>0. TypeOK /\ KeysTypeOK /\ Prv \in Paths /\ Pub \in Paths /\ Prv # Pub
  BY KeysAssumption DEF KeysAssumption, BaseInv, FilesInv
<1>1. ~ spoiled /\ \A u \in Threads : u # t => keyAt[u] \notin {"private", "public"}
  BY DEF SavePublic, Racing
<1>2. KeyInv(t) /\ keyAt[t] = "public"
  BY <1>1 DEF PairInv, SavePublic
<1>3. /\ made[t] \in Keys /\ link[Prv] \in Inodes /\ link[Pub] # link[Prv]
      /\ data[link[Prv]] = Whole(made[t])
  BY <1>2 DEF KeyInv
<1>4. PICK i \in Inodes : /\ i # link[Prv]
                          /\ link' = [link EXCEPT ![Pub] = i]
                          /\ data' = [data EXCEPT ![i] = Whole(made[t])]
  <2>1. Save(Pub, made[t])
    BY DEF SavePublic
  <2> QED
    BY <1>0, <1>3, <2>1, SaveFacts
<1>5. /\ link'[Prv] = link[Prv] /\ data'[link[Prv]] = Whole(made[t]) /\ link'[Pub] = i
      /\ data'[i] = Whole(made[t])
  BY <1>0, <1>3, <1>4 DEF TypeOK
<1>6. Whole(made[t])[1] = made[t]
  BY Blocks DEF Whole
<1>7. Pair'
  BY <1>3, <1>5, <1>6 DEF Pair, Whole
<1>8. \A u \in Threads : keyAt'[u] \notin {"private", "public"}
  BY <1>0, <1>1 DEF SavePublic, KeyGoes, KeyEnds, KeysTypeOK
<1> QED
  BY <1>7, <1>8 DEF KeyInv

LEMMA PairStep == BaseInv /\ PairInv /\ [WorkNext]_workVars => PairInv'
<1> SUFFICES ASSUME BaseInv, PairInv, [WorkNext]_workVars PROVE PairInv'
  OBVIOUS
<1>1. ASSUME UNCHANGED <<files, keyAt, made, spoiled>> PROVE PairInv'
  <2>1. KeyFilesKept
    BY <1>1 DEF files, KeyFilesKept
  <2> QED
    BY <1>1, <2>1, PairKept
<1>2. ASSUME NEW t \in Threads, Works(t), spoiled' = (spoiled \/ ~ KeyFilesKept), UNCHANGED <<keyAt, made>>
      PROVE  PairInv'
  <2>1. CASE KeyFilesKept
    BY <1>2, <2>1, PairKept
  <2>2. CASE ~ KeyFilesKept
    BY <1>2, <2>2 DEF PairInv
  <2> QED
    BY <2>1, <2>2
<1>3. ASSUME NEW t \in Threads, AskKey(t) \/ KeyLook(t) \/ Cat(t) \/ KeyFails(t) PROVE PairInv'
  <2>1. KeyFilesKept /\ spoiled' = spoiled
    BY <1>3 DEF AskKey, KeyLook, Cat, KeyFails, vars, files, KeyFilesKept
  <2>2. \A u \in Threads : u # t => keyAt'[u] = keyAt[u] /\ made'[u] = made[u]
    BY <1>3, KeyTypes DEF KeyWorks, BaseInv, FilesInv
  <2>3. keyAt'[t] \in {"look", "cat", "keygen", "none"}
    BY <1>3 DEF AskKey, KeyLook, Cat, KeyFails, KeyGoes, KeyEnds, BaseInv, KeysTypeOK
  <2>4. keyAt'[t] = keyAt[t] => keyAt[t] \notin {"private", "public"}
    BY <2>3
  <2> QED
    BY <2>1, <2>2, <2>3, <2>4, PairKept
<1>4. ASSUME NEW t \in Threads, AskKey(t) \/ KeyWorks(t) PROVE PairInv'
  BY <1>3, <1>4, KeygenPair, SavePrivatePair, SavePublicPair DEF KeyWorks
<1>5. ASSUME PlaybookActs, UNCHANGED keyVars PROVE PairInv'
  <2>1. UNCHANGED files
    BY <1>5, PlaybookBegins DEF BaseInv, Begin, vars
  <2> QED
    BY <1>1, <1>5, <2>1 DEF keyVars
<1>6. ASSUME NEW t \in Threads, Call(t), UNCHANGED keyVars PROVE PairInv'
  BY <1>1, <1>6 DEF Call, Begin, keyVars
<1>7. CASE UNCHANGED <<vars, keyVars>>
  BY <1>1, <1>7 DEF vars, keyVars
<1>8. CASE WorkNext
  BY <1>2, <1>4, <1>5, <1>6, <1>7, <1>8, WorkCases DEF PlaybookActs
<1> QED
  BY <1>7, <1>8 DEF workVars

LEMMA PairInit == WorkInit => PairInv
<1> SUFFICES ASSUME WorkInit PROVE PairInv
  OBVIOUS
<1>1. link = Initially /\ data = [i \in Inodes |-> Whole(Held[i])]
  BY DEF WorkInit, Init
<1>2. \A i \in Inodes : data[i] = Whole(Held[i]) /\ data[i][1] = Held[i]
  BY <1>1, Blocks DEF Whole
<1>3. Pair
  BY <1>1, <1>2, KeysAssumption DEF KeysAssumption, Pair
<1>4. \A t \in Threads : KeyInv(t)
  BY DEF WorkInit, KeysInit, KeyInv
<1> QED
  BY <1>3, <1>4 DEF PairInv

(* However often generating a key stopped half-way and however many threads
   ask, a key that get_ssh_public_key returns is the public half of the
   private key of the host, unless two callers generated at once or somebody
   changed the files (host.py:372-383). *)
THEOREM KeysMatch == WorkSpec => KeyMatches
<1> DEFINE Matches(t) ==
        /\ keyAt[t] = "cat" /\ keyAt'[t] = "none" /\ key'[t] \in Keys /\ ~ spoiled
        => link[Prv] \in Inodes /\ data[link[Prv]] = Whole(key'[t])
<1>1. BaseInv /\ PairInv /\ [WorkNext]_workVars => [\A t \in Threads : Matches(t)]_<<vars, keyVars>>
  <2> SUFFICES ASSUME BaseInv, PairInv, WorkNext, NEW t \in Threads,
                      keyAt[t] = "cat", keyAt'[t] = "none", key'[t] \in Keys, ~ spoiled
               PROVE  link[Prv] \in Inodes /\ data[link[Prv]] = Whole(key'[t])
    BY DEF workVars
  <2>1. PICK u \in Threads : AskKey(u) \/ KeyWorks(u)
    BY WorkCases DEF keyVars, PlaybookActs
  <2>2. u = t
    BY <2>1, KeyTypes DEF BaseInv, FilesInv
  <2>3. Cat(t) \/ KeyFails(t)
    BY <2>1, <2>2 DEF AskKey, KeyWorks, KeyLook, Keygen, SavePrivate, SavePublic
  <2>4. None \notin Keys /\ "raised" \notin Keys
    BY KeysAssumption, FilesAssumption DEF KeysAssumption, FilesAssumption
  <2>5. \E k : /\ KeyEnds(t, k)
               /\ k \in {"raised", None} \/ (link[Pub] \in Inodes /\ k = data[link[Pub]][1])
    BY <2>3 DEF Cat, KeyFails
  <2>6. link[Pub] \in Inodes /\ key'[t] = data[link[Pub]][1]
    BY <2>4, <2>5 DEF KeyEnds, BaseInv, KeysTypeOK
  <2> QED
    BY <2>6 DEF PairInv, Pair
<1> QED
  BY <1>1, PairInit, PairStep, BaseInductive, PTL DEF WorkSpec, KeyMatches

----------------------------------------------------------------------------
(* The operating system object.                                            *)

Dist == cache["distribution"]

OfDist(t) == query[t] \in {"os_info", "distribution"}

Uniform(s) == \A i, j \in 1 .. Len(s) : s[i] = s[j]

\* As long as no upgrade crossed a fetch, who stores stores what is kept already.
OsInv(t) ==
    /\ osAt[t] = "none" \/ query[t] # "os_info" => fields[t] = <<>>
    /\ osAt[t] = "none" /\ query[t] = "os_info" /\ ~ crossed => Uniform(info[t])
    /\ ~ crossed => \A i \in 1 .. Len(fields[t]) : fields[t][i] = Dist /\ Dist # None
    /\ osAt[t] = "store" /\ OfDist(t) => got[t] \in Facts
    /\ ~ crossed /\ osAt[t] = "store" /\ OfDist(t) => got[t] = fact["distribution"]
    /\ ~ crossed /\ osAt[t] \in {"fetch", "store"} /\ OfDist(t) => Dist \in {None, fact["distribution"]}
    /\ osAt[t] = "give" /\ OfDist(t) => Dist # None

KnownInv == OsTypeOK /\ Dist \in Facts \cup {None} /\ \A t \in Threads : OsInv(t)

\* The states of the other threads.
SameOs(u) ==
    /\ osAt'[u] = osAt[u] /\ query'[u] = query[u] /\ got'[u] = got[u]
    /\ fields'[u] = fields[u] /\ info'[u] = info[u]

LEMMA OsFacts ==
    /\ None \notin Facts /\ Empty \notin Facts /\ "distribution" \in Queries
    /\ \A q \in Facts : q \in Known
    /\ Empty \in Known
  BY OsAssumption, Blocks DEF OsAssumption, Queries, Known

LEMMA Attributes2 ==
    ASSUME OsTypeOK, NEW t \in Threads
    PROVE  Attribute(t) \in Queries /\ (OfDist(t) <=> Attribute(t) = "distribution")
<1>1. query[t] \in Queries \cup {"os_info"}
  BY DEF OsTypeOK
<1> QED
  BY <1>1 DEF Attribute, OfDist, Queries

\* A call that ends with a short answer, or with one distribution.
LEMMA OsEndsInv ==
    ASSUME KnownInv, NEW t \in Threads,
           NEW how \in Seq(Known \cup {None, "failure", "unsupported", "raised"}), OsEnds(t, how),
           query[t] = "os_info" /\ ~ crossed => Uniform(how),
           UNCHANGED <<fact, cache, query, osCalls, changes, crossed>>
    PROVE  KnownInv'
<1>1. /\ osAt'[t] = "none" /\ info'[t] = how /\ fields'[t] = <<>>
      /\ \A u \in Threads : u # t => SameOs(u)
  BY DEF KnownInv, OsTypeOK, OsEnds, OsGoes, SameOs
<1>2. OsTypeOK'
  BY DEF KnownInv, OsTypeOK, OsEnds, OsGoes
<1>3. OsInv(t)'
  BY <1>1 DEF OsInv, Uniform
<1>4. ASSUME NEW u \in Threads, u # t PROVE OsInv(u)'
  <2>1. OsInv(u) /\ SameOs(u)
    BY <1>1, <1>4 DEF KnownInv
  <2> QED
    BY <2>1 DEF OsInv, SameOs, Dist, OfDist, Uniform
<1> QED
  BY <1>2, <1>3, <1>4 DEF KnownInv, Dist

\* A call that goes on and stores nothing.
LEMMA OsOthers ==
    ASSUME KnownInv, NEW t \in Threads, UNCHANGED <<fact, cache, crossed>>,
           \A u \in Threads : u # t => SameOs(u),
           OsTypeOK', OsInv(t)'
    PROVE  KnownInv'
<1>1. ASSUME NEW u \in Threads, u # t PROVE OsInv(u)'
  <2>1. OsInv(u) /\ SameOs(u)
    BY <1>1 DEF KnownInv
  <2> QED
    BY <2>1 DEF OsInv, SameOs, Dist, OfDist, Uniform
<1> QED
  BY <1>1 DEF KnownInv, Dist

LEMMA InquireStep ==
    ASSUME KnownInv, NEW t \in Threads, Inquire(t)
    PROVE  KnownInv'
<1>1. OsTypeOK /\ OsInv(t)
  BY DEF KnownInv
<1>2. PICK q \in Queries \cup {"os_info"} : query' = [query EXCEPT ![t] = q]
  BY DEF Inquire
<1>3. OsTypeOK'
  BY <1>1, <1>2 DEF Inquire, OsGoes, OsTypeOK
<1>4. /\ osAt'[t] = "look" /\ fields' = fields /\ fields[t] = <<>>
      /\ \A u \in Threads : u # t => SameOs(u)
  BY <1>1, <1>2 DEF Inquire, OsGoes, OsTypeOK, OsInv, SameOs
<1>5. OsInv(t)'
  BY <1>4 DEF OsInv
<1> QED
  BY <1>3, <1>4, <1>5, OsOthers DEF Inquire

LEMMA LookStep ==
    ASSUME KnownInv, NEW t \in Threads, OsLook(t)
    PROVE  KnownInv'
<1>1. OsTypeOK /\ OsInv(t) /\ Dist \in Facts \cup {None}
  BY DEF KnownInv
<1>2. PICK step \in {"fetch", "give"} :
         /\ osAt' = [osAt EXCEPT ![t] = step]
         /\ step = "fetch" /\ OfDist(t) => Dist = None
         /\ step = "give" /\ OfDist(t) => Dist # None
  BY <1>1, Attributes2, OsFacts DEF OsLook, OsGoes, Dist
<1>3. OsTypeOK'
  BY <1>1, <1>2 DEF OsLook, OsTypeOK
<1>4. /\ osAt[t] = "look" /\ osAt'[t] = step
      /\ UNCHANGED <<fact, cache, query, got, fields, info, crossed>>
      /\ \A u \in Threads : u # t => SameOs(u)
  BY <1>1, <1>2 DEF OsLook, OsTypeOK, SameOs
<1>5. OsInv(t)'
  BY <1>1, <1>2, <1>4 DEF OsInv, Dist, OfDist
<1> QED
  BY <1>3, <1>4, <1>5, OsOthers

LEMMA FetchStep ==
    ASSUME TypeOK, KnownInv, NEW t \in Threads, Fetch(t)
    PROVE  KnownInv'
<1>1. OsTypeOK /\ OsInv(t)
  BY DEF KnownInv
<1>2. PICK v \in Known : /\ got' = [got EXCEPT ![t] = v]
                         /\ OfDist(t) => v = fact["distribution"] /\ v \in Facts
  <2>1. Attribute(t) \in Queries /\ (OfDist(t) <=> Attribute(t) = "distribution")
    BY <1>1, Attributes2
  <2>2. CASE Attribute(t) \notin {"release_str", "release_info"}
    <3>1. fact[Attribute(t)] \in Facts
      BY <1>1, <2>1 DEF OsTypeOK
    <3> QED
      BY <2>1, <2>2, <3>1, OsFacts DEF Fetch
  <2>3. CASE Attribute(t) \in {"release_str", "release_info"} /\ link[Source(Attribute(t))] \in Inodes
    <3>1. data[link[Source(Attribute(t))]] \in Known
      BY <2>3 DEF TypeOK, Known
    <3> QED
      BY <2>1, <2>3, <3>1 DEF Fetch
  <2> QED
    BY <2>2, <2>3 DEF Fetch
<1>3. /\ osAt[t] = "fetch" /\ osAt' = [osAt EXCEPT ![t] = "store"]
      /\ UNCHANGED <<fact, cache, query, fields, info, osCalls, changes, crossed>>
  BY DEF Fetch, OsGoes
<1>4. OsTypeOK'
  BY <1>1, <1>2, <1>3 DEF OsTypeOK
<1>5. osAt'[t] = "store" /\ got'[t] = v /\ \A u \in Threads : u # t => SameOs(u)
  BY <1>1, <1>2, <1>3 DEF OsTypeOK, SameOs
<1>6. OsInv(t)'
  BY <1>1, <1>2, <1>3, <1>5 DEF OsInv, Dist, OfDist
<1> QED
  BY <1>3, <1>4, <1>5, <1>6, OsOthers

LEMMA EndSteps ==
    ASSUME KnownInv, NEW t \in Threads, FetchFails(t) \/ Exists(t) \/ OsRaises(t)
    PROVE  KnownInv'
<1> DEFINE Short == {<<None, None, None>>, <<"failure">>, <<"unsupported">>, <<"raised">>}
<1>1. ASSUME NEW s \in Short
      PROVE  s \in Seq(Known \cup {None, "failure", "unsupported", "raised"}) /\ Uniform(s)
  <2>1. CASE s = <<None, None, None>>
    <3>1. s \in Seq(Known \cup {None, "failure", "unsupported", "raised"})
      BY <2>1
    <3>2. Len(s) = 3 /\ s[1] = None /\ s[2] = None /\ s[3] = None
      BY <2>1
    <3>3. \A i \in 1 .. Len(s) : s[i] = None
      BY <3>2
    <3> QED
      BY <3>1, <3>3 DEF Uniform
  <2>2. ASSUME NEW v \in {"failure", "unsupported", "raised"}, s = <<v>>
        PROVE  s \in Seq(Known \cup {None, "failure", "unsupported", "raised"}) /\ Uniform(s)
    <3>1. s \in Seq(Known \cup {None, "failure", "unsupported", "raised"})
      BY <2>2
    <3>2. Len(s) = 1
      BY <2>2
    <3>3. \A i, j \in 1 .. Len(s) : i = j
      BY <3>2
    <3> QED
      BY <3>1, <3>3 DEF Uniform
  <2> QED
    BY <2>1, <2>2
<1>2. UNCHANGED <<fact, cache, query, osCalls, changes, crossed>>
  BY DEF FetchFails, Exists, OsRaises
<1>3. ASSUME NEW s \in Short, OsEnds(t, s) PROVE KnownInv'
  BY <1>1, <1>2, <1>3, OsEndsInv
<1>4. CASE osAt[t] = "fetch" /\ query[t] = "release_info" /\ OsGoes(t, "exists") /\ UNCHANGED <<got, fields, info>>
  <2>1. OsTypeOK /\ OsInv(t)
    BY DEF KnownInv
  <2>2. OsTypeOK'
    BY <1>2, <1>4, <2>1 DEF OsTypeOK, OsGoes
  <2>3. osAt'[t] = "exists" /\ \A u \in Threads : u # t => SameOs(u)
    BY <1>2, <1>4, <2>1 DEF OsTypeOK, OsGoes, SameOs
  <2>4. OsInv(t)'
    BY <1>2, <1>4, <2>1, <2>3 DEF OsInv, Dist, OfDist
  <2> QED
    BY <1>2, <2>2, <2>3, <2>4, OsOthers
<1> QED
  BY <1>3, <1>4 DEF FetchFails, Exists, OsRaises

LEMMA StoreStep ==
    ASSUME KnownInv, NEW t \in Threads, Store(t)
    PROVE  KnownInv'
<1>1. OsTypeOK /\ OsInv(t) /\ osAt[t] = "store" /\ Dist \in Facts \cup {None}
  BY DEF KnownInv, Store
<1>2. Attribute(t) \in Queries /\ (OfDist(t) <=> Attribute(t) = "distribution")
  BY <1>1, Attributes2
<1>3. /\ UNCHANGED <<fact, query, fields, info, osCalls, changes, crossed>>
      /\ osAt' = [osAt EXCEPT ![t] = "give"] /\ got' = [got EXCEPT ![t] = None]
      /\ cache' = [cache EXCEPT ![Attribute(t)] = got[t]]
  BY DEF Store, OsGoes
<1>4. OsTypeOK'
  BY <1>1, <1>2, <1>3 DEF OsTypeOK
<1>5. osAt'[t] = "give" /\ \A u \in Threads : u # t => SameOs(u)
  BY <1>1, <1>3 DEF OsTypeOK, SameOs
<1>6. CASE ~ OfDist(t)
  <2>1. Dist' = Dist
    BY <1>1, <1>2, <1>3, <1>6 DEF OsTypeOK, Dist
  <2>2. OsInv(t)'
    BY <1>1, <1>3, <1>5, <1>6, <2>1 DEF OsInv, OfDist
  <2>3. ASSUME NEW u \in Threads, u # t PROVE OsInv(u)'
    <3>1. OsInv(u) /\ SameOs(u)
      BY <1>5, <2>3 DEF KnownInv
    <3> QED
      BY <1>3, <2>1, <3>1 DEF OsInv, SameOs, OfDist, Uniform
  <2> QED
    BY <1>1, <1>4, <2>1, <2>2, <2>3 DEF KnownInv
<1>7. CASE OfDist(t)
  <2>1. Dist' = got[t] /\ got[t] \in Facts /\ got[t] # None
    BY <1>1, <1>2, <1>3, <1>7, OsFacts DEF OsTypeOK, Dist, OsInv
  <2>2. ~ crossed => got[t] = fact["distribution"] /\ (Dist # None => Dist' = Dist)
    BY <1>1, <1>7, <2>1 DEF OsInv
  <2>3. OsInv(t)'
    BY <1>1, <1>3, <1>5, <1>7, <2>1, <2>2 DEF OsInv, OfDist
  <2>4. ASSUME NEW u \in Threads, u # t PROVE OsInv(u)'
    <3>1. OsInv(u) /\ SameOs(u)
      BY <1>5, <2>4 DEF KnownInv
    <3> QED
      BY <1>3, <2>1, <2>2, <3>1 DEF OsInv, SameOs, OfDist, Uniform
  <2> QED
    BY <1>4, <2>1, <2>3, <2>4 DEF KnownInv
<1> QED
  BY <1>6, <1>7

LEMMA GiveStep ==
    ASSUME KnownInv, NEW t \in Threads, Give(t)
    PROVE  KnownInv'
<1> DEFINE now == Append(fields[t], cache[Attribute(t)])
<1>1. OsTypeOK /\ OsInv(t) /\ osAt[t] = "give"
  BY DEF KnownInv, Give
<1>2. Attribute(t) \in Queries /\ (OfDist(t) <=> Attribute(t) = "distribution")
  BY <1>1, Attributes2
<1>3. UNCHANGED <<fact, cache, query, osCalls, changes, crossed>>
  BY DEF Give
<1>4. cache[Attribute(t)] \in Known \cup {None} /\ fields[t] \in Seq(Known \cup {None})
  BY <1>1, <1>2 DEF OsTypeOK
<1>5. /\ now \in Seq(Known \cup {None}) /\ Len(now) = Len(fields[t]) + 1
      /\ \A i \in 1 .. Len(fields[t]) : now[i] = fields[t][i]
      /\ now[Len(now)] = cache[Attribute(t)]
  BY <1>4
<1>6. ASSUME query[t] = "os_info", ~ crossed
      PROVE  Dist # None /\ \A i \in 1 .. Len(now) : now[i] = Dist
  <2>1. OfDist(t) /\ cache[Attribute(t)] = Dist
    BY <1>2, <1>6 DEF OfDist, Dist
  <2>2. Dist # None /\ \A i \in 1 .. Len(fields[t]) : fields[t][i] = Dist
    BY <1>1, <1>6, <2>1 DEF OsInv
  <2>3. Len(fields[t]) \in Nat
    BY <1>4
  <2>4. \A i \in 1 .. Len(now) : i \in 1 .. Len(fields[t]) \/ i = Len(now)
    BY <1>5, <2>3
  <2> QED
    BY <1>5, <2>1, <2>2, <2>4
<1> HIDE DEF now
<1>7. CASE query[t] = "os_info" /\ Len(now) < 3
  <2>1. /\ fields' = [fields EXCEPT ![t] = now] /\ osAt' = [osAt EXCEPT ![t] = "look"]
        /\ UNCHANGED <<got, info>>
    BY <1>7 DEF Give, OsGoes, now
  <2>2. OsTypeOK'
    BY <1>1, <1>3, <1>5, <2>1 DEF OsTypeOK
  <2>3. osAt'[t] = "look" /\ fields'[t] = now /\ \A u \in Threads : u # t => SameOs(u)
    BY <1>1, <1>3, <2>1 DEF OsTypeOK, SameOs
  <2>4. OsInv(t)'
    BY <1>3, <1>6, <1>7, <2>3 DEF OsInv, Dist
  <2> QED
    BY <1>3, <2>2, <2>3, <2>4, OsOthers
<1>8. CASE ~ (query[t] = "os_info" /\ Len(now) < 3)
  <2>1. OsEnds(t, now)
    BY <1>8 DEF Give, now
  <2>2. now \in Seq(Known \cup {None, "failure", "unsupported", "raised"})
    BY <1>5
  <2>3. query[t] = "os_info" /\ ~ crossed => Uniform(now)
    BY <1>6 DEF Uniform
  <2> QED
    BY <1>3, <2>1, <2>2, <2>3, OsEndsInv
<1> QED
  BY <1>7, <1>8

LEMMA UpgradeStep ==
    ASSUME KnownInv, Upgrade
    PROVE  KnownInv'
<1>1. OsTypeOK
  BY DEF KnownInv
<1>2. UNCHANGED <<cache, osAt, query, got, fields, info, osCalls>> /\ (crossed => crossed')
  BY DEF Upgrade
<1>3. OsTypeOK'
  BY <1>1 DEF Upgrade, OsTypeOK
<1>4. ASSUME NEW t \in Threads PROVE OsInv(t)'
  <2>1. OsInv(t) /\ Attribute(t) \in Queries /\ (OfDist(t) <=> Attribute(t) = "distribution")
    BY <1>1, Attributes2 DEF KnownInv
  <2>2. ~ crossed' /\ osAt[t] \in {"fetch", "store"} /\ OfDist(t) =>
            fact'["distribution"] = fact["distribution"]
    BY <2>1 DEF Upgrade
  <2> QED
    BY <1>2, <2>1, <2>2 DEF OsInv, Dist, OfDist, Uniform
<1> QED
  BY <1>2, <1>3, <1>4 DEF KnownInv, Dist

LEMMA KnownStep == BaseInv /\ KnownInv /\ [WorkNext]_workVars => KnownInv'
<1> SUFFICES ASSUME BaseInv, KnownInv, [WorkNext]_workVars PROVE KnownInv'
  OBVIOUS
<1>1. CASE UNCHANGED osVars
  BY <1>1 DEF osVars, KnownInv, OsTypeOK, OsInv, Dist, OfDist, Uniform
<1>2. CASE OsStep
  <2>1. TypeOK
    BY DEF BaseInv, FilesInv
  <2>2. CASE \E t \in Threads : Inquire(t) \/ OsWorks(t)
    BY <2>1, <2>2, InquireStep, LookStep, FetchStep, EndSteps, StoreStep, GiveStep DEF OsWorks
  <2>3. CASE Upgrade
    BY <2>3, UpgradeStep
  <2> QED
    BY <1>2, <2>2, <2>3 DEF OsStep
<1>3. UNCHANGED osVars \/ OsStep
  BY DEF workVars, WorkNext, PlaybookStep, FileStep, KeyStep
<1> QED
  BY <1>1, <1>2, <1>3

LEMMA KnownInit == WorkInit => KnownInv
<1> SUFFICES ASSUME WorkInit PROVE KnownInv
  OBVIOUS
<1>1. (CHOOSE v \in Facts : TRUE) \in Facts
  BY OsAssumption DEF OsAssumption
<1>2. OsTypeOK
  <2>1. /\ fact \in [Queries -> Facts]
        /\ cache \in [Queries -> Known \cup {None}]
    BY <1>1 DEF WorkInit, OsInit
  <2>2. /\ osAt \in [Threads -> {"none", "look", "fetch", "exists", "store", "give"}]
        /\ query \in [Threads -> Queries \cup {"os_info"}]
        /\ got \in [Threads -> Known \cup {None}]
    BY DEF WorkInit, OsInit
  <2>3. \A S : <<>> \in Seq(S)
    OBVIOUS
  <2>4. /\ fields \in [Threads -> Seq(Known \cup {None})]
        /\ info \in [Threads -> Seq(Known \cup {None, "failure", "unsupported", "raised"})]
    BY <2>3 DEF WorkInit, OsInit
  <2>5. osCalls \in [Threads -> Nat] /\ changes \in Nat /\ crossed \in BOOLEAN
    BY DEF WorkInit, OsInit
  <2> QED
    BY <2>1, <2>2, <2>4, <2>5 DEF OsTypeOK
<1>3. Dist = None
  BY OsFacts DEF WorkInit, OsInit, Dist
<1>4. ASSUME NEW t \in Threads PROVE OsInv(t)
  <2>1. osAt[t] = "none" /\ fields[t] = <<>> /\ info[t] = <<>>
    BY DEF WorkInit, OsInit
  <2> QED
    BY <2>1 DEF OsInv, Uniform
<1> QED
  BY <1>2, <1>3, <1>4 DEF KnownInv

(* get_os_info reads the distribution three times, other threads fetch and
   store it in between, and the host may be upgraded: its answer is one
   distribution unless the upgrade fell between a fetch and its store
   (host.py:453-458, operatingsystem.py:113-117). *)
THEOREM OsInfoIsOne == WorkSpec => []OsInfoWhole
<1>1. KnownInv => OsInfoWhole
  BY DEF KnownInv, OsInv, Uniform, OsInfoWhole
<1> QED
  BY <1>1, KnownInit, KnownStep, BaseInductive, PTL DEF WorkSpec

----------------------------------------------------------------------------
(* Playbook runs: who reaches the files of a run.                          *)

\* A path that a call does not write.
Outside(p, t) ==
    /\ p # dst[t]
    /\ pc[t] = "look" \/ call[t].op \in {"rmdir", "move"} => Parent[p] # dst[t]
    /\ call[t].op = "move" => p # call[t].src

New(i) ==
    /\ i \in Inodes
    /\ \A q \in Paths : link[q] # i
    /\ \A u \in Threads : out[u] # i

\* What the step of a call does to a path.
Effect(t, p) ==
    \/ link'[p] = link[p]
    \/ link'[p] \in {None, Dir} /\ ~ Outside(p, t)
    \/ p = dst[t] /\ New(link'[p])
    \/ /\ call[t].op = "move" /\ call[t].src \in Paths /\ ~ Outside(p, t)
       /\ link'[p] = link[call[t].src]

LEMMA MakeNew ==
    ASSUME TypeOK, NEW p \in Paths, Make(p)
    PROVE  /\ \A q \in Paths : q # p => link'[q] = link[q]
           /\ New(link'[p])
           /\ \A i \in Inodes : (data'[i] = data[i] /\ attr'[i] = attr[i]) \/ New(i)
<1>1. PICK i \in Inodes :
              /\ \A q \in Paths : link[q] # i
              /\ \A t \in Threads : in[t] # i /\ out[t] # i
              /\ link' = [link EXCEPT ![p] = i]
              /\ data' = [data EXCEPT ![i] = Empty]
              /\ attr' = [attr EXCEPT ![i] = {}]
  BY MakeFacts
<1>2. New(i)
  BY <1>1 DEF New
<1>3. (\A q \in Paths : q # p => link'[q] = link[q]) /\ link'[p] = i
  BY <1>1 DEF TypeOK
<1>4. \A j \in Inodes : j # i => data'[j] = data[j] /\ attr'[j] = attr[j]
  BY <1>1 DEF TypeOK
<1> QED
  BY <1>2, <1>3, <1>4

LEMMA LinkEffect ==
    ASSUME TypeOK, NEW t \in Threads, PlaceInv(t), Works(t), NEW p \in Paths
    PROVE  Effect(t, p)
<1>0. dst[t] \in Paths /\ call[t] \in Proper
  BY Working DEF PlaceInv
<1>1. CASE UNCHANGED link
  BY <1>1 DEF Effect
<1>2. CASE Make(dst[t])
  BY <1>0, <1>2, MakeNew DEF Effect
<1>3. CASE OpenOut(t) \/ Touch(t) \/ Flush(t)
  BY <1>1, <1>2, <1>3 DEF OpenOut, Touch, Flush, files
<1>4. CASE Remove(t) \/ Mkdir(t)
  <2>1. PICK v \in {None, Dir} : link' = [link EXCEPT ![dst[t]] = v]
    BY <1>4 DEF Remove, Mkdir
  <2> QED
    BY <1>0, <2>1 DEF Effect, Outside, TypeOK
<1>5. CASE Rmdir(t)
  <2>1. link'[p] = IF p \in Tree(dst[t]) THEN None ELSE link[p]
    BY <1>5 DEF Rmdir
  <2>2. call[t].op = "rmdir"
    BY <1>5 DEF Rmdir, Runs
  <2> QED
    BY <2>1, <2>2 DEF Effect, Outside, Tree
<1>6. CASE CommandFails(t)
  <2>1. PICK gone \in SUBSET (IF call[t].op = "rmdir" THEN Tree(dst[t]) \ {dst[t]} ELSE {}) :
          link' = [q \in Paths |-> IF q \in gone THEN None ELSE link[q]]
    BY <1>6 DEF CommandFails
  <2>2. CASE p \notin gone
    BY <2>1, <2>2 DEF Effect
  <2>3. CASE p \in gone
    <3>1. call[t].op = "rmdir" /\ p \in Tree(dst[t])
      BY <2>3
    <3> QED
      BY <2>1, <2>3, <3>1 DEF Effect, Outside, Tree
  <2> QED
    BY <2>2, <2>3
<1>7. CASE Move(t)
  <2> DEFINE s == call[t].src
  <2>1. call[t].op = "move"
    BY <1>7 DEF Move, Runs
  <2>2. s \in Paths
    BY <1>0, <2>1 DEF Proper
  <2>3. PICK r \in Arrival(dst[t], s) \ {s} : link' = [link EXCEPT ![r] = link[s], ![s] = None]
    BY <1>7 DEF Move
  <2>4. r \in Paths /\ ~ Outside(r, t) /\ ~ Outside(s, t)
    BY <1>0, <2>1, <2>3 DEF Arrival, Outside
  <2>5. link'[p] = IF p = s THEN None ELSE IF p = r THEN link[s] ELSE link[p]
    BY <2>2, <2>3, <2>4 DEF TypeOK
  <2> QED
    BY <2>1, <2>2, <2>4, <2>5 DEF Effect
<1> QED
  BY <1>1, <1>3, <1>4, <1>5, <1>6, <1>7
     DEF Works, Fails, LookYes, LookNo, OpenSource, Encode, Read, Write, Close, SetAttr, SetAttrFails, files

LEMMA DataEffect ==
    ASSUME TypeOK, NEW t \in Threads, PlaceInv(t), Works(t), NEW i \in Inodes
    PROVE  \/ data'[i] = data[i] /\ attr'[i] = attr[i]
           \/ i = out[t] \/ i = link[dst[t]] \/ New(i)
<1>0. dst[t] \in Paths
  BY Working DEF PlaceInv
<1>1. CASE UNCHANGED <<data, attr>>
  BY <1>1
<1>2. CASE Make(dst[t])
  BY <1>0, <1>2, MakeNew
<1>3. CASE OpenOut(t) \/ Touch(t) \/ Flush(t)
  <2>1. CASE data' = [data EXCEPT ![link[dst[t]]] = Empty] /\ attr' = attr
    BY <2>1 DEF TypeOK
  <2> QED
    BY <1>1, <1>2, <1>3, <2>1 DEF OpenOut, Touch, Flush, files
<1>4. CASE Write(t)
  <2>1. attr' = attr /\ (data' = data \/ data' = [data EXCEPT ![out[t]][at[t]] = buffer[t][at[t]]])
    BY <1>4 DEF Write
  <2> QED
    BY <2>1 DEF TypeOK
<1>5. CASE SetAttr(t)
  <2>1. data' = data /\ (attr' = attr \/ attr' = [attr EXCEPT ![link[dst[t]]] = @ \cup {Then(call[t])[at[t]]}])
    BY <1>5 DEF SetAttr
  <2> QED
    BY <2>1 DEF TypeOK
<1> QED
  BY <1>1, <1>3, <1>4, <1>5
     DEF Works, Fails, LookYes, LookNo, OpenSource, Encode, Read, Close, SetAttrFails, Remove,
         Rmdir, Mkdir, Move, CommandFails, files

LEMMA OutEffect ==
    ASSUME TypeOK, NEW t \in Threads, PlaceInv(t), Works(t), out'[t] \in Inodes
    PROVE  /\ dst'[t] = dst[t]
           /\ out'[t] = out[t] \/ out'[t] = link'[dst[t]]
<1>1. ASSUME NEW how, End(t, how) PROVE FALSE
  BY <1>1, Blocks DEF End, TypeOK
<1>2. CASE LookYes(t)
  BY <1>2, Blocks DEF LookYes, handle, PlaceInv, Filling
<1>3. CASE OpenOut(t)
  BY <1>3 DEF OpenOut, TypeOK
<1>4. CASE UNCHANGED <<dst, out>>
  BY <1>4
<1> QED
  BY <1>1, <1>2, <1>3, <1>4
     DEF Works, Fails, LookNo, OpenSource, Encode, Read, Write, Close, SetAttr, SetAttrFails, Remove,
         Rmdir, Mkdir, Touch, Flush, Move, CommandFails, Done, handle

\* A file of the run has no other name, and nobody but the run writes it.
Private(p) ==
    link[p] \in Inodes =>
        /\ \A q \in Paths : q # p => link[q] # link[p]
        /\ \A u \in Threads : out[u] = link[p] => u = Runner /\ dst[u] = p

\* A step that leaves a path and its file as they are.
Keeps(p) ==
    /\ link'[p] = link[p]
    /\ link[p] \in Inodes => data'[link[p]] = data[link[p]] /\ attr'[link[p]] = attr[link[p]]

LEMMA Untouched ==
    ASSUME TypeOK, NEW t \in Threads, PlaceInv(t), Works(t), \A u \in Threads : u # t => Same(u),
           NEW p \in Paths, Private(p), Outside(p, t)
    PROVE  Keeps(p) /\ Private(p)'
<1>0. dst[t] \in Paths /\ dst[t] # p
  BY Working DEF PlaceInv, Outside
<1>1. link'[p] = link[p]
  BY <1>0, LinkEffect DEF Effect
<1>2. SUFFICES ASSUME link[p] \in Inodes
               PROVE  /\ data'[link[p]] = data[link[p]] /\ attr'[link[p]] = attr[link[p]]
                      /\ \A q \in Paths : q # p => link'[q] # link[p]
                      /\ \A u \in Threads : out'[u] = link[p] => u = Runner /\ dst'[u] = p
  BY <1>1 DEF Keeps, Private
<1>3. /\ \A q \in Paths : q # p => link[q] # link[p]
      /\ \A u \in Threads : out[u] = link[p] => u = Runner /\ dst[u] = p
  BY <1>2 DEF Private
<1>4. data'[link[p]] = data[link[p]] /\ attr'[link[p]] = attr[link[p]]
  BY <1>0, <1>2, <1>3, DataEffect DEF New
<1>5. ASSUME NEW q \in Paths, q # p PROVE link'[q] # link[p]
  <2>1. Effect(t, q)
    BY LinkEffect
  <2> QED
    BY <1>2, <1>3, <1>5, <2>1, Blocks DEF Effect, New, Outside
<1>6. out'[t] # link[p]
  <2> SUFFICES ASSUME out'[t] = link[p] PROVE FALSE
    OBVIOUS
  <2>1. out'[t] = out[t] \/ out'[t] = link'[dst[t]]
    BY <1>2, OutEffect
  <2> QED
    BY <1>0, <1>3, <1>5, <2>1
<1>7. \A u \in Threads : u # t => out'[u] = out[u] /\ dst'[u] = dst[u]
  BY DEF Same
<1> QED
  BY <1>3, <1>4, <1>5, <1>6, <1>7

\* The run itself gives its files no second name either.
LEMMA OwnStep ==
    ASSUME TypeOK, Runner \in Threads, PlaceInv(Runner), Works(Runner),
           \A u \in Threads : u # Runner => Same(u),
           NEW p \in Paths, Private(p), call[Runner].op # "move"
    PROVE  Private(p)'
<1>0. dst[Runner] \in Paths
  BY Working DEF PlaceInv
<1> SUFFICES ASSUME link'[p] \in Inodes
             PROVE  /\ \A q \in Paths : q # p => link'[q] # link'[p]
                    /\ \A u \in Threads : out'[u] = link'[p] => u = Runner /\ dst'[u] = p
  BY DEF Private
<1>1. link'[p] = link[p] \/ (p = dst[Runner] /\ New(link'[p]))
  BY LinkEffect, Blocks DEF Effect
<1>2. \A u \in Threads : u # Runner => out'[u] = out[u]
  BY DEF Same
<1>3. ASSUME NEW q \in Paths, q # p PROVE link'[q] # link'[p]
  <2>1. Effect(Runner, q) /\ q # p
    BY <1>3, LinkEffect
  <2>2. CASE link'[p] = link[p]
    BY <2>1, <2>2, Blocks DEF Effect, New, Private
  <2>3. CASE p = dst[Runner] /\ New(link'[p])
    BY <2>1, <2>3, Blocks DEF Effect, New
  <2> QED
    BY <1>1, <2>2, <2>3
<1>4. \A u \in Threads : u # Runner => out'[u] # link'[p]
  BY <1>1, <1>2 DEF New, Private
<1>5. out'[Runner] = link'[p] => dst'[Runner] = p
  <2> SUFFICES ASSUME out'[Runner] = link'[p] PROVE dst'[Runner] = p
    OBVIOUS
  <2>1. dst'[Runner] = dst[Runner] /\ (out'[Runner] = out[Runner] \/ out'[Runner] = link'[dst[Runner]])
    BY OutEffect
  <2>2. CASE out'[Runner] = link'[dst[Runner]]
    BY <1>0, <1>3, <2>1, <2>2
  <2>3. CASE out'[Runner] = out[Runner]
    BY <1>1, <2>1, <2>3 DEF New, Private
  <2> QED
    BY <2>1, <2>2, <2>3
<1> QED
  BY <1>3, <1>4, <1>5

\* ssh-keygen.
LEMMA SaveKeeps ==
    ASSUME TypeOK, NEW k, NEW r \in Paths, Save(r, k), UNCHANGED <<out, dst>>,
           NEW p \in Paths, Private(p), p # r
    PROVE  Keeps(p) /\ Private(p)'
<1>1. PICK i \in Inodes :
              /\ \/ link[r] = i
                 \/ /\ link[r] = None /\ \A q \in Paths : link[q] # i
                    /\ \A t \in Threads : in[t] # i /\ out[t] # i
              /\ link' = [link EXCEPT ![r] = i]
              /\ data' = [data EXCEPT ![i] = Whole(k)]
              /\ attr' = attr
  BY SaveFacts
<1>2. link'[p] = link[p] /\ link'[r] = i /\ \A q \in Paths : q # r => link'[q] = link[q]
  BY <1>1 DEF TypeOK
<1>3. SUFFICES ASSUME link[p] \in Inodes
               PROVE  /\ data'[link[p]] = data[link[p]]
                      /\ \A q \in Paths : q # p => link'[q] # link[p]
                      /\ \A u \in Threads : out[u] = link[p] => u = Runner /\ dst[u] = p
  BY <1>1, <1>2 DEF Keeps, Private
<1>4. i # link[p]
  BY <1>1, <1>3 DEF Private
<1>5. data'[link[p]] = data[link[p]]
  BY <1>1, <1>3, <1>4 DEF TypeOK
<1> QED
  BY <1>2, <1>3, <1>4, <1>5 DEF Private

----------------------------------------------------------------------------
(* Playbook runs: the invariant.                                           *)

\* The calls of files and of other threads stay clear of the run's files.
Foreign(t) ==
    pc[t] # "idle" /\ (t = Runner => stage = "none") => \A p \in Own : Outside(p, t)

ShareInv == \A p \in Own : Private(p)

SourceInv ==
    \A p \in Sources :
        /\ link[p] = Initially[p]
        /\ link[p] \in Inodes => data[link[p]] = Whole(Held[link[p]])

Content(arg) == IF arg.op = "put" THEN Whole(Held[Initially[arg.src]]) ELSE Whole(Latin1[arg.text])

\* The file of an argument is there, and whole.
There(arg) ==
    /\ link[arg.word] \in Inodes
    /\ data[link[arg.word]] = Content(arg)
    /\ arg.op = "put" => Initially[arg.src] \in Inodes

Busy(op) == pc[Runner] = "command" /\ call[Runner].op = op /\ dst[Runner] = ExecDir

\* Nobody disturbs an upload.
Uploading ==
    /\ call[Runner] = Uploads(args[next]) /\ dst[Runner] = args[next].word /\ ~ disturbed[Runner]
    /\ in[Runner] # None => in[Runner] = Initially[args[next].src]

\* What the runner does at each stage.
RunnerInv ==
    /\ stage \in {"clear", "make"} => next = 1
    /\ stage \in {"clear", "remove"} => pc[Runner] = "idle" \/ Busy("rmdir")
    /\ stage = "make" => pc[Runner] = "idle" \/ Busy("mkdir")
    /\ stage \in {"next", "ansible"} => pc[Runner] = "idle"
    /\ stage = "upload" /\ pc[Runner] # "idle" => Uploading
    /\ stage = "upload" /\ pc[Runner] = "idle" /\ answer[Runner] = "ok" => There(args[next])

ExecInv ==
    /\ stage \in Stages
    /\ stage \in {"none", "clear"} /\ link[ExecDir] # None => left
    /\ stage = "remove" /\ pc[Runner] = "idle" /\ answer[Runner] = "ok" => link[ExecDir] = None

\* What was uploaded is there until it is uploaded again.
UploadedInv(j) ==
    stage \in {"next", "upload", "ansible"} /\ j < next /\ args[j].op # "none" =>
        /\ link[args[j].word] \in Inodes
        /\ \/ There(args[j])
           \/ \E k \in j + 1 .. next - 1 : args[k].word = args[j].word
           \/ stage = "upload" /\ args[next].word = args[j].word

PlayInv ==
    /\ \A t \in Threads : Foreign(t)
    /\ ShareInv /\ SourceInv /\ RunnerInv /\ ExecInv
    /\ \A j \in 1 .. Len(args) : UploadedInv(j)

\* The playbook is not also named by an argument before it.
PlaybookApart == \A i \in 1 .. Len(args) - 1 : args[i].word # args[Len(args)].word

\* A "-i" is followed by the inventory, or the inventory is being uploaded.
FlagsInv ==
    \A k \in 1 .. Len(cmd) : cmd[k] = InventoryFlag =>
        IF k < Len(cmd) THEN cmd[k + 1] = args[Len(args) - 1].word
        ELSE stage = "upload" /\ next = Len(args) - 1

\* self.cmd over the runs with the same arguments.
CmdInv ==
    /\ cmd \in Seq(Paths \cup {InventoryFlag})
    /\ same => \A k \in 1 .. Len(cmd) :
                  cmd[k] = InventoryFlag \/ \E j \in 1 .. Len(args) : cmd[k] = args[j].word
    /\ same /\ ~ dangling => FlagsInv
    /\ same /\ ~ named /\ PlaybookApart =>
          Playbooks = IF next > Len(args) /\ args # <<>> THEN {Len(cmd)} ELSE {}

LEMMA OwnPaths ==
    /\ Runner \in Threads /\ ExecDir \in Paths /\ ExecDir \in Own /\ Parent[ExecDir] = Root
    /\ \A p \in Own : p \in Paths
    /\ \A p \in Sources : p \in Own /\ p # ExecDir /\ Parent[p] # ExecDir
    /\ \A p \in Paths :
          Parent[p] = ExecDir =>
              /\ p \in Own /\ p # ExecDir /\ p \notin Sources
              /\ \A q \in Paths : Parent[q] # p
    /\ Prv \in Paths /\ Pub \in Paths /\ Prv \notin Own /\ Pub \notin Own
    /\ Root \notin Paths
<1>1. /\ Runner \in Threads /\ ExecDir \in Paths /\ Parent[ExecDir] = Root
      /\ Sources \subseteq Local \ Tree(ExecDir)
  BY PlaybookAssumption DEF PlaybookAssumption
<1>2. /\ Root \notin Paths /\ Parent \in [Paths -> Paths \cup {Root}]
      /\ \A p \in Paths : Parent[p] # Root => Parent[Parent[p]] = Root
  BY FilesAssumption DEF FilesAssumption
<1>3. Sources \subseteq Paths
  BY DEF Sources
<1>4. ASSUME NEW p \in Paths, Parent[p] = ExecDir
      PROVE  /\ p \in Own /\ p # ExecDir /\ p \notin Sources
             /\ \A q \in Paths : Parent[q] # p
  BY <1>1, <1>2, <1>4 DEF Own, Tree
<1>5. Prv \in Paths /\ Pub \in Paths /\ Prv \notin Own /\ Pub \notin Own
  BY KeysAssumption, WorkAssumption DEF KeysAssumption, WorkAssumption
<1>6. \A p \in Sources : p \in Own /\ p # ExecDir /\ Parent[p] # ExecDir
  BY <1>1, <1>3 DEF Own, Tree
<1>7. \A p \in Own : p \in Paths
  BY <1>1, <1>3 DEF Own, Tree
<1> QED
  BY <1>1, <1>2, <1>4, <1>5, <1>6, <1>7 DEF Own, Tree

\* The words of uploaded arguments lie in the directory.
LEMMA Words ==
    ASSUME ArgsInv, NEW j \in 1 .. Len(args), args[j].op # "none"
    PROVE  args[j].word \in Own /\ args[j].word \in Paths /\ Parent[args[j].word] = ExecDir
<1>1. args[j] \in Argument /\ Parent[args[j].word] = ExecDir
  BY ArgsFacts
<1>2. args[j].word \in Paths
  BY <1>1 DEF Argument
<1> QED
  BY <1>1, <1>2, OwnPaths

\* A step that leaves the files of the run and the runner alone.
Quiet ==
    /\ UNCHANGED run
    /\ \A p \in Own : Keeps(p)
    /\ stage # "none" => Same(Runner)
    /\ stage = "upload" /\ pc[Runner] # "idle" => disturbed'[Runner] = disturbed[Runner]

LEMMA ThereKept ==
    ASSUME NEW arg, There(arg), Keeps(arg.word)
    PROVE  There(arg)'
  BY DEF There, Keeps, Content, Whole

LEMMA QuietStep ==
    ASSUME BaseInv, PlayInv, Quiet
    PROVE  /\ SourceInv' /\ RunnerInv' /\ ExecInv'
           /\ \A j \in 1 .. Len(args') : UploadedInv(j)'
<1>0. /\ UNCHANGED <<stage, args, next, left>> /\ ArgsInv
      /\ SourceInv /\ RunnerInv /\ ExecInv
  BY DEF Quiet, run, BaseInv, PlayInv
<1>1. \A p \in Own : Keeps(p)
  BY DEF Quiet
<1>2. SourceInv'
  <2>1. \A p \in Sources : Keeps(p)
    BY <1>1, OwnPaths
  <2>2. \A i : Whole(Held[i])' = Whole(Held[i])
    BY DEF Whole
  <2> QED
    BY <1>0, <2>1, <2>2 DEF SourceInv, Keeps
<1>3. ExecInv'
  <2>1. link'[ExecDir] = link[ExecDir]
    BY <1>1, OwnPaths DEF Keeps
  <2>2. stage # "none" => pc'[Runner] = pc[Runner] /\ answer'[Runner] = answer[Runner]
    BY DEF Quiet, Same
  <2> QED
    BY <1>0, <2>1, <2>2 DEF ExecInv, Stages
<1>4. RunnerInv'
  <2>1. CASE stage = "none"
    BY <1>0, <2>1 DEF RunnerInv
  <2>2. CASE stage # "none" /\ stage # "upload"
    <3>1. Same(Runner)
      BY <2>2 DEF Quiet
    <3> QED
      BY <1>0, <2>2, <3>1 DEF RunnerInv, Same, Busy
  <2>3. CASE stage = "upload"
    <3>1. Same(Runner) /\ next \in 1 .. Len(args) /\ args[next].op # "none"
      BY <1>0, <2>3, ArgsFacts DEF Quiet, ArgsInv
    <3>2. CASE pc[Runner] # "idle"
      <4>1. Uploading /\ disturbed'[Runner] = disturbed[Runner]
        BY <1>0, <2>3, <3>2 DEF RunnerInv, Quiet
      <4>2. Uploading'
        BY <1>0, <3>1, <4>1 DEF Uploading, Same, Uploads
      <4> QED
        BY <1>0, <2>3, <3>1, <3>2, <4>2 DEF RunnerInv, Same
    <3>3. CASE pc[Runner] = "idle"
      <4>1. answer[Runner] = "ok" => There(args[next])
        BY <1>0, <2>3, <3>3 DEF RunnerInv
      <4>2. Keeps(args[next].word)
        BY <1>0, <1>1, <3>1, Words
      <4>3. There(args[next]) => There(args[next])'
        BY <1>0, <4>2, ThereKept DEF There, Keeps, Content, Whole
      <4> QED
        BY <1>0, <2>3, <3>1, <3>3, <4>1, <4>3 DEF RunnerInv, Same
    <3> QED
      BY <3>2, <3>3
  <2> QED
    BY <2>1, <2>2, <2>3
<1>5. ASSUME NEW j \in 1 .. Len(args') PROVE UploadedInv(j)'
  <2>1. UploadedInv(j) /\ j \in 1 .. Len(args)
    BY <1>0, <1>5 DEF PlayInv
  <2>2. CASE args[j].op = "none"
    BY <1>0, <2>2 DEF UploadedInv
  <2>3. CASE args[j].op # "none"
    <3>1. Keeps(args[j].word)
      BY <1>0, <1>1, <2>1, <2>3, Words
    <3>2. There(args[j]) => There(args[j])'
      BY <1>0, <3>1 DEF There, Keeps, Content, Whole
    <3>3. link'[args[j].word] = link[args[j].word]
      BY <3>1 DEF Keeps
    <3> QED
      BY <1>0, <2>1, <3>2, <3>3 DEF UploadedInv
  <2> QED
    BY <2>2, <2>3
<1> QED
  BY <1>2, <1>3, <1>4, <1>5

LEMMA Undisturbed ==
    ASSUME BaseInv, PlayInv, NEW t \in Threads, t # Runner, Notice(t), \A p \in Own : Keeps(p),
           stage = "upload", pc[Runner] # "idle"
    PROVE  disturbed'[Runner] = disturbed[Runner]
<1>0. Runner \in Threads /\ TypeOK /\ PlaceInv(Runner) /\ ProgressInv(Runner) /\ ArgsInv
  BY OwnPaths DEF BaseInv, FilesInv
<1>1. Uploading /\ next \in 1 .. Len(args) /\ args[next].op # "none"
  BY <1>0, ArgsFacts DEF PlayInv, RunnerInv, ArgsInv
<1>2. call[Runner].op = args[next].op /\ args[next].op \in {"create_file", "put"}
  <2>1. args[next] \in Argument
    BY <1>0, <1>1, ArgsFacts
  <2> QED
    BY <1>1, <2>1 DEF Uploading, Uploads, Argument
<1>3. in[Runner] \in Inodes => data'[in[Runner]] = data[in[Runner]]
  <2> SUFFICES ASSUME in[Runner] \in Inodes PROVE data'[in[Runner]] = data[in[Runner]]
    OBVIOUS
  <2>1. in[Runner] # None
    BY Blocks
  <2>2. pc[Runner] \in {"open"} \cup Filling
    BY <1>0, <2>1 DEF PlaceInv, Filling, TypeOK, Steps
  <2>3. args[next].op = "put"
    BY <1>0, <1>2, <2>1, <2>2 DEF PlaceInv, Creates
  <2>4. args[next].src \in Sources
    BY <1>0, <1>1, <2>3, ArgsFacts
  <2>5. link[args[next].src] = in[Runner] /\ Keeps(args[next].src)
    BY <1>1, <2>1, <2>4, OwnPaths DEF Uploading, PlayInv, SourceInv
  <2> QED
    BY <2>5 DEF Keeps
<1>4. out[Runner] # None => /\ link'[dst[Runner]] = link[dst[Runner]]
                            /\ data'[out[Runner]] = data[out[Runner]]
                            /\ attr'[out[Runner]] = attr[out[Runner]]
  <2> SUFFICES ASSUME out[Runner] # None
               PROVE  /\ link'[dst[Runner]] = link[dst[Runner]]
                      /\ data'[out[Runner]] = data[out[Runner]]
                      /\ attr'[out[Runner]] = attr[out[Runner]]
    OBVIOUS
  <2>1. pc[Runner] \in Filling /\ out[Runner] \in Inodes
    BY <1>0 DEF PlaceInv
  <2>2. link[dst[Runner]] = out[Runner]
    BY <1>0, <1>1, <2>1 DEF ProgressInv, Uploading
  <2>3. Keeps(dst[Runner])
    BY <1>0, <1>1, Words DEF Uploading
  <2> QED
    BY <2>1, <2>2, <2>3 DEF Keeps
<1>5. disturbed[Runner] \in BOOLEAN
  BY <1>0 DEF TypeOK
<1> QED
  BY <1>0, <1>3, <1>4, <1>5 DEF Notice

\* A foreign call stays foreign.
LEMMA ForeignKept ==
    ASSUME TypeOK, NEW t \in Threads, PlaceInv(t), Works(t), \A p \in Own : Outside(p, t), pc'[t] # "idle"
    PROVE  \A p \in Own : Outside(p, t)'
<1>1. ASSUME NEW how, End(t, how) PROVE FALSE
  BY <1>1, Ends
<1>2. CASE LookYes(t)
  <2>1. PICK q \in Paths : Parent[q] = dst[t] /\ dst' = [dst EXCEPT ![t] = q]
    BY <1>2 DEF LookYes
  <2>2. pc[t] = "look" /\ call'[t] = call[t] /\ dst'[t] = q /\ pc'[t] # "look"
    BY <1>2, <2>1, GoesOn DEF LookYes, Goes, TypeOK, AfterLook
  <2>3. call[t].op \notin {"rmdir", "move"}
    BY <2>2 DEF PlaceInv, Copies
  <2> QED
    BY <2>1, <2>2, <2>3 DEF Outside
<1>3. ASSUME NEW step, step # "look", Goes(t, step), UNCHANGED dst
      PROVE  \A p \in Own : Outside(p, t)'
  <2>1. call' = call /\ dst' = dst /\ pc'[t] # "look"
    BY <1>3, GoesOn DEF Goes
  <2> QED
    BY <2>1 DEF Outside
<1>4. CASE LookNo(t)
  BY <1>3, <1>4 DEF LookNo, AfterLook
<1> QED
  BY <1>1, <1>2, <1>3, <1>4
     DEF Works, Fails, OpenSource, OpenOut, Encode, Read, Write, Close, SetAttr, SetAttrFails, Remove,
         Rmdir, Mkdir, Touch, Flush, Move, CommandFails, Done, handle

\* A step of a call that does not belong to the run.
LEMMA ForeignWorks ==
    ASSUME BaseInv, PlayInv, NEW t \in Threads, Works(t), t = Runner => stage = "none", UNCHANGED run
    PROVE  PlayInv'
<1>0. TypeOK /\ PlaceInv(t) /\ pc[t] # "idle" /\ Notice(t) /\ \A u \in Threads : u # t => Same(u)
  BY Working, WorksStepped DEF BaseInv, FilesInv, Stepped
<1>1. \A p \in Own : Outside(p, t)
  BY <1>0 DEF PlayInv, Foreign
<1>2. \A p \in Own : Keeps(p) /\ Private(p)'
  BY <1>0, <1>1, OwnPaths, Untouched DEF PlayInv, ShareInv
<1>3. Quiet
  BY <1>0, <1>2, OwnPaths, Undisturbed DEF Quiet
<1>4. ASSUME NEW u \in Threads PROVE Foreign(u)'
  <2>1. stage' = stage
    BY DEF run
  <2>2. CASE u = t
    BY <1>0, <1>1, <2>2, ForeignKept DEF Foreign
  <2>3. CASE u # t
    <3>1. Same(u) /\ Foreign(u)
      BY <1>0, <2>3 DEF PlayInv
    <3> QED
      BY <2>1, <3>1 DEF Foreign, Same, Outside
  <2> QED
    BY <2>2, <2>3
<1> QED
  BY <1>2, <1>3, <1>4, QuietStep DEF PlayInv, ShareInv

\* A step of a request for the key.
LEMMA KeyPlay ==
    ASSUME BaseInv, PlayInv, NEW t \in Threads, (Free(t) /\ AskKey(t)) \/ KeyWorks(t), UNCHANGED run
    PROVE  PlayInv'
<1>0. TypeOK /\ stage' = stage
  BY DEF BaseInv, FilesInv, run
<1>1. CASE UNCHANGED vars
  <2>1. \A p \in Own : Keeps(p) /\ Private(p)'
    BY <1>1 DEF PlayInv, ShareInv, Keeps, Private, vars, files, handle
  <2>2. Quiet
    BY <1>1, <2>1 DEF Quiet, Same, vars, handle
  <2>3. \A u \in Threads : Foreign(u)'
    BY <1>0, <1>1 DEF PlayInv, Foreign, Outside, vars
  <2> QED
    BY <2>1, <2>2, <2>3, QuietStep DEF PlayInv, ShareInv
<1>2. ASSUME NEW r \in {Prv, Pub}, Save(r, made[t]), keyAt[t] # "none", Notice(t), UNCHANGED Rest
      PROVE  PlayInv'
  <2>1. r \in Paths /\ r \notin Own
    BY OwnPaths
  <2>2. \A p \in Own : Keeps(p) /\ Private(p)'
    BY <1>0, <1>2, <2>1, OwnPaths, SaveKeeps DEF PlayInv, ShareInv, Rest, handle
  <2>3. t = Runner => stage = "none"
    BY <1>2 DEF BaseInv, OneThing
  <2>4. \A u \in Threads : Same(u)
    BY <1>2 DEF Rest, handle, Same
  <2>5. Quiet
    BY <1>2, <2>2, <2>3, <2>4, OwnPaths, Undisturbed DEF Quiet
  <2>6. \A u \in Threads : Foreign(u)'
    BY <1>0, <1>2 DEF PlayInv, Foreign, Outside, Rest
  <2> QED
    BY <2>2, <2>5, <2>6, QuietStep DEF PlayInv, ShareInv
<1>3. CASE SavePrivate(t)
  BY <1>2, <1>3 DEF SavePrivate
<1>4. CASE SavePublic(t)
  BY <1>2, <1>4 DEF SavePublic
<1> QED
  BY <1>1, <1>3, <1>4 DEF AskKey, KeyWorks, KeyLook, Keygen, Cat, KeyFails

\* A call that begins.
LEMMA CallPlay ==
    ASSUME BaseInv, PlayInv, NEW t \in Threads, Free(t), Call(t), UNCHANGED run
    PROVE  PlayInv'
<1>0. TypeOK /\ stage' = stage /\ pc[t] = "idle" /\ PlaceInv(t)
  BY DEF BaseInv, FilesInv, run, Call
<1>1. PICK c \in Requests : Begin(t, c)
  BY DEF Call
<1>2. /\ UNCHANGED <<link, data, attr, in, out>>
      /\ pc'[t] # "idle" /\ call'[t] = c /\ dst'[t] = c.dst
      /\ \A u \in Threads : u # t => Same(u) /\ disturbed'[u] = disturbed[u]
  BY <1>0, <1>1 DEF Begin, files, handle, TypeOK, Same, AfterLook
<1>3. ASSUME NEW p \in Own PROVE Keeps(p) /\ Private(p)'
  <2>1. Private(p)
    BY DEF PlayInv, ShareInv
  <2>2. out[t] = None
    BY <1>0 DEF PlaceInv, Filling
  <2>3. \A u \in Threads : u # t => dst'[u] = dst[u]
    BY <1>2 DEF Same
  <2> QED
    BY <1>2, <2>1, <2>2, <2>3, Blocks DEF Keeps, Private
<1>4. Quiet
  <2>1. t = Runner => stage = "none"
    BY DEF Free
  <2> QED
    BY <1>2, <1>3, <2>1, OwnPaths DEF Quiet
<1>5. ASSUME NEW u \in Threads PROVE Foreign(u)'
  <2>1. CASE u = t
    <3>1. \A p \in Own : c.dst \notin {p, Parent[p]} /\ (c.op = "move" => c.src \notin Own)
      BY PlaybookAssumption DEF PlaybookAssumption
    <3> QED
      BY <1>2, <2>1, <3>1 DEF Foreign, Outside
  <2>2. CASE u # t
    <3>1. Same(u) /\ Foreign(u)
      BY <1>2, <2>2 DEF PlayInv
    <3> QED
      BY <1>0, <3>1 DEF Foreign, Same, Outside
  <2> QED
    BY <2>1, <2>2
<1> QED
  BY <1>3, <1>4, <1>5, QuietStep DEF PlayInv, ShareInv

\* A step of the command that makes or removes the directory.
LEMMA CommandSteps ==
    ASSUME BaseInv, Works(Runner), NEW op \in {"rmdir", "mkdir"}, Busy(op)
    PROVE  /\ pc'[Runner] = "idle"
           /\ op = "rmdir" => /\ link'[ExecDir] \in {None, link[ExecDir]}
                              /\ answer'[Runner] = "ok" => link'[ExecDir] = None
<1>0. TypeOK /\ Runner \in Threads /\ ExecDir \in Paths /\ pc[Runner] = "command" /\ call[Runner].op = op
      /\ dst[Runner] = ExecDir
  BY OwnPaths DEF BaseInv, FilesInv, Busy
<1>1. CASE Fails(Runner)
  BY <1>0, <1>1, Ends DEF Fails, files
<1>2. CASE Rmdir(Runner)
  <2>1. link'[ExecDir] = None
    BY <1>0, <1>2 DEF Rmdir, Tree
  <2> QED
    BY <1>0, <1>2, <2>1, Ends DEF Rmdir, Done
<1>3. CASE Mkdir(Runner)
  BY <1>0, <1>3, Ends DEF Mkdir, Done, Runs
<1>4. CASE CommandFails(Runner)
  <2>1. pc'[Runner] = "idle" /\ (op = "rmdir" => answer'[Runner] = "False")
    BY <1>0, <1>4, Ends DEF CommandFails
  <2>2. link'[ExecDir] \in {None, link[ExecDir]}
    BY <1>0, <1>4 DEF CommandFails
  <2> QED
    BY <2>1, <2>2
<1> QED
  BY <1>0, <1>1, <1>2, <1>3, <1>4
     DEF Works, LookYes, LookNo, OpenSource, OpenOut, Encode, Read, Write, Close, SetAttr, SetAttrFails,
         Remove, Touch, Flush, Move, Runs

LEMMA RunnerCommand ==
    ASSUME BaseInv, PlayInv, Works(Runner), stage \in {"clear", "make", "remove"}, UNCHANGED run
    PROVE  PlayInv'
<1>0. TypeOK /\ Runner \in Threads /\ PlaceInv(Runner) /\ pc[Runner] # "idle"
      /\ \A u \in Threads : u # Runner => Same(u)
  BY OwnPaths, Working, WorksStepped DEF BaseInv, FilesInv, Stepped
<1>1. UNCHANGED <<stage, args, next, left>> /\ RunnerInv /\ ExecInv
  BY DEF run, PlayInv
<1>2. PICK op \in {"rmdir", "mkdir"} : Busy(op) /\ (stage # "make" => op = "rmdir")
  BY <1>0, <1>1 DEF RunnerInv
<1>3. /\ pc'[Runner] = "idle"
      /\ op = "rmdir" => /\ link'[ExecDir] \in {None, link[ExecDir]}
                         /\ answer'[Runner] = "ok" => link'[ExecDir] = None
  BY <1>2, CommandSteps
<1>4. ShareInv'
  BY <1>0, <1>2, OwnStep, OwnPaths DEF PlayInv, ShareInv, Busy
<1>5. SourceInv'
  <2>1. ASSUME NEW p \in Sources PROVE Keeps(p)
    <3>1. p \in Paths /\ Private(p) /\ p # ExecDir /\ Parent[p] # ExecDir
      BY OwnPaths DEF PlayInv, ShareInv
    <3>2. Outside(p, Runner)
      BY <1>2, <3>1 DEF Outside, Busy
    <3> QED
      BY <1>0, <3>1, <3>2, Untouched
  <2>2. \A i : Whole(Held[i])' = Whole(Held[i])
    BY DEF Whole
  <2> QED
    BY <2>1, <2>2 DEF PlayInv, SourceInv, Keeps
<1>6. RunnerInv'
  BY <1>1, <1>3 DEF RunnerInv
<1>7. ExecInv'
  BY <1>1, <1>2, <1>3 DEF ExecInv, Stages
<1>8. \A u \in Threads : Foreign(u)'
  BY <1>0, <1>1 DEF PlayInv, Foreign, Same, Outside
<1>9. \A j \in 1 .. Len(args') : UploadedInv(j)'
  BY <1>1 DEF UploadedInv
<1> QED
  BY <1>4, <1>5, <1>6, <1>7, <1>8, <1>9 DEF PlayInv

\* A call that writes a file does not take its name away.
LEMMA NameStays ==
    ASSUME TypeOK, NEW t \in Threads, PlaceInv(t), Works(t), call[t].op \in Creates \cup Copies
    PROVE  link'[dst[t]] = link[dst[t]] \/ link'[dst[t]] \in Inodes
<1>0. dst[t] \in Paths /\ pc[t] # "command"
  BY Working, Kinds DEF PlaceInv
<1>1. CASE Make(dst[t])
  BY <1>0, <1>1, MakeNew DEF New
<1> QED
  BY <1>0, <1>1
     DEF Works, Fails, LookYes, LookNo, OpenSource, OpenOut, Encode, Read, Write, Close, SetAttr, SetAttrFails,
         Remove, Rmdir, Mkdir, Touch, Flush, Move, CommandFails, Runs, files

\* An upload that goes on.
LEMMA UploadGoesOn ==
    ASSUME BaseInv, PlayInv, Works(Runner), stage = "upload", UNCHANGED run, pc'[Runner] # "idle"
    PROVE  Uploading'
<1>0. /\ TypeOK /\ Runner \in Threads /\ PlaceInv(Runner) /\ ArgsInv /\ SourceInv
      /\ pc[Runner] # "idle" /\ Notice(Runner)
  BY OwnPaths, Working, WorksStepped DEF BaseInv, FilesInv, Stepped, PlayInv
<1>1. Uploading /\ next \in 1 .. Len(args) /\ args[next].op # "none"
  BY <1>0, ArgsFacts DEF PlayInv, RunnerInv, ArgsInv
<1>2. UNCHANGED <<args, next>>
  BY DEF run
<1>3. ~ disturbed'[Runner]
  BY <1>0, <1>1, NoticeFacts DEF Uploading, TypeOK
<1>4. dst[Runner] = args[next].word /\ Parent[args[next].word] = ExecDir /\ args[next].word \in Paths
  BY <1>0, <1>1, Words DEF Uploading
<1>5. ~ LookYes(Runner)
  BY <1>4, OwnPaths DEF LookYes
<1>6. ASSUME NEW how, End(Runner, how) PROVE FALSE
  BY <1>0, <1>6, Ends
<1>7. ASSUME NEW step, Goes(Runner, step), UNCHANGED <<dst, in>> PROVE Uploading'
  BY <1>1, <1>2, <1>3, <1>7 DEF Uploading, Goes, Uploads
<1>8. CASE OpenSource(Runner)
  <2>1. call' = call /\ dst' = dst
    BY <1>8 DEF OpenSource, Goes
  <2>2. in'[Runner] # None => in'[Runner] = Initially[args[next].src]
    <3>1. CASE in' = in
      BY <1>1, <3>1 DEF Uploading
    <3>2. CASE call[Runner].src # None /\ in' = [in EXCEPT ![Runner] = link[call[Runner].src]]
      <4>1. call[Runner].src = args[next].src /\ call[Runner].op = args[next].op
        BY <1>1 DEF Uploading, Uploads
      <4>2. args[next] \in Argument /\ args[next].op # "create_file"
        BY <1>0, <1>1, <3>2, <4>1, ArgsFacts
      <4>3. args[next].op = "put"
        BY <1>1, <4>2 DEF Argument
      <4>4. args[next].src \in Sources
        BY <1>0, <1>1, <4>3, ArgsFacts
      <4> QED
        BY <1>0, <3>2, <4>1, <4>4 DEF SourceInv, TypeOK
    <3> QED
      BY <1>8, <3>1, <3>2 DEF OpenSource
  <2> QED
    BY <1>1, <1>2, <1>3, <2>1, <2>2 DEF Uploading, Uploads
<1> QED
  BY <1>5, <1>6, <1>7, <1>8
     DEF Works, Fails, LookNo, OpenOut, Encode, Read, Write, Close, SetAttr, SetAttrFails, Remove,
         Rmdir, Mkdir, Touch, Flush, Move, CommandFails, Done, handle

\* An upload that ends well.
LEMMA UploadEnds ==
    ASSUME BaseInv, PlayInv, Works(Runner), stage = "upload", UNCHANGED run,
           pc'[Runner] = "idle", answer'[Runner] = "ok"
    PROVE  There(args[next])'
<1>0. /\ TypeOK /\ Runner \in Threads /\ PlaceInv(Runner) /\ ProgressInv(Runner) /\ ArgsInv /\ SourceInv
      /\ ShareInv /\ pc[Runner] # "idle" /\ Notice(Runner)
  BY OwnPaths, Working, WorksStepped DEF BaseInv, FilesInv, Stepped, PlayInv
<1>1. Uploading /\ next \in 1 .. Len(args) /\ args[next].op # "none"
  BY <1>0, ArgsFacts DEF PlayInv, RunnerInv, ArgsInv
<1>2. UNCHANGED <<args, next>>
  BY DEF run
<1>3. ~ disturbed'[Runner]
  BY <1>0, <1>1, NoticeFacts DEF Uploading, TypeOK
<1>4. dst[Runner] = args[next].word /\ args[next].word \in Own
  BY <1>0, <1>1, Words DEF Uploading
<1>5. call[Runner].op = args[next].op /\ call[Runner].text = args[next].text
  BY <1>1 DEF Uploading, Uploads
<1>6. args[next].op \in {"create_file", "put"}
  <2>1. args[next] \in Argument
    BY <1>0, <1>1, ArgsFacts
  <2> QED
    BY <1>1, <2>1 DEF Argument
<1>7. call[Runner].op \in Creates \cup Copies
  BY <1>5, <1>6 DEF Creates, Copies
<1>8. /\ link'[dst[Runner]] = out[Runner] /\ out[Runner] \in Inodes
      /\ data'[out[Runner]] = Goal(Runner)
      /\ call[Runner].op \in Copies => in[Runner] \in Inodes
  BY <1>0, <1>3, <1>7, Leaves
<1>a. pc[Runner] \in {"open"} \cup Filling
  BY <1>0, <1>8, Blocks DEF PlaceInv
<1>9. Goal(Runner) = Content(args[next]) /\ (args[next].op = "put" => Initially[args[next].src] \in Inodes)
  <2>1. CASE args[next].op = "create_file"
    <3>1. in[Runner] = None /\ call[Runner].op \in Creates /\ call[Runner].op # "create_ifcfg_file"
      BY <1>0, <1>5, <1>a, <2>1 DEF PlaceInv, Creates
    <3>2. Goal(Runner) = Whole(Latin1[args[next].text])
      BY <1>5, <1>8, <3>1, Blocks DEF Goal, Meant, Encoded
    <3> QED
      BY <2>1, <3>2 DEF Content
  <2>2. CASE args[next].op = "put"
    <3>1. in[Runner] \in Inodes /\ in[Runner] # None /\ call[Runner].op \notin Creates
      BY <1>5, <1>8, <2>2, Blocks DEF Copies, Creates
    <3>2. in[Runner] = Initially[args[next].src] /\ args[next].src \in Sources
      BY <1>0, <1>1, <2>2, <3>1, ArgsFacts DEF Uploading
    <3>3. link[args[next].src] = in[Runner] /\ data[in[Runner]] = Whole(Held[in[Runner]])
      BY <1>0, <3>1, <3>2 DEF SourceInv
    <3>4. in[Runner] # out[Runner]
      <4>1. args[next].src \in Own /\ args[next].src \in Paths /\ args[next].src # args[next].word
        BY <1>0, <1>1, <3>2, OwnPaths, Words
      <4>2. Private(args[next].src)
        BY <1>0, <4>1 DEF ShareInv
      <4> QED
        BY <1>0, <1>4, <3>1, <3>3, <4>1, <4>2 DEF Private
    <3>5. Goal(Runner) = data[in[Runner]]
      BY <3>1, <3>4 DEF Goal, Meant
    <3> QED
      BY <2>2, <3>1, <3>2, <3>3, <3>5 DEF Content
  <2> QED
    BY <1>6, <2>1, <2>2
<1>b. Content(args'[next']) = Content(args[next])
  BY <1>2
<1> QED
  BY <1>2, <1>4, <1>8, <1>9, <1>b DEF There, Content, Whole

LEMMA RunnerUpload ==
    ASSUME BaseInv, PlayInv, Works(Runner), stage = "upload", UNCHANGED run
    PROVE  PlayInv'
<1>0. /\ TypeOK /\ Runner \in Threads /\ PlaceInv(Runner) /\ ArgsInv /\ pc[Runner] # "idle"
      /\ \A u \in Threads : u # Runner => Same(u)
  BY OwnPaths, Working, WorksStepped DEF BaseInv, FilesInv, Stepped
<1>1. Uploading /\ next \in 1 .. Len(args) /\ args[next].op # "none"
  BY <1>0, ArgsFacts DEF PlayInv, RunnerInv, ArgsInv
<1>2. UNCHANGED <<stage, args, next, left>>
  BY DEF run
<1>3. /\ dst[Runner] = args[next].word /\ args[next].word \in Own /\ args[next].word \in Paths
      /\ Parent[args[next].word] = ExecDir
  BY <1>0, <1>1, Words DEF Uploading
<1>4. call[Runner].op \in Creates \cup Copies /\ call[Runner].op \notin {"move", "rmdir"}
  <2>1. args[next] \in Argument
    BY <1>0, <1>1, ArgsFacts
  <2>2. call[Runner].op \in {"create_file", "put"}
    BY <1>1, <2>1 DEF Argument, Uploading, Uploads
  <2> QED
    BY <2>2 DEF Creates, Copies
<1>5. ASSUME NEW p \in Own, p # args[next].word PROVE Keeps(p)
  <2>1. p \in Paths /\ Parent[p] # args[next].word /\ Private(p)
    BY <1>3, OwnPaths DEF PlayInv, ShareInv
  <2>2. Outside(p, Runner)
    BY <1>3, <1>4, <1>5, <2>1 DEF Outside
  <2> QED
    BY <1>0, <2>1, <2>2, Untouched
<1>6. ShareInv'
  BY <1>0, <1>4, OwnStep, OwnPaths DEF PlayInv, ShareInv
<1>7. SourceInv'
  <2>1. \A p \in Sources : Keeps(p)
    BY <1>3, <1>5, OwnPaths
  <2>2. \A i : Whole(Held[i])' = Whole(Held[i])
    BY DEF Whole
  <2> QED
    BY <2>1, <2>2 DEF PlayInv, SourceInv, Keeps
<1>8. RunnerInv'
  BY <1>2, UploadGoesOn, UploadEnds DEF RunnerInv
<1>9. ExecInv'
  BY <1>2 DEF ExecInv, Stages
<1>10. \A u \in Threads : Foreign(u)'
  BY <1>0, <1>2 DEF PlayInv, Foreign, Same, Outside
<1>11. ASSUME NEW j \in 1 .. Len(args') PROVE UploadedInv(j)'
  <2>1. UploadedInv(j) /\ j \in 1 .. Len(args)
    BY <1>2, <1>11 DEF PlayInv
  <2>2. CASE args[j].op = "none"
    BY <1>2, <2>2 DEF UploadedInv
  <2>3. CASE args[j].op # "none" /\ args[j].word # args[next].word
    <3>1. Keeps(args[j].word)
      BY <1>0, <1>5, <2>1, <2>3, Words
    <3>2. There(args[j]) => There(args[j])'
      BY <1>2, <3>1 DEF There, Keeps, Content, Whole
    <3>3. link'[args[j].word] = link[args[j].word]
      BY <3>1 DEF Keeps
    <3> QED
      BY <1>2, <2>1, <3>2, <3>3 DEF UploadedInv
  <2>4. CASE args[j].word = args[next].word
    <3>1. link'[args[next].word] = link[args[next].word] \/ link'[args[next].word] \in Inodes
      BY <1>0, <1>3, <1>4, NameStays
    <3> QED
      BY <1>2, <2>1, <2>4, <3>1 DEF UploadedInv
  <2> QED
    BY <2>2, <2>3, <2>4
<1> QED
  BY <1>6, <1>7, <1>8, <1>9, <1>10, <1>11 DEF PlayInv

LEMMA RunnerWorks ==
    ASSUME BaseInv, PlayInv, Works(Runner), stage # "none", UNCHANGED run
    PROVE  PlayInv'
<1>1. pc[Runner] # "idle" /\ stage \in Stages
  BY Working DEF PlayInv, ExecInv
<1>2. stage \in {"clear", "make", "remove", "upload"}
  BY <1>1 DEF PlayInv, RunnerInv, Stages
<1> QED
  BY <1>2, RunnerCommand, RunnerUpload

\* The steps of the run itself change no file.
LEMMA ActsFiles ==
    ASSUME BaseInv, PlayInv, PlaybookActs
    PROVE  /\ UNCHANGED <<link, data, attr, in, out>>
           /\ pc[Runner] = "idle" /\ in[Runner] = None
           /\ \A u \in Threads : u # Runner => Same(u)
           /\ ShareInv' /\ SourceInv'
           /\ stage' # "none" \/ pc'[Runner] = "idle" => \A u \in Threads : Foreign(u)'
<1>0. TypeOK /\ ArgsInv /\ Runner \in Threads /\ PlaceInv(Runner)
  BY OwnPaths DEF BaseInv, FilesInv
<1>1. /\ UNCHANGED <<link, data, attr, in, out>> /\ pc[Runner] = "idle"
      /\ \A u \in Threads : u # Runner => Same(u)
  BY <1>0, PlaybookBegins DEF Begin, vars, files, handle, Same, TypeOK
<1>2. in[Runner] = None /\ out[Runner] = None
  BY <1>0, <1>1 DEF PlaceInv, Filling
<1>3. ASSUME NEW p \in Own PROVE Private(p)'
  <2>1. Private(p) /\ \A u \in Threads : u # Runner => dst'[u] = dst[u]
    BY <1>1 DEF PlayInv, ShareInv, Same
  <2> QED
    BY <1>1, <1>2, <2>1, Blocks DEF Private
<1>4. SourceInv'
  <2>1. \A i : Whole(Held[i])' = Whole(Held[i])
    BY DEF Whole
  <2> QED
    BY <1>1, <2>1 DEF PlayInv, SourceInv
<1>5. ASSUME stage' # "none" \/ pc'[Runner] = "idle", NEW u \in Threads PROVE Foreign(u)'
  <2>1. CASE u = Runner
    BY <1>5, <2>1 DEF Foreign
  <2>2. CASE u # Runner
    BY <1>1, <2>2 DEF PlayInv, Foreign, Same, Outside
  <2> QED
    BY <2>1, <2>2
<1> QED
  BY <1>1, <1>2, <1>3, <1>4, <1>5 DEF ShareInv

\* A command on the directory that begins.
LEMMA BeginsCommand ==
    ASSUME BaseInv, NEW op \in {"rmdir", "mkdir"}, Begin(Runner, OnDir(op))
    PROVE  Busy(op)' /\ pc'[Runner] # "idle"
<1>1. OnDir(op).op = op /\ OnDir(op).dst = ExecDir
  BY DEF OnDir
<1>2. ~ Looks(OnDir(op)) /\ AfterLook(OnDir(op)) = "command"
  BY <1>1 DEF Looks, AfterLook, Commands
<1> QED
  BY <1>1, <1>2, OwnPaths DEF Begin, Busy, BaseInv, FilesInv, TypeOK

\* A run begins, is cleared, or has its directory made.
LEMMA EarlyActs ==
    ASSUME BaseInv, PlayInv, RunPlaybook \/ Cleared \/ Made
    PROVE  PlayInv'
<1>0. /\ link' = link /\ pc[Runner] = "idle" /\ ShareInv' /\ SourceInv'
      /\ stage' # "none" \/ pc'[Runner] = "idle" => \A u \in Threads : Foreign(u)'
  BY ActsFiles DEF PlaybookActs, PlaybookWorks
<1>1. RunnerInv /\ ExecInv
  BY DEF PlayInv
<1>2. CASE RunPlaybook
  <2>1. /\ stage = "none" /\ stage' = "clear" /\ next' = 1 /\ left' = left /\ Busy("rmdir")'
        /\ pc'[Runner] # "idle"
    BY <1>2, BeginsCommand DEF RunPlaybook, Turn
  <2>2. RunnerInv' /\ ExecInv'
    BY <1>0, <1>1, <2>1 DEF RunnerInv, ExecInv, Stages
  <2>3. \A j \in 1 .. Len(args') : UploadedInv(j)'
    BY <2>1 DEF UploadedInv
  <2> QED
    BY <1>0, <2>1, <2>2, <2>3 DEF PlayInv
<1>3. CASE (Cleared \/ Made) /\ stage' = "none"
  <2>1. pc'[Runner] = "idle" /\ (link[ExecDir] # None => left')
    <3>1. CASE Cleared
      BY <1>0, <1>1, <1>3, <3>1 DEF Cleared, Leave, Turn, vars, ExecInv
    <3>2. CASE Made
      BY <1>0, <1>3, <3>2 DEF Made, Leave, Turn, vars
    <3> QED
      BY <1>3, <3>1, <3>2
  <2>2. RunnerInv' /\ ExecInv'
    BY <1>0, <1>3, <2>1 DEF RunnerInv, ExecInv, Stages
  <2>3. \A j \in 1 .. Len(args') : UploadedInv(j)'
    BY <1>3 DEF UploadedInv
  <2> QED
    BY <1>0, <2>1, <2>2, <2>3 DEF PlayInv
<1>4. CASE Cleared /\ stage' # "none"
  <2>1. stage = "clear" /\ stage' = "make" /\ next' = next /\ Busy("mkdir")' /\ pc'[Runner] # "idle"
    BY <1>4, BeginsCommand DEF Cleared, Leave, Turn
  <2>2. RunnerInv' /\ ExecInv'
    BY <1>1, <2>1 DEF RunnerInv, ExecInv, Stages
  <2>3. \A j \in 1 .. Len(args') : UploadedInv(j)'
    BY <2>1 DEF UploadedInv
  <2> QED
    BY <1>0, <2>1, <2>2, <2>3 DEF PlayInv
<1>5. CASE Made /\ stage' # "none"
  <2>1. stage = "make" /\ stage' = "next" /\ next' = next /\ pc'[Runner] = "idle"
    BY <1>0, <1>5 DEF Made, Leave, Turn, vars
  <2>2. next' = 1
    BY <1>1, <2>1 DEF RunnerInv
  <2>3. RunnerInv' /\ ExecInv'
    BY <2>1 DEF RunnerInv, ExecInv, Stages
  <2>4. \A j \in 1 .. Len(args') : UploadedInv(j)'
    BY <2>2 DEF UploadedInv
  <2> QED
    BY <1>0, <2>1, <2>3, <2>4 DEF PlayInv
<1> QED
  BY <1>2, <1>3, <1>4, <1>5

\* A run removes its directory.
LEMMA LateActs ==
    ASSUME BaseInv, PlayInv, PlaybookActs, Finally(TRUE) \/ Finally(FALSE) \/ Removed
    PROVE  PlayInv'
<1>0. /\ link' = link /\ pc[Runner] = "idle" /\ ShareInv' /\ SourceInv'
      /\ stage' # "none" \/ pc'[Runner] = "idle" => \A u \in Threads : Foreign(u)'
  BY ActsFiles
<1>1. CASE Finally(TRUE) \/ Finally(FALSE)
  <2>1. stage' = "remove" /\ Busy("rmdir")' /\ pc'[Runner] # "idle"
    BY <1>1, BeginsCommand DEF Finally
  <2>2. RunnerInv' /\ ExecInv'
    BY <2>1 DEF RunnerInv, ExecInv, Stages
  <2>3. \A j \in 1 .. Len(args') : UploadedInv(j)'
    BY <2>1 DEF UploadedInv
  <2> QED
    BY <1>0, <2>1, <2>2, <2>3 DEF PlayInv
<1>2. CASE Removed
  <2>1. stage = "remove" /\ stage' = "none" /\ pc'[Runner] = "idle" /\ left' = (answer[Runner] # "ok")
    BY <1>0, <1>2 DEF Removed, Leave, Turn, vars
  <2>2. link[ExecDir] # None => left'
    BY <1>0, <2>1 DEF PlayInv, ExecInv
  <2>3. RunnerInv' /\ ExecInv'
    BY <1>0, <2>1, <2>2 DEF RunnerInv, ExecInv, Stages
  <2>4. \A j \in 1 .. Len(args') : UploadedInv(j)'
    BY <2>1 DEF UploadedInv
  <2> QED
    BY <1>0, <2>1, <2>3, <2>4 DEF PlayInv
<1> QED
  BY <1>1, <1>2

\* A run names a file, or goes from the files to the command.
LEMMA NameActs ==
    ASSUME BaseInv, PlayInv, PlaybookActs, UNCHANGED <<vars, args>>,
           \/ /\ stage \in {"next", "upload"} /\ stage' = "next" /\ next' = next + 1 /\ next <= Len(args)
              /\ args[next].op = "none" \/ There(args[next])
              /\ stage = "next" => args[next].op = "none"
           \/ stage \in {"next", "ansible"} /\ stage' = "ansible" /\ next' = next
    PROVE  PlayInv'
<1>0. /\ link' = link /\ data' = data /\ pc'[Runner] = "idle" /\ ShareInv' /\ SourceInv'
      /\ \A u \in Threads : Foreign(u)'
  BY ActsFiles DEF vars
<1>1. RunnerInv' /\ ExecInv'
  BY <1>0 DEF RunnerInv, ExecInv, Stages
<1>2. next \in Nat /\ next' \in Nat
  BY DEF BaseInv, ArgsInv
<1>3. \A j : There(args[j])' <=> There(args[j])
  BY <1>0 DEF There, Content, Whole
<1>4. ASSUME NEW j \in 1 .. Len(args') PROVE UploadedInv(j)'
  <2>0. j \in Nat /\ UploadedInv(j)
    BY <1>4 DEF PlayInv
  <2>1. CASE j < next
    <3>1. next - 1 \in Int /\ next' - 1 \in Int /\ (next' = next \/ next' = next + 1)
      BY <1>2
    <3>a. ASSUME NEW i \in Nat, NEW m \in Nat, NEW n \in Nat, i < m, n = m \/ n = m + 1
          PROVE  /\ \A k \in i + 1 .. m - 1 : k \in i + 1 .. n - 1
                 /\ n = m + 1 => m \in i + 1 .. n - 1
      BY <3>a
    <3>2. /\ \A k \in j + 1 .. next - 1 : k \in j + 1 .. next' - 1
          /\ next' = next + 1 => next \in j + 1 .. next' - 1
      BY <1>2, <2>0, <2>1, <3>1, <3>a
    <3> QED
      BY <1>0, <1>3, <2>0, <2>1, <3>1, <3>2 DEF UploadedInv
  <2>2. CASE j = next
    <3>1. CASE next' = next
      BY <1>2, <2>2, <3>1 DEF UploadedInv
    <3>2. CASE next' # next
      <4>1. args'[j] = args[j] /\ (args[j].op # "none" => There(args[j]))
        BY <2>2, <3>2
      <4>2. args[j].op # "none" => There(args[j])' /\ link'[args'[j].word] \in Inodes
        BY <1>0, <1>3, <4>1 DEF There
      <4> QED
        BY <4>1, <4>2 DEF UploadedInv
    <3> QED
      BY <3>1, <3>2
  <2>3. CASE j > next
    BY <1>2, <2>0, <2>3 DEF UploadedInv
  <2> QED
    BY <1>2, <2>0, <2>1, <2>2, <2>3
<1> QED
  BY <1>0, <1>1, <1>4 DEF PlayInv

LEMMA UploadActs ==
    ASSUME BaseInv, PlayInv, Upload \/ Uploaded
    PROVE  PlayInv'
<1>0. /\ UNCHANGED <<link, data, in>> /\ pc[Runner] = "idle" /\ in[Runner] = None /\ ShareInv' /\ SourceInv'
      /\ stage' # "none" \/ pc'[Runner] = "idle" => \A u \in Threads : Foreign(u)'
      /\ PlaybookActs
  BY ActsFiles DEF PlaybookActs, PlaybookWorks
<1>1. CASE Upload /\ args[next].op = "none"
  BY <1>0, <1>1, NameActs DEF Upload, Names, Turn
<1>2. CASE Upload /\ args[next].op # "none"
  <2>1. /\ stage = "next" /\ stage' = "upload" /\ Begin(Runner, Uploads(args[next]))
        /\ UNCHANGED <<args, next, left>>
    BY <1>2 DEF Upload, Turn
  <2>2. /\ pc'[Runner] # "idle" /\ call'[Runner] = Uploads(args[next]) /\ dst'[Runner] = Uploads(args[next]).dst
        /\ disturbed'[Runner] = FALSE
    BY <2>1, OwnPaths DEF Begin, BaseInv, FilesInv, TypeOK, AfterLook
  <2>3. Uploading'
    BY <1>0, <2>1, <2>2 DEF Uploading, Uploads
  <2>4. RunnerInv' /\ ExecInv'
    BY <2>1, <2>2, <2>3 DEF RunnerInv, ExecInv, Stages
  <2>5. \A j : There(args[j])' <=> There(args[j])
    BY <1>0, <2>1 DEF There, Content, Whole
  <2>6. ASSUME NEW j \in 1 .. Len(args') PROVE UploadedInv(j)'
    <3>1. UploadedInv(j)
      BY <2>1, <2>6 DEF PlayInv
    <3> QED
      BY <1>0, <2>1, <2>5, <3>1 DEF UploadedInv
  <2> QED
    BY <1>0, <2>1, <2>4, <2>6 DEF PlayInv
<1>3. CASE Uploaded /\ answer[Runner] = "ok"
  <2>1. There(args[next]) /\ next <= Len(args)
    BY <1>0, <1>3 DEF Uploaded, Turn, PlayInv, RunnerInv, BaseInv, ArgsInv
  <2> QED
    BY <1>0, <1>3, <2>1, NameActs DEF Uploaded, Names, Turn
<1>4. CASE Uploaded /\ answer[Runner] # "ok"
  BY <1>0, <1>4, LateActs DEF Uploaded
<1> QED
  BY <1>1, <1>2, <1>3, <1>4

LEMMA PlayStep == BaseInv /\ PlayInv /\ [WorkNext]_workVars => PlayInv'
<1> SUFFICES ASSUME BaseInv, PlayInv, [WorkNext]_workVars PROVE PlayInv'
  OBVIOUS
<1>1. CASE UNCHANGED <<vars, run>>
  <2>1. \A p \in Own : Keeps(p) /\ Private(p)'
    BY <1>1 DEF PlayInv, ShareInv, Keeps, Private, vars, files, handle
  <2>2. Quiet
    BY <1>1, <2>1 DEF Quiet, Same, vars, handle
  <2>3. \A u \in Threads : Foreign(u)'
    BY <1>1 DEF PlayInv, Foreign, Outside, vars, run
  <2> QED
    BY <2>1, <2>2, <2>3, QuietStep DEF PlayInv, ShareInv
<1>2. ASSUME NEW t \in Threads, Works(t), UNCHANGED run PROVE PlayInv'
  BY <1>2, ForeignWorks, RunnerWorks
<1>3. CASE RunPlaybook \/ PlaybookWorks
  <2>1. PlaybookActs
    BY <1>3 DEF PlaybookActs
  <2>2. CASE Execute
    BY <2>1, <2>2, NameActs DEF Execute, Turn
  <2>3. CASE Plays
    BY <2>1, <2>3, NameActs DEF Plays, Turn
  <2>4. CASE Played
    <3>1. Finally(TRUE) \/ Finally(FALSE)
      BY <2>4 DEF Played
    <3> QED
      BY <2>1, <3>1, LateActs
  <2>5. CASE Removed
    BY <2>1, <2>5, LateActs
  <2> QED
    BY <1>3, <2>2, <2>3, <2>4, <2>5, EarlyActs, UploadActs DEF PlaybookWorks
<1>4. CASE WorkNext
  BY <1>1, <1>2, <1>3, <1>4, WorkCases, CallPlay, KeyPlay
<1> QED
  BY <1>1, <1>4 DEF workVars

LEMMA PlayInit == WorkInit => PlayInv
<1> SUFFICES ASSUME WorkInit PROVE PlayInv
  OBVIOUS
<1>1. /\ link = Initially /\ data = [i \in Inodes |-> Whole(Held[i])]
      /\ \A t \in Threads : pc[t] = "idle" /\ out[t] = None
      /\ stage = "none" /\ args = <<>>
  BY DEF WorkInit, Init, PlaybookInit
<1>2. \A t \in Threads : Foreign(t)
  BY <1>1 DEF Foreign
<1>3. ShareInv
  <2> SUFFICES ASSUME NEW p \in Own, link[p] \in Inodes, NEW q \in Paths, q # p PROVE link[q] # link[p]
    BY <1>1, Blocks DEF ShareInv, Private
  <2>1. p \notin Tree(ExecDir)
    BY <1>1, PlaybookAssumption, Blocks DEF PlaybookAssumption
  <2>2. p \in Sources
    BY <2>1 DEF Own
  <2> QED
    BY <1>1, <2>2, PlaybookAssumption DEF PlaybookAssumption
<1>4. SourceInv
  BY <1>1, OwnPaths DEF SourceInv
<1>5. link[ExecDir] = None
  <2>1. ExecDir \in Tree(ExecDir)
    BY OwnPaths DEF Tree
  <2> QED
    BY <1>1, <2>1, PlaybookAssumption DEF PlaybookAssumption
<1>6. RunnerInv /\ ExecInv
  BY <1>1, <1>5 DEF RunnerInv, ExecInv, Stages
<1>7. \A j \in 1 .. Len(args) : UploadedInv(j)
  BY <1>1 DEF UploadedInv
<1> QED
  BY <1>2, <1>3, <1>4, <1>6, <1>7 DEF PlayInv

(* A run is alone with its directory and the files it uploads, whatever the
   other threads do, and they are as far as its stage says
   (playbook_runner.py:47-211). *)
THEOREM PlayInductive == WorkSpec => []PlayInv
<1> QED
  BY BaseInductive, PlayInit, PlayStep, PTL DEF WorkSpec

(* The directory of a run outlives it only if mkdir or the last rmdir failed
   or lost its answer, whatever happened to the uploads and to the command
   (playbook_runner.py:71-79). *)
THEOREM ExecDirIsRemoved == WorkSpec => []ExecDirRemoved
<1>1. PlayInv => ExecDirRemoved
  BY DEF PlayInv, ExecInv, ExecDirRemoved
<1> QED
  BY <1>1, PlayInductive, PTL

\* Of the arguments with one name there is a last one.
LEMMA LatestFacts ==
    ASSUME args \in Seq(Argument), NEW i \in 1 .. Len(args)
    PROVE  /\ Latest(i) \in i .. Len(args)
           /\ args[Latest(i)].word = args[i].word
           /\ \A k \in Latest(i) + 1 .. Len(args) : args[k].word # args[i].word
<1> DEFINE Less == OpToRel(<, Nat)
           Left == {n \in Nat : \E j \in i .. Len(args) : args[j].word = args[i].word /\ n = Len(args) - j}
<1>0. Len(args) \in Nat /\ i \in Nat /\ i <= Len(args)
  OBVIOUS
<1>1. IsWellFoundedOn(Less, Nat)
  BY NatLessThanWellFounded
<1>2. \A x, y \in Nat : x < y => <<x, y>> \in Less
  BY DEF OpToRel
<1> HIDE DEF Less
<1>3. Len(args) - i \in Left
  BY <1>0
<1>4. PICK n \in Left : \A m \in Left : ~ (<<m, n>> \in Less)
  BY <1>1, <1>3, WFMin
<1>5. PICK j \in i .. Len(args) : args[j].word = args[i].word /\ n = Len(args) - j
  BY <1>4
<1>6. ASSUME NEW k \in j + 1 .. Len(args), args[k].word = args[i].word PROVE FALSE
  <2>1. k \in i .. Len(args) /\ Len(args) - k \in Nat /\ Len(args) - k < n
    BY <1>0, <1>5, <1>6
  <2>2. Len(args) - k \in Left
    BY <1>6, <2>1
  <2>3. n \in Nat
    BY <1>4
  <2> QED
    BY <1>2, <1>4, <2>1, <2>2, <2>3
<1>7. \E x \in i .. Len(args) : /\ args[x].word = args[i].word
                                /\ \A k \in x + 1 .. Len(args) : args[k].word # args[i].word
  BY <1>5, <1>6
<1> QED
  BY <1>7 DEF Latest

(* While ansible-playbook runs and the connection holds, every uploaded file
   is in the directory with all of its content, and of two arguments with one
   base name the later one (playbook_runner.py:81-105, 156-205). *)
THEOREM ArgumentsAreDelivered == WorkSpec => []ArgumentsDelivered
<1>1. BaseInv /\ PlayInv => ArgumentsDelivered
  <2> SUFFICES ASSUME BaseInv, PlayInv, phase = "running", reply = "none",
                      NEW i \in 1 .. Len(args), args[i].op # "none"
               PROVE  /\ link[args[Latest(i)].word] \in Inodes
                      /\ data[link[args[Latest(i)].word]] =
                            IF args[Latest(i)].op = "put" THEN data[link[args[Latest(i)].src]]
                            ELSE Whole(Latin1[args[Latest(i)].text])
    BY DEF ArgumentsDelivered
  <2>1. ArgsInv /\ SourceInv /\ stage = "ansible" /\ next = Len(args) + 1 /\ args \in Seq(Argument)
        /\ Len(args) \in Nat
    BY ArgsFacts DEF BaseInv, ArgsInv, PlayInv
  <2>2. PICK j \in 1 .. Len(args) : /\ j = Latest(i) /\ args[j].word = args[i].word
                                    /\ \A k \in j + 1 .. Len(args) : args[k].word # args[i].word
    BY <2>1, LatestFacts
  <2>3. args[j].op # "none"
    BY <2>1, <2>2, ArgsFacts
  <2>4. j < next /\ next - 1 = Len(args)
    BY <2>1
  <2>5. There(args[j])
    <3>1. UploadedInv(j)
      BY DEF PlayInv
    <3>2. ~ \E k \in j + 1 .. next - 1 : args[k].word = args[j].word
      BY <2>2, <2>4
    <3> QED
      BY <2>1, <2>3, <2>4, <3>1, <3>2 DEF UploadedInv
  <2>6. CASE args[j].op = "put"
    <3>1. args[j].src \in Sources
      BY <2>1, <2>6, ArgsFacts
    <3>2. link[args[j].src] = Initially[args[j].src] /\ Initially[args[j].src] \in Inodes
      BY <2>1, <2>5, <2>6, <3>1 DEF There, SourceInv
    <3>3. data[link[args[j].src]] = Whole(Held[Initially[args[j].src]])
      BY <2>1, <3>1, <3>2 DEF SourceInv
    <3> QED
      BY <2>2, <2>5, <2>6, <3>3 DEF There, Content
  <2>7. CASE args[j].op # "put"
    BY <2>2, <2>5, <2>7 DEF There, Content
  <2> QED
    BY <2>6, <2>7
<1> QED
  BY <1>1, BaseInductive, PlayInductive, PTL

----------------------------------------------------------------------------
(* Playbook runs: the command that is kept from run to run.                *)

LEMMA NamesCmd ==
    ASSUME BaseInv, CmdInv, Names(args[next].word), next <= Len(args), stage # "none",
           stage = "upload" \/ stage = "next", UNCHANGED <<args, same, named, dangling>>
    PROVE  CmdInv'
<1> DEFINE w == args[next].word
           last == args[Len(args)].word
<1>0. /\ Len(args) \in Nat /\ next \in 1 .. Len(args) /\ w \in Paths /\ args # <<>>
      /\ cmd \in Seq(Paths \cup {InventoryFlag}) /\ Len(cmd) \in Nat
      /\ InventoryFlag \notin Paths
  <2>1. ArgsInv /\ args \in Seq(Argument)
    BY ArgsFacts DEF BaseInv
  <2>2. next \in 1 .. Len(args) /\ Len(args) \in Nat
    BY <2>1 DEF ArgsInv
  <2>3. args[next] \in Argument
    BY <2>1, <2>2
  <2> QED
    BY <2>1, <2>2, <2>3, PlaybookAssumption DEF CmdInv, Argument, PlaybookAssumption
<1>1. cmd' = Append(cmd, w) /\ next' = next + 1
  BY DEF Names
<1> HIDE DEF w
<1>2. /\ cmd' \in Seq(Paths \cup {InventoryFlag}) /\ Len(cmd') = Len(cmd) + 1
      /\ \A k \in 1 .. Len(cmd) : cmd'[k] = cmd[k]
      /\ cmd'[Len(cmd) + 1] = w
  BY <1>0, <1>1
<1>3. \A k \in 1 .. Len(cmd') : k \in 1 .. Len(cmd) \/ k = Len(cmd) + 1
  BY <1>0, <1>2
<1>4. ASSUME same', NEW k \in 1 .. Len(cmd')
      PROVE  cmd'[k] = InventoryFlag \/ \E j \in 1 .. Len(args) : cmd'[k] = args[j].word
  <2>1. CASE k \in 1 .. Len(cmd)
    BY <1>2, <1>4, <2>1 DEF CmdInv
  <2>2. CASE k = Len(cmd) + 1
    BY <1>0, <1>2, <2>2 DEF w
  <2> QED
    BY <1>3, <1>4, <2>1, <2>2
<1>5. ASSUME same', ~ named', PlaybookApart'
      PROVE  Playbooks' = IF next' > Len(args') /\ args' # <<>> THEN {Len(cmd')} ELSE {}
  <2>1. \A k \in 1 .. Len(cmd) : cmd[k] # last
    <3>1. PlaybookApart /\ ~ (next > Len(args))
      BY <1>0, <1>5 DEF PlaybookApart
    <3>2. Playbooks = {}
      BY <1>5, <3>1 DEF CmdInv
    <3> QED
      BY <3>2 DEF Playbooks
  <2>2. CASE next = Len(args)
    <3>1. w = last /\ next' > Len(args')
      BY <1>0, <1>1, <2>2 DEF w
    <3>2. Playbooks' = {Len(cmd) + 1}
      BY <1>0, <1>2, <1>3, <2>1, <3>1 DEF Playbooks
    <3> QED
      BY <1>0, <1>2, <3>1, <3>2
  <2>3. CASE next # Len(args)
    <3>1. next \in 1 .. Len(args) - 1 /\ ~ (next' > Len(args'))
      BY <1>0, <1>1, <2>3
    <3>2. w # last
      BY <1>5, <3>1 DEF PlaybookApart, w
    <3>3. \A k \in 1 .. Len(cmd') : cmd'[k] # last
      BY <1>2, <1>3, <2>1, <3>2
    <3> QED
      BY <3>1, <3>3 DEF Playbooks
  <2> QED
    BY <2>2, <2>3
<1>6. ASSUME same', ~ dangling', NEW k \in 1 .. Len(cmd'), cmd'[k] = InventoryFlag
      PROVE  k < Len(cmd') /\ cmd'[k + 1] = args[Len(args) - 1].word
  <2>1. k \in 1 .. Len(cmd) /\ cmd[k] = InventoryFlag
    BY <1>0, <1>2, <1>3, <1>6
  <2>2. IF k < Len(cmd) THEN cmd[k + 1] = args[Len(args) - 1].word
        ELSE stage = "upload" /\ next = Len(args) - 1
    BY <1>6, <2>1 DEF CmdInv, FlagsInv
  <2>3. CASE k < Len(cmd)
    <3>1. k + 1 \in 1 .. Len(cmd)
      BY <1>0, <2>1, <2>3
    <3> QED
      BY <1>0, <1>2, <2>1, <2>2, <2>3, <3>1
  <2>4. CASE ~ (k < Len(cmd))
    <3>1. k = Len(cmd)
      BY <1>0, <2>1, <2>4
    <3> QED
      BY <1>0, <1>2, <2>2, <2>4, <3>1 DEF w
  <2> QED
    BY <2>3, <2>4
<1>7. same' /\ ~ dangling' => FlagsInv'
  BY <1>6 DEF FlagsInv
<1> QED
  BY <1>2, <1>4, <1>5, <1>7 DEF CmdInv

\* An upload begins; that of the inventory after its "-i".
LEMMA FlagCmd ==
    ASSUME BaseInv, CmdInv, Upload, cmd' = Flagged, stage' = "upload", next' = next,
           UNCHANGED <<args, same, named, dangling>>
    PROVE  CmdInv'
<1>0. /\ Len(args) \in Nat /\ args # <<>> /\ ~ (next > Len(args))
      /\ cmd \in Seq(Paths \cup {InventoryFlag}) /\ Len(cmd) \in Nat
      /\ stage = "next"
  BY ArgsFacts DEF BaseInv, ArgsInv, CmdInv, Upload, Turn
<1>l. args[Len(args)].word # InventoryFlag
  <2>1. args[Len(args)] \in Argument
    BY <1>0, ArgsFacts DEF BaseInv
  <2> QED
    BY <2>1, PlaybookAssumption DEF PlaybookAssumption, Argument
<1>n. ASSUME same, ~ dangling, NEW k \in 1 .. Len(cmd), cmd[k] = InventoryFlag
      PROVE  k < Len(cmd) /\ cmd[k + 1] = args[Len(args) - 1].word
  BY <1>0, <1>n DEF CmdInv, FlagsInv
<1>1. CASE next # Len(args) - 1
  <2>1. cmd' = cmd
    BY <1>1 DEF Flagged
  <2>2. same' /\ ~ dangling' => FlagsInv'
    BY <1>n, <2>1 DEF FlagsInv
  <2> QED
    BY <2>1, <2>2 DEF CmdInv, PlaybookApart, Playbooks
<1>2. CASE next = Len(args) - 1
  <2>1. cmd' = Append(cmd, InventoryFlag)
    BY <1>2 DEF Flagged
  <2>2. /\ cmd' \in Seq(Paths \cup {InventoryFlag}) /\ Len(cmd') = Len(cmd) + 1
        /\ \A k \in 1 .. Len(cmd) : cmd'[k] = cmd[k]
        /\ cmd'[Len(cmd) + 1] = InventoryFlag
    BY <1>0, <2>1
  <2>3. \A k \in 1 .. Len(cmd') : k \in 1 .. Len(cmd) \/ k = Len(cmd) + 1
    BY <1>0, <2>2
  <2>4. ASSUME same', NEW k \in 1 .. Len(cmd')
        PROVE  cmd'[k] = InventoryFlag \/ \E j \in 1 .. Len(args) : cmd'[k] = args[j].word
    BY <2>2, <2>3, <2>4 DEF CmdInv
  <2>5. Playbooks' = Playbooks
    <3>1. \A k : k \in Playbooks' <=> k \in Playbooks
      BY <1>0, <1>l, <2>2, <2>3 DEF Playbooks
    <3> QED
      BY <3>1
  <2>6. ASSUME same', ~ dangling', NEW k \in 1 .. Len(cmd'), cmd'[k] = InventoryFlag
        PROVE  IF k < Len(cmd') THEN cmd'[k + 1] = args[Len(args) - 1].word
               ELSE stage' = "upload" /\ next' = Len(args) - 1
    <3>1. CASE k \in 1 .. Len(cmd)
      <4>1. k < Len(cmd) /\ cmd[k + 1] = args[Len(args) - 1].word
        BY <1>n, <2>2, <2>6, <3>1
      <4>2. k + 1 \in 1 .. Len(cmd)
        BY <1>0, <3>1, <4>1
      <4> QED
        BY <1>0, <2>2, <4>1, <4>2
    <3>2. CASE k = Len(cmd) + 1
      BY <1>0, <1>2, <2>2, <3>2
    <3> QED
      BY <2>3, <3>1, <3>2
  <2>7. same' /\ ~ dangling' => FlagsInv'
    BY <2>6 DEF FlagsInv
  <2>8. /\ PlaybookApart' <=> PlaybookApart
        /\ ~ (next > Len(args)) /\ ~ (next' > Len(args'))
    BY <1>0 DEF PlaybookApart
  <2> QED
    BY <2>2, <2>4, <2>5, <2>7, <2>8 DEF CmdInv
<1> QED
  BY <1>1, <1>2

LEMMA CmdStep == BaseInv /\ CmdInv /\ [WorkNext]_workVars => CmdInv'
<1> SUFFICES ASSUME BaseInv, CmdInv, [WorkNext]_workVars PROVE CmdInv'
  OBVIOUS
<1>1. ASSUME UNCHANGED <<cmd, same, named, args, next>>, dangling => dangling',
             ~ dangling' /\ stage = "upload" => stage' = "upload" \/ next # Len(args) - 1
      PROVE  CmdInv'
  <2>1. same' /\ ~ dangling' => FlagsInv'
    BY <1>1 DEF CmdInv, FlagsInv
  <2> QED
    BY <1>1, <2>1 DEF CmdInv, PlaybookApart, Playbooks
<1>2. CASE RunPlaybook
  <2>1. PICK a \in RunArgs : args' = a /\ same' = (same /\ (runs = 0 \/ a = args))
    BY <1>2 DEF RunPlaybook
  <2>2. /\ next' = 1 /\ cmd' = cmd /\ dangling' = dangling /\ stage = "none"
        /\ named' = (named \/ (runs > 0 /\ next > Len(args)))
        /\ runs \in Nat
        /\ runs = 0 => cmd = <<>>
    BY <1>2 DEF RunPlaybook, Turn, BaseInv, ArgsInv
  <2>3. Len(a) \in Nat /\ Len(a) # 0
    BY PlaybookAssumption DEF PlaybookAssumption
  <2>a. same' => same /\ (runs = 0 \/ args' = args)
    BY <2>1
  <2>b. ~ named' => ~ named /\ ~ (runs > 0 /\ next > Len(args))
    BY <2>2
  <2>4. ASSUME same', NEW k \in 1 .. Len(cmd')
        PROVE  cmd'[k] = InventoryFlag \/ \E j \in 1 .. Len(args') : cmd'[k] = args'[j].word
    <3>1. runs # 0
      BY <2>2, <2>4
    <3> QED
      BY <2>2, <2>4, <2>a, <3>1 DEF CmdInv
  <2>5. ASSUME same', ~ named', PlaybookApart' PROVE Playbooks' = {}
    <3>1. CASE runs = 0
      BY <2>2, <3>1 DEF Playbooks
    <3>2. CASE runs # 0
      <4>1. args' = args /\ same /\ ~ named /\ ~ (next > Len(args)) /\ PlaybookApart
        <5>1. args' = args /\ same /\ ~ named
          BY <2>5, <2>a, <2>b, <3>2
        <5>2. ~ (next > Len(args))
          BY <2>2, <2>5, <2>b, <3>2
        <5> QED
          BY <2>5, <5>1, <5>2 DEF PlaybookApart
      <4>2. Playbooks = {}
        BY <4>1 DEF CmdInv
      <4> QED
        BY <2>2, <4>1, <4>2 DEF Playbooks
    <3> QED
      BY <3>1, <3>2
  <2>6. ~ (next' > Len(args'))
    BY <2>1, <2>2, <2>3
  <2>7. ASSUME same', ~ dangling' PROVE FlagsInv'
    <3>1. CASE runs = 0
      BY <2>2, <3>1 DEF FlagsInv
    <3>2. CASE runs # 0
      BY <2>2, <2>7, <2>a, <3>2 DEF CmdInv, FlagsInv
    <3> QED
      BY <3>1, <3>2
  <2> QED
    BY <2>2, <2>4, <2>5, <2>6, <2>7 DEF CmdInv
<1>3. CASE PlaybookWorks
  <2>1. CASE Upload
    BY <2>1, NamesCmd, FlagCmd DEF Upload, Turn
  <2>2. CASE Uploaded
    <3>1. next <= Len(args)
      BY <2>2 DEF Uploaded, Turn, BaseInv, ArgsInv
    <3>2. CASE answer[Runner] = "ok"
      BY <2>2, <3>1, <3>2, NamesCmd DEF Uploaded, Turn
    <3>3. CASE answer[Runner] # "ok"
      BY <1>1, <2>2, <3>3 DEF Uploaded
    <3> QED
      BY <3>2, <3>3
  <2> QED
    BY <1>1, <1>3, <2>1, <2>2
       DEF PlaybookWorks, Cleared, Made, Execute, Plays, Played, Removed, Leave, Turn
<1>4. CASE UNCHANGED run
  BY <1>1, <1>4 DEF run
<1> QED
  BY <1>2, <1>3, <1>4, WorkCases DEF workVars

LEMMA CmdInit == WorkInit => CmdInv
<1> SUFFICES ASSUME WorkInit PROVE CmdInv
  OBVIOUS
<1>1. cmd = <<>> /\ args = <<>>
  BY DEF WorkInit, PlaybookInit
<1> QED
  BY <1>1 DEF CmdInv, FlagsInv, Playbooks

(* Though self.cmd is never reset, a run that is repeated with the same arguments
   names only files that are there; its playbook once, if the runs before it
   failed while they uploaded; and an inventory after each of its "-i", if none
   failed in the upload of its inventory (playbook_runner.py:59, 156-194). *)
THEOREM RetriesAreSafe == WorkSpec => []RetrySafe
<1>1. BaseInv /\ PlayInv /\ CmdInv => RetrySafe
  <2> SUFFICES ASSUME BaseInv, PlayInv, CmdInv, stage = "ansible", same
               PROVE  /\ \A i \in 1 .. Len(cmd) :
                            cmd[i] # InventoryFlag /\ Parent[cmd[i]] = ExecDir => link[cmd[i]] # None
                      /\ ~ named /\ PlaybookApart => Playbooks = {Len(cmd)}
                      /\ ~ dangling => InventoryNamed
    BY Zenon DEF RetrySafe, PlaybookApart
  <2>1. ArgsInv /\ next = Len(args) + 1 /\ Len(args) \in Nat /\ args # <<>>
    BY ArgsFacts DEF BaseInv, ArgsInv
  <2>2. ASSUME NEW i \in 1 .. Len(cmd), cmd[i] # InventoryFlag, Parent[cmd[i]] = ExecDir
        PROVE  link[cmd[i]] # None
    <3>1. PICK j \in 1 .. Len(args) : cmd[i] = args[j].word
      BY <2>2 DEF CmdInv
    <3>2. args[j].op # "none" /\ j < next
      BY <2>1, <2>2, <3>1, ArgsFacts
    <3>3. UploadedInv(j)
      BY DEF PlayInv
    <3> QED
      BY <3>1, <3>2, <3>3, Blocks DEF UploadedInv
  <2>3. next > Len(args)
    BY <2>1
  <2>4. ASSUME ~ dangling PROVE InventoryNamed
    BY <2>4 DEF CmdInv, FlagsInv, InventoryNamed
  <2>5. ~ named /\ PlaybookApart => Playbooks = {Len(cmd)}
    BY <2>1, <2>3 DEF CmdInv
  <2> QED
    BY <2>2, <2>4, <2>5
<1> QED
  BY <1>1, BaseInductive, PlayInductive, CmdInit, CmdStep, PTL DEF WorkSpec

=============================================================================
