----------------------------- MODULE HostFiles ------------------------------
(***************************************************************************)
(* The file operations of FileSystem, Host and Network (filesystem.py:      *)
(* 16-271, host.py:278-301, 493-517, network.py:546-579): threads create,  *)
(* copy, move and remove files of hosts and of the local machine.  A file  *)
(* that is written is opened in place, which empties it, and filled chunk  *)
(* by chunk through a handle; looks and commands are steps of their own.   *)
(* Every step may fail, and the answer to one that took effect may be      *)
(* lost.                                                                   *)
(***************************************************************************)
EXTENDS Naturals, Sequences

CONSTANTS
    Threads,
    Paths,          \* of files and directories, on every machine
    Local,          \* the paths of the machine the threads run on
    Parent,         \* the directory a path lies in, or Root
    Base,           \* the base name of a path
    Root,           \* the directories that are always there
    Inodes,         \* files, linked to a path or only open
    Contents,       \* what a file may hold
    Texts,          \* what a caller may create a file from
    Latin1,         \* the bytes six.b makes of a text, or None
    Utf8,           \* the bytes paramiko makes of it
    Chunks,         \* the number of chunks a file is written in
    Requests,       \* the calls the threads make
    Initially,      \* what each path is before anything runs
    Held,           \* what each inode holds then
    None, Dir

Attributes == {"x", "owner"}

Creates  == {"create_file", "create_script", "Host.create_script", "create_ifcfg_file"}
Copies   == {"put", "get", "transfer", "copy_to"}
Commands == {"remove", "rmdir", "mkdir", "touch", "flush_file", "move"}

Calls ==
    [op : Creates \cup Copies \cup Commands, src : Paths \cup {None},
     text : Texts \cup {None}, dst : Paths, attrs : SUBSET Attributes]

ASSUME FilesAssumption ==
    /\ Local \subseteq Paths
    /\ Parent \in [Paths -> Paths \cup {Root}]
    /\ \A p \in Paths : Parent[p] # Root => Parent[Parent[p]] = Root
    /\ Paths \subseteq DOMAIN Base
    /\ Latin1 \in [Texts -> Contents \cup {None}] /\ Utf8 \in [Texts -> Contents]
    /\ Initially \in [Paths -> Inodes \cup {None, Dir}] /\ Held \in [Inodes -> Contents \cup {None}]
    /\ Chunks \in Nat \ {0}
    /\ Requests \subseteq Calls
    /\ \A c \in Requests : c.op \in Creates => c.text \in Texts /\ c.src = None
    /\ \A c \in Requests : c.op \in Copies \cup {"move"} => c.src \in Paths
    /\ {None, Dir} \cap Inodes = {} /\ None # Dir
    /\ None \notin Paths \cup Contents \cup Texts /\ Root \notin Paths

VARIABLES
    link,       \* what each path is: None, Dir or an inode
    data,       \* the chunks of each inode
    attr,       \* the attributes of each inode
    pc,         \* the next step of each thread's call
    call,       \* its request
    dst,        \* its destination once the look is done
    in, out,    \* the inodes it has open to read and to write
    buffer,     \* what it has read
    at,         \* the chunk it reads or writes next
    answer,     \* how its last call ended
    calls,      \* how many calls it made (counted for the bounds)
    disturbed   \* its files were changed by somebody else meanwhile (history)

files  == <<link, data, attr>>
handle == <<in, out, buffer, at>>
vars   == <<files, pc, call, dst, handle, answer, calls, disturbed>>

Chunk   == Contents \cup {None}
Block   == [1 .. Chunks -> Chunk]
Whole(c) == [i \in 1 .. Chunks |-> c]
Empty   == Whole(None)

NoCall == [op |-> "none"]
Steps == {"idle", "look", "source", "open", "read", "write", "close", "attrs", "command"}
Answers == {"none", "ok", "False", "failure", "raised", "empty"}

TypeOK ==
    /\ link \in [Paths -> Inodes \cup {None, Dir}]
    /\ data \in [Inodes -> Block]
    /\ attr \in [Inodes -> SUBSET Attributes]
    /\ pc \in [Threads -> Steps]
    /\ call \in [Threads -> Calls \cup {NoCall}]
    /\ dst \in [Threads -> Paths \cup {None}]
    /\ in \in [Threads -> Inodes \cup {None, Dir}]
    /\ out \in [Threads -> Inodes \cup {None}]
    /\ buffer \in [Threads -> Block]
    /\ at \in [Threads -> 1 .. Chunks + 1]
    /\ answer \in [Threads -> Answers]
    /\ calls \in [Threads -> Nat]
    /\ disturbed \in [Threads -> BOOLEAN]

Init ==
    /\ link = Initially
    /\ data = [i \in Inodes |-> Whole(Held[i])]
    /\ attr = [i \in Inodes |-> {}]
    /\ pc = [t \in Threads |-> "idle"]
    /\ call = [t \in Threads |-> NoCall]
    /\ dst = [t \in Threads |-> None]
    /\ in = [t \in Threads |-> None]
    /\ out = [t \in Threads |-> None]
    /\ buffer = [t \in Threads |-> Empty]
    /\ at = [t \in Threads |-> 1]
    /\ answer = [t \in Threads |-> "none"]
    /\ calls = [t \in Threads |-> 0]
    /\ disturbed = [t \in Threads |-> FALSE]

----------------------------------------------------------------------------
(* Helpers.                                                                *)

\* What a call does to the files that others have open is noticed by them.
Notice(t) ==
    disturbed' = [u \in Threads |->
        \/ disturbed[u]
        \/ /\ u # t /\ pc[u] # "idle"
           /\ \/ in[u] \in Inodes /\ data'[in[u]] # data[in[u]]
              \/ out[u] # None /\ (\/ link'[dst[u]] # link[dst[u]]
                                   \/ data'[out[u]] # data[out[u]]
                                   \/ attr'[out[u]] # attr[out[u]])]

Unused == Inodes \ ({link[p] : p \in Paths} \cup {in[t] : t \in Threads} \cup {out[t] : t \in Threads})

ParentThere(p) == Parent[p] # Root => link[Parent[p]] = Dir

\* A new, empty file at a path.
Make(p) ==
    LET i == CHOOSE i \in Unused : TRUE
    IN  /\ Unused # {} /\ ParentThere(p)
        /\ link' = [link EXCEPT ![p] = i]
        /\ data' = [data EXCEPT ![i] = Empty]
        /\ attr' = [attr EXCEPT ![i] = {}]

Looks(c) == c.op \in {"put", "get", "transfer"}

AfterLook(c) == IF c.op \in Commands THEN "command" ELSE "source"

\* What a call sets with chmod and chown once the file is written.
Wanted(c, a) == IF a \in c.attrs THEN <<a>> ELSE <<>>

Then(c) ==
    IF c.op \in {"create_script", "Host.create_script"} THEN <<"x">>
    ELSE IF c.op = "copy_to" THEN Wanted(c, "x") \o Wanted(c, "owner")
    ELSE <<>>

\* fh.write(six.b(content)), or text given to paramiko.
Encoded(c) == IF c.op = "create_ifcfg_file" THEN Utf8[c.text] ELSE Latin1[c.text]

Begin(t, c) ==
    /\ pc' = [pc EXCEPT ![t] = IF Looks(c) THEN "look" ELSE AfterLook(c)]
    /\ call' = [call EXCEPT ![t] = c]
    /\ dst' = [dst EXCEPT ![t] = c.dst]
    /\ answer' = [answer EXCEPT ![t] = "none"]
    /\ disturbed' = [disturbed EXCEPT ![t] = FALSE]
    /\ UNCHANGED <<files, handle>>

End(t, how) ==
    /\ pc' = [pc EXCEPT ![t] = "idle"]
    /\ answer' = [answer EXCEPT ![t] = how]
    /\ call' = [call EXCEPT ![t] = NoCall]
    /\ dst' = [dst EXCEPT ![t] = None]
    /\ in' = [in EXCEPT ![t] = None]
    /\ out' = [out EXCEPT ![t] = None]
    /\ buffer' = [buffer EXCEPT ![t] = Empty]
    /\ at' = [at EXCEPT ![t] = 1]
    /\ Notice(t)
    /\ UNCHANGED calls

Goes(t, step) ==
    /\ pc' = [pc EXCEPT ![t] = step]
    /\ UNCHANGED <<call, answer, calls>>
    /\ Notice(t)

Call(t) ==
    /\ pc[t] = "idle"
    /\ calls' = [calls EXCEPT ![t] = @ + 1]
    /\ \E c \in Requests : Begin(t, c)

\* The connection, a permission, a full disk: any step may raise.
Fails(t) ==
    /\ pc[t] # "idle"
    /\ UNCHANGED files
    /\ End(t, "raised")

----------------------------------------------------------------------------
(* Files that are written.                                                 *)

\* isdir answers yes: the file goes into the directory, under its base name.
LookYes(t) ==
    /\ pc[t] = "look"
    /\ UNCHANGED <<files, handle>>
    /\ link[dst[t]] = Dir
    /\ \E p \in Paths :
          /\ Parent[p] = dst[t] /\ Base[p] = Base[call[t].src]
          /\ dst' = [dst EXCEPT ![t] = p]
    /\ Goes(t, AfterLook(call[t]))

\* isdir answers no, which on a host it also does when its command fails.
LookNo(t) ==
    /\ pc[t] = "look"
    /\ UNCHANGED <<files, handle, dst>>
    /\ link[dst[t]] # Dir \/ dst[t] \notin Local
    /\ Goes(t, AfterLook(call[t]))

(* The sessions, and the source.  A host may let a directory be opened and
   refuse to read it. *)
OpenSource(t) ==
    /\ pc[t] = "source"
    /\ UNCHANGED <<files, dst, out, buffer, at>>
    /\ \/ call[t].src = None /\ UNCHANGED in
       \/ /\ call[t].src # None
          /\ link[call[t].src] \in (IF call[t].src \in Local THEN Inodes ELSE Inodes \cup {Dir})
          /\ in' = [in EXCEPT ![t] = link[call[t].src]]
    /\ Goes(t, "open")

\* Mutant: the file is made executable when it is opened.
OpenOutRunnable(t) ==
    /\ pc[t] = "open"
    /\ UNCHANGED <<dst, in, buffer, at>>
    /\ link[dst[t]] \in Inodes
    /\ data' = [data EXCEPT ![link[dst[t]]] = Empty]
    /\ attr' = [attr EXCEPT ![link[dst[t]]] = {"x"}]
    /\ UNCHANGED link
    /\ out' = [out EXCEPT ![t] = link[dst[t]]]
    /\ Goes(t, "read")

\* open_file(path, 'wb'): the file is emptied, or made.
OpenOut(t) ==
    /\ pc[t] = "open"
    /\ UNCHANGED <<dst, in, buffer, at>>
    /\ \/ /\ link[dst[t]] \in Inodes
          /\ data' = [data EXCEPT ![link[dst[t]]] = Empty]
          /\ UNCHANGED <<link, attr>>
       \/ link[dst[t]] = None /\ Make(dst[t])
    /\ out' = [out EXCEPT ![t] = link'[dst[t]]]
    /\ Goes(t, "read")

\* six.b(content) raises when there are no such bytes; see Fails.
Encode(t) ==
    /\ pc[t] = "read" /\ call[t].op \in Creates
    /\ UNCHANGED <<files, dst, in, out, at>>
    /\ Encoded(call[t]) # None
    /\ buffer' = [buffer EXCEPT ![t] = Whole(Encoded(call[t]))]
    /\ Goes(t, "write")

AtEnd(b, i) == \A j \in 1 .. Chunks : j >= i => b[j] = None

Read(t) ==
    /\ pc[t] = "read" /\ call[t].op \in Copies /\ in[t] # Dir
    /\ UNCHANGED <<files, dst, in, out>>
    /\ \/ /\ AtEnd(data[in[t]], at[t])
          /\ at' = [at EXCEPT ![t] = 1]
          /\ Goes(t, "write")
          /\ UNCHANGED buffer
       \/ /\ ~ AtEnd(data[in[t]], at[t])
          /\ buffer' = [buffer EXCEPT ![t][at[t]] = data[in[t]][at[t]]]
          /\ at' = [at EXCEPT ![t] = @ + 1]
          /\ Goes(t, "read")

\* Mutant: a write that was cut short is taken for a whole one.
WriteShort(t) ==
    /\ pc[t] = "write"
    /\ UNCHANGED <<link, attr, dst, in, out, buffer, at>>
    /\ data' = [data EXCEPT ![out[t]][at[t]] = buffer[t][at[t]]]
    /\ Goes(t, "close")

Write(t) ==
    /\ pc[t] = "write"
    /\ UNCHANGED <<link, attr, dst, in, out, buffer>>
    /\ \/ /\ AtEnd(buffer[t], at[t])
          /\ UNCHANGED data
          /\ at' = [at EXCEPT ![t] = 1]
          /\ Goes(t, "close")
       \/ /\ ~ AtEnd(buffer[t], at[t])
          /\ data' = [data EXCEPT ![out[t]][at[t]] = buffer[t][at[t]]]
          /\ at' = [at EXCEPT ![t] = @ + 1]
          /\ Goes(t, "write")

Close(t) ==
    /\ pc[t] = "close"
    /\ UNCHANGED files
    /\ \/ Then(call[t]) = <<>> /\ End(t, "ok")
       \/ Then(call[t]) # <<>> /\ Goes(t, "attrs") /\ UNCHANGED <<dst, handle>>

\* chmod or chown of the path, whatever it is by now.
SetAttr(t) ==
    /\ pc[t] = "attrs"
    /\ UNCHANGED <<link, data>>
    /\ link[dst[t]] # None
    /\ attr' = IF link[dst[t]] = Dir THEN attr
               ELSE [attr EXCEPT ![link[dst[t]]] = @ \cup {Then(call[t])[at[t]]}]
    /\ \/ /\ at[t] < Len(Then(call[t]))
          /\ at' = [at EXCEPT ![t] = @ + 1]
          /\ Goes(t, "attrs")
          /\ UNCHANGED <<dst, in, out, buffer>>
       \/ /\ at[t] = Len(Then(call[t]))
          /\ \E how \in {"ok", "raised"} : End(t, how)

\* CommandExecutionFailure, of which Host.create_script makes "".
SetAttrFails(t) ==
    /\ pc[t] = "attrs"
    /\ UNCHANGED files
    /\ End(t, IF call[t].op = "Host.create_script" THEN "empty" ELSE "failure")

----------------------------------------------------------------------------
(* Commands.                                                               *)

\* The command had its effect; its answer may be lost.
Done(t) == \E how \in {"ok", "raised"} : End(t, how)

Runs(t, op) == pc[t] = "command" /\ call[t].op = op

\* rm -f path
Remove(t) ==
    /\ Runs(t, "remove")
    /\ link[dst[t]] # Dir
    /\ link' = [link EXCEPT ![dst[t]] = None]
    /\ UNCHANGED <<data, attr>>
    /\ Done(t)

Tree(d) == {p \in Paths : p = d \/ Parent[p] = d}

\* rm -rf path
Rmdir(t) ==
    /\ Runs(t, "rmdir")
    /\ link' = [p \in Paths |-> IF p \in Tree(dst[t]) THEN None ELSE link[p]]
    /\ UNCHANGED <<data, attr>>
    /\ Done(t)

\* mkdir path
Mkdir(t) ==
    /\ Runs(t, "mkdir")
    /\ link[dst[t]] = None /\ ParentThere(dst[t])
    /\ link' = [link EXCEPT ![dst[t]] = Dir]
    /\ UNCHANGED <<data, attr>>
    /\ Done(t)

\* touch path, with one path
Touch(t) ==
    /\ Runs(t, "touch")
    /\ \/ link[dst[t]] = None /\ Make(dst[t])
       \/ link[dst[t]] # None /\ UNCHANGED files
    /\ Done(t)

\* truncate -s 0 path
Flush(t) ==
    /\ Runs(t, "flush_file")
    /\ \/ link[dst[t]] = None /\ Make(dst[t])
       \/ /\ link[dst[t]] \in Inodes
          /\ data' = [data EXCEPT ![link[dst[t]]] = Empty]
          /\ UNCHANGED <<link, attr>>
    /\ Done(t)

\* Where mv puts a file: into a directory under its base name.
Arrival(p, q) == IF link[p] = Dir THEN {r \in Paths : Parent[r] = p /\ Base[r] = Base[q]} ELSE {p}

\* mv source destination, of a file
Move(t) ==
    /\ Runs(t, "move")
    /\ LET s == call[t].src
       IN  /\ link[s] \in Inodes
           /\ \E p \in Arrival(dst[t], s) \ {s} :
                 /\ link[p] # Dir /\ ParentThere(p)
                 /\ link' = [link EXCEPT ![p] = link[s], ![s] = None]
    /\ UNCHANGED <<data, attr>>
    /\ Done(t)

\* A status other than 0; rm -rf may have removed some files of the directory.
CommandFails(t) ==
    /\ pc[t] = "command"
    /\ \E gone \in SUBSET (IF call[t].op = "rmdir" THEN Tree(dst[t]) \ {dst[t]} ELSE {}) :
          link' = [p \in Paths |-> IF p \in gone THEN None ELSE link[p]]
    /\ UNCHANGED <<data, attr>>
    /\ End(t, IF call[t].op = "mkdir" THEN "failure" ELSE "False")

Works(t) ==
    \/ Fails(t) \/ LookYes(t) \/ LookNo(t)
    \/ OpenSource(t) \/ OpenOut(t) \/ Encode(t) \/ Read(t) \/ Write(t) \/ Close(t)
    \/ SetAttr(t) \/ SetAttrFails(t)
    \/ Remove(t) \/ Rmdir(t) \/ Mkdir(t) \/ Touch(t) \/ Flush(t) \/ Move(t)
    \/ CommandFails(t)

----------------------------------------------------------------------------
(* Properties.                                                             *)

\* What the destination of a call is meant to hold.
Meant(t) == IF call[t].op \in Creates THEN Whole(Encoded(call[t])) ELSE data[in[t]]

(* A create, put, get, transfer or copy_to that ends without an exception has
   left the whole content at the path it returns, with the attributes it was
   to set, unless somebody else changed the files meanwhile (filesystem.py:
   137-162, 213-271, host.py:278-301); a file that is copied onto itself is
   emptied instead. *)
Delivered ==
    [][\A t \in Threads :
          /\ call[t] # NoCall /\ call[t].op \in Creates \cup Copies
          /\ pc'[t] = "idle" /\ answer'[t] = "ok" /\ ~ disturbed'[t]
          => /\ link'[dst[t]] = out[t]
             /\ \A i \in 1 .. Len(Then(call[t])) : Then(call[t])[i] \in attr'[out[t]]
             /\ data'[out[t]] = IF in[t] = out[t] THEN Empty ELSE Meant(t)]_vars

(* A script becomes executable only once it is whole, whichever step of its
   creation fails (filesystem.py:158-162, host.py:293-299). *)
RunnableIsWhole ==
    [][\A i \in Inodes :
          "x" \in attr'[i] \ attr[i] =>
             \E t \in Threads :
                /\ pc[t] = "attrs"
                /\ disturbed[t] \/ (out[t] = i /\ (in[t] = i \/ data[i] = Meant(t)))]_vars

=============================================================================
