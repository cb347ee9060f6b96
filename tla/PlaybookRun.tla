---------------------------- MODULE PlaybookRun -----------------------------
(***************************************************************************)
(* PlaybookRunner.run (playbook_runner.py:47-211): one object, used by the  *)
(* thread Runner, runs playbooks one after the other.  A run clears and    *)
(* makes its directory, uploads its files with the calls of HostFiles,     *)
(* names them in self.cmd, reads the output of ansible-playbook (a         *)
(* RemoteCall) and removes the directory whatever happened.                *)
(***************************************************************************)
EXTENDS HostFiles

CONSTANTS
    Runner,         \* the thread that uses the object
    ExecDir,        \* /tmp/<short uuid>
    RunArgs,        \* argument lists a run may be given
    InventoryFlag   \* the word "-i"

(* One argument: the path the command names, and the call that uploads it;
   with upload_playbook=False there is none.  Of the arguments of a run the last
   is the playbook and the one before it the inventory. *)
Argument == [word : Paths, op : {"create_file", "put", "none"},
             src : Paths \cup {None}, text : Texts \cup {None}]

\* The local files that runs upload.
Sources == {p \in Paths : \E a \in RunArgs : \E i \in 1 .. Len(a) : a[i].op = "put" /\ a[i].src = p}

\* The directory, which is named after an uuid, and the uploaded files.
Own == Tree(ExecDir) \cup Sources

ASSUME PlaybookAssumption ==
    /\ Runner \in Threads
    /\ InventoryFlag \notin Paths
    /\ ExecDir \in Paths /\ Parent[ExecDir] = Root
    /\ \A p \in Tree(ExecDir) : Initially[p] = None
    /\ \A p \in Sources, q \in Paths : Initially[p] \in Inodes /\ p # q => Initially[p] # Initially[q]
    /\ Sources \subseteq Local \ Tree(ExecDir)
    /\ \A a \in RunArgs :
          /\ a \in Seq(Argument) /\ Len(a) >= 2 /\ a[Len(a) - 1].op # "none"
          /\ \A i \in 1 .. Len(a) :
                /\ a[i].op # "none" <=> Parent[a[i].word] = ExecDir
                /\ a[i].op = "put" => a[i].src # None
                /\ a[i].op = "create_file" =>
                      a[i].src = None /\ a[i].text \in Texts /\ Latin1[a[i].text] # None
    \* Nobody else writes them, or moves them away.
    /\ \A c \in Requests :
          /\ \A p \in Own : c.dst \notin {p, Parent[p]}
          /\ c.op = "move" => c.src \notin Own

VARIABLES
    stage,      \* where the run is, "none" between runs
    args,       \* its arguments
    next,       \* the argument that is uploaded next
    cmd,        \* self.cmd: the words that name files, and "-i"
    failing,    \* an exception is on its way out of the with block
    phase,      \* ansible-playbook on the host, and
    reply,      \*   what read_lines made of it
    outcome,    \* how the last run ended
    runs,       \* number of runs begun
    left,       \* the directory stays behind for a reason (history)
    same,       \* all runs so far were given the same arguments (history)
    named,      \* an earlier run came to name its playbook (history)
    dangling    \* the upload of an inventory failed after its "-i" (history)

run      == <<stage, args, next, cmd, failing, phase, reply, outcome, runs, left, same, named,
              dangling>>
playVars == <<vars, run>>

Ansible == INSTANCE RemoteCall WITH answer <- reply

Stages == {"none", "clear", "make", "next", "upload", "ansible", "remove"}

PlaybookTypeOK ==
    /\ stage \in Stages
    /\ args \in Seq(Argument) /\ cmd \in Seq(Paths \cup {InventoryFlag})
    /\ next \in 1 .. Len(args) + 1
    /\ {failing, left, same, named, dangling} \subseteq BOOLEAN
    /\ phase \in {"idle", "running", "exited"}
    /\ reply \in Ansible!Answers \cup {"none"}
    /\ outcome \in {"none", "returned", "raised"}
    /\ runs \in Nat

PlaybookInit ==
    /\ stage = "none" /\ args = <<>> /\ next = 1 /\ cmd = <<>> /\ failing = FALSE
    /\ Ansible!Init
    /\ outcome = "none" /\ runs = 0 /\ left = FALSE /\ same = TRUE
    /\ named = FALSE /\ dangling = FALSE

----------------------------------------------------------------------------
OnDir(op) == [op |-> op, src |-> None, text |-> None, dst |-> ExecDir, attrs |-> {}]

Uploads(a) == [op |-> a.op, src |-> a.src, text |-> a.text, dst |-> a.word, attrs |-> {}]

\* The runner's turn: the call it made last has ended.
Turn(s) == stage = s /\ pc[Runner] = "idle"

Leave(how) ==
    /\ stage' = "none" /\ outcome' = how
    /\ UNCHANGED <<vars, args, next, cmd, failing, phase, reply, runs, same, named, dangling>>

\* run(): the directory is cleared first.
RunPlaybook ==
    /\ Turn("none")
    /\ \E a \in RunArgs : args' = a /\ same' = (same /\ (runs = 0 \/ a = args))
    /\ stage' = "clear" /\ next' = 1 /\ failing' = FALSE
    /\ phase' = "idle" /\ reply' = "none" /\ runs' = runs + 1
    /\ named' = (named \/ (runs > 0 /\ next > Len(args)))
    /\ Begin(Runner, OnDir("rmdir"))
    /\ UNCHANGED <<cmd, outcome, left, dangling, calls>>

\* The result of rmdir is not looked at.
Cleared ==
    /\ Turn("clear")
    /\ \/ answer[Runner] = "raised" /\ Leave("raised") /\ UNCHANGED left
       \/ /\ answer[Runner] # "raised"
          /\ stage' = "make"
          /\ Begin(Runner, OnDir("mkdir"))
          /\ UNCHANGED <<args, next, cmd, failing, phase, reply, outcome, runs, left, same, named,
                         dangling, calls>>

\* mkdir raises before the try: the directory it may have made stays.
Made ==
    /\ Turn("make")
    /\ \/ answer[Runner] # "ok" /\ Leave("raised") /\ left' = TRUE
       \/ /\ answer[Runner] = "ok"
          /\ stage' = "next" /\ left' = FALSE
          /\ UNCHANGED <<vars, args, next, cmd, failing, phase, reply, outcome, runs, same, named,
                         dangling>>

Names(w) ==
    /\ cmd' = Append(cmd, w) /\ next' = next + 1
    /\ stage' = "next"

\* self.cmd.append("-i"), before the inventory is uploaded
Flagged == IF next = Len(args) - 1 THEN Append(cmd, InventoryFlag) ELSE cmd

\* Mutant: a file that the command names already is not uploaded again.
UploadNew ==
    /\ Turn("next") /\ next <= Len(args)
    /\ \/ /\ args[next].op = "none" \/ \E i \in 1 .. Len(cmd) : cmd[i] = args[next].word
          /\ Names(args[next].word)
          /\ UNCHANGED vars
       \/ /\ args[next].op # "none" /\ \A i \in 1 .. Len(cmd) : cmd[i] # args[next].word
          /\ stage' = "upload"
          /\ Begin(Runner, Uploads(args[next]))
          /\ cmd' = Flagged
          /\ UNCHANGED <<next, calls>>
    /\ UNCHANGED <<args, failing, phase, reply, outcome, runs, left, same, named, dangling>>

\* _dump_vars_to_json_file, _upload_file, _generate_default_inventory
Upload ==
    /\ Turn("next") /\ next <= Len(args)
    /\ \/ /\ args[next].op = "none"
          /\ Names(args[next].word)
          /\ UNCHANGED vars
       \/ /\ args[next].op # "none"
          /\ stage' = "upload"
          /\ Begin(Runner, Uploads(args[next]))
          /\ cmd' = Flagged
          /\ UNCHANGED <<next, calls>>
    /\ UNCHANGED <<args, failing, phase, reply, outcome, runs, left, same, named, dangling>>

\* Leaving the with block: rmdir in the finally clause.
Finally(fails) ==
    /\ stage' = "remove" /\ failing' = fails
    /\ Begin(Runner, OnDir("rmdir"))
    /\ UNCHANGED calls

\* Mutant: an upload that failed is only logged.
UploadedAnyhow ==
    /\ Turn("upload")
    /\ Names(args[next].word)
    /\ UNCHANGED <<vars, failing, args, phase, reply, outcome, runs, left, same, named, dangling>>

\* Mutant: no finally clause.
UploadedEscapes ==
    /\ Turn("upload")
    /\ \/ /\ answer[Runner] = "ok"
          /\ Names(args[next].word)
          /\ UNCHANGED <<vars, failing, args, phase, reply, outcome, runs, same, named, dangling>>
       \/ answer[Runner] # "ok" /\ Leave("raised")
    /\ UNCHANGED left

Uploaded ==
    /\ Turn("upload")
    /\ \/ /\ answer[Runner] = "ok"
          /\ Names(args[next].word)
          /\ UNCHANGED <<vars, failing, dangling>>
       \/ /\ answer[Runner] # "ok"
          /\ Finally(TRUE)
          /\ dangling' = (dangling \/ next = Len(args) - 1)
          /\ UNCHANGED <<next, cmd>>
    /\ UNCHANGED <<args, phase, reply, outcome, runs, left, same, named>>

\* CommandReader(self.host.executor(), self.cmd)
Execute ==
    /\ Turn("next") /\ next > Len(args)
    /\ stage' = "ansible"
    /\ UNCHANGED <<vars, args, next, cmd, failing, phase, reply, outcome, runs, left, same, named,
                   dangling>>

\* ansible-playbook and the reading of its output.
Plays ==
    /\ Turn("ansible")
    /\ \/ reply = "none" /\ (Ansible!Start \/ Ansible!Exit)
       \/ \E a \in {"complete", "truncated", "raised"} : Ansible!Answer(a)
    /\ UNCHANGED <<vars, stage, args, next, cmd, failing, outcome, runs, left, same, named, dangling>>

Played ==
    /\ Turn("ansible") /\ reply # "none"
    /\ Finally(reply = "raised")
    /\ UNCHANGED <<args, next, cmd, phase, reply, outcome, runs, left, same, named, dangling>>

\* The result of rmdir is not looked at; its exception replaces any other.
Removed ==
    /\ Turn("remove")
    /\ left' = (answer[Runner] # "ok")
    /\ Leave(IF failing \/ answer[Runner] = "raised" THEN "raised" ELSE "returned")

PlaybookWorks ==
    \/ Cleared \/ Made \/ Upload \/ Uploaded
    \/ Execute \/ Plays \/ Played \/ Removed

----------------------------------------------------------------------------
(* Properties.                                                             *)

\* The argument that was uploaded last under the same name.
Latest(i) == CHOOSE j \in i .. Len(args) :
                /\ args[j].word = args[i].word
                /\ \A k \in j + 1 .. Len(args) : args[k].word # args[i].word

(* While ansible-playbook runs and the connection holds, every file uploaded
   for it is in the directory with all of its content; of two arguments with
   one base name, both words lead to the later one (playbook_runner.py:81-105,
   156-205). *)
ArgumentsDelivered ==
    phase = "running" /\ reply = "none" =>
        \A i \in 1 .. Len(args) :
            args[i].op # "none" =>
                LET last == args[Latest(i)]
                IN  /\ link[last.word] \in Inodes
                    /\ data[link[last.word]] =
                          IF last.op = "put" THEN data[link[last.src]] ELSE Whole(Latin1[last.text])

(* The directory of a run outlives it only if mkdir or the last rmdir failed
   or lost its answer (playbook_runner.py:71-79). *)
ExecDirRemoved == stage = "none" /\ link[ExecDir] # None => left

\* How often the command names the playbook.
Playbooks == {i \in 1 .. Len(cmd) : cmd[i] = args[Len(args)].word}

\* Every "-i" is followed by the inventory.
InventoryNamed ==
    \A i \in 1 .. Len(cmd) : cmd[i] = InventoryFlag =>
        i < Len(cmd) /\ cmd[i + 1] = args[Len(args) - 1].word

(* self.cmd is never reset, so the words of a run that failed stay in it.  A run
   that is repeated with the same arguments names only files that are there, and
   if the runs before it failed while they uploaded, its playbook once.  Its
   "-i" are followed by the inventory as long as no run failed in the upload of
   its inventory, which leaves a "-i" behind that ansible-playbook takes for
   malformed in every later run (playbook_runner.py:59, 156-194). *)
RetrySafe ==
    stage = "ansible" /\ reply = "none" /\ same =>
        /\ \A i \in 1 .. Len(cmd) :
              cmd[i] # InventoryFlag /\ Parent[cmd[i]] = ExecDir => link[cmd[i]] # None
        /\ ~ named /\ (\A i \in 1 .. Len(args) - 1 : args[i].word # args[Len(args)].word) =>
              Playbooks = {Len(cmd)}
        /\ ~ dangling => InventoryNamed

=============================================================================
