----------------------------- MODULE MCHostWork -----------------------------
(* Instances of HostWork for TLC: two threads with a directory, a file, a key
   pair and a local file between them, and a playbook runner; the file is also
   the release file of the system.  The plans keep
   the kinds of work apart where they have no file in common. *)
EXTENDS HostWork

CONSTANTS t1, t2, d, db, f, l, prv, pub, e, extra, inv, play, lplay, a, b, k1, k2, k3, wide, v1, v2

InDir == [p \in Paths |-> CASE p = db -> d [] p \in {extra, inv, play} -> e [] OTHER -> Root]
Names4 == [p \in Paths |-> IF p \in {db, f, l} THEN "name" ELSE p]
Ascii == [x \in Texts |-> IF x = wide THEN None ELSE x]
Encodes == [x \in Texts |-> b]
AtFirst == [p \in Paths |-> CASE p = d -> Dir [] p = f -> 1 [] p = l -> 2 [] p = lplay -> 3
                              [] OTHER -> None]
Contains == [i \in Inodes |-> IF i \in 1 .. 3 THEN a ELSE None]

Req(op, src, text, to, as) == [op |-> op, src |-> src, text |-> text, dst |-> to, attrs |-> as]

FileRequests ==
    {Req(op, None, x, f, {}) : op \in Creates, x \in {b, wide}}
    \cup {Req(op, None, None, f, {}) : op \in {"remove", "flush_file", "touch"}}
    \cup {Req(op, None, None, d, {}) : op \in {"rmdir", "mkdir"}}
    \cup {Req(op, f, None, d, {}) : op \in {"transfer", "move"}}
    \cup {Req("put", l, None, d, {}), Req("get", f, None, l, {}), Req("transfer", f, None, f, {}),
          Req("copy_to", db, None, f, {"x", "owner"}), Req("remove", None, None, pub, {})}

Arg(w, op, src, text) == [word |-> w, op |-> op, src |-> src, text |-> text]
DefaultInventory == Arg(inv, "create_file", None, a)

\* Extra variables; a local file called "inventory"; a playbook of the host.
ArgLists ==
    {<<Arg(extra, "create_file", None, b), DefaultInventory, Arg(play, "put", lplay, None)>>,
     <<Arg(inv, "put", lplay, None), Arg(inv, "create_file", None, b), Arg(play, "put", lplay, None)>>,
     <<DefaultInventory, Arg(f, "none", None, None)>>}

Both(n1, n2) == [t \in Threads |-> IF t = t1 THEN n1 ELSE n2]
Idle == [files |-> Both(0, 0), keys |-> Both(0, 0), runs |-> 0, infos |-> Both(0, 0), upgrades |-> 0]

WorkPlans ==
    {[Idle EXCEPT !.files = Both(2, 1)],
     [Idle EXCEPT !.files = Both(1, 0), !.keys = Both(2, 1)],
     [Idle EXCEPT !.runs = 2],
     [Idle EXCEPT !.files = Both(0, 1), !.runs = 1],
     [Idle EXCEPT !.infos = Both(1, 1), !.upgrades = 2],
     [Idle EXCEPT !.infos = Both(2, 0), !.files = Both(0, 1)]}

=============================================================================
