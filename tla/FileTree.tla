------------------------------ MODULE FileTree -------------------------------
(***************************************************************************)
(* The directory tree of the RAM file system (kernel/src/fs/filesystem.rs, *)
(* RawRamDirectory in kernel/src/fs/ramfs.rs) under concurrent calls.      *)
(* Every directory has a lock of its own, which a call takes anew for each *)
(* lookup and for each change: the steps of a path walk, the lookup of the *)
(* last name and the change interleave with those of other threads.        *)
(***************************************************************************)
EXTENDS Naturals, Sequences, FiniteSets, FiniteSetsExt, Functions

CONSTANTS
    Threads,
    Nodes,          \* files and directories that can exist at once
    Root,           \* FS_ROOT's directory, one of Nodes
    Calls           \* the calls the threads make: [op, path]

VARIABLES
    node,           \* of each node: kind, entries, remove_in_progress
    thread          \* of each thread: the call, the directory reached, what is left of the path

treeVars == <<node, thread>>

Idle == [pc |-> "idle", op |-> "none", path |-> <<>>, dir |-> Root, rest |-> <<>>, target |-> Root]
Unused == [kind |-> "none", entries |-> <<>>, remove_in_progress |-> FALSE]
\* entries is a function of the names present; <<>> is the empty one

TreeInit ==
    /\ node = [n \in Nodes |-> IF n = Root THEN [Unused EXCEPT !.kind = "dir"] ELSE Unused]
    /\ thread = [t \in Threads |-> Idle]

\* A node lives as long as an entry, a thread's walk or its target refers to it
\* (Arc<dyn Directory>).
Entered == {Root} \cup UNION {Range(node[n].entries) : n \in Nodes}
Swept(nodes, threads) ==
    LET linked == {Root} \cup UNION {Range(nodes[n].entries) : n \in Nodes}
        held == UNION {{threads[t].dir, threads[t].target} : t \in Threads}
    IN  [n \in Nodes |-> IF n \in linked \cup held THEN nodes[n] ELSE Unused]

-----------------------------------------------------------------------------
(* RawRamDirectory: one operation under the directory's lock               *)

has_entry(d, name) == name \in DOMAIN node[d].entries
check_remove(d) == ~node[d].remove_in_progress
lookup_entry(d, name) == node[d].entries[name]
IsDir(d, name) == has_entry(d, name) /\ node[lookup_entry(d, name)].kind = "dir"
IsFile(d, name) == has_entry(d, name) /\ node[lookup_entry(d, name)].kind = "file"

WithEntry(d, name, n, kind) ==
    [node EXCEPT ![d].entries = [x \in DOMAIN @ \cup {name} |-> IF x = name THEN n ELSE @[x]],
                 ![n] = [Unused EXCEPT !.kind = kind]]
WithoutEntry(d, name) == [node EXCEPT ![d].entries = Restrict(@, DOMAIN @ \ {name})]

CreatePossible(d, name) == check_remove(d) /\ ~has_entry(d, name)
PrepareRemovePossible(d) == check_remove(d) /\ DOMAIN node[d].entries = {}

-----------------------------------------------------------------------------
(* The calls                                                               *)

\* The thread's next state and the tree's, nodes no longer referred to dropped
Step(t, nodes, next) ==
    LET threads == [thread EXCEPT ![t] = next]
    IN  thread' = threads /\ node' = Swept(nodes, threads)

Return(t, nodes) == Step(t, nodes, Idle)
Fresh == CHOOSE n \in Nodes : node[n].kind = "none"
Room == \E n \in Nodes : node[n].kind = "none"

Call(t) ==
    \E c \in Calls :
      /\ thread[t].pc = "idle"
      /\ Step(t, node, [Idle EXCEPT !.pc = "walk", !.op = c.op, !.path = c.path, !.rest = c.path])

\* walk_path: one lookup; a missing name or a file ends the call
WalkPath(t) ==
    LET me == thread[t]
        name == Head(me.rest)
    IN  /\ me.pc = "walk" /\ Len(me.rest) > 1 /\ me.op # "create_all"
        /\ IF IsDir(me.dir, name)
             THEN Step(t, node, [me EXCEPT !.dir = lookup_entry(me.dir, name), !.rest = Tail(@)])
             ELSE Return(t, node)

\* walk_path_create: the lookup, and the creation of what it did not find, which
\* takes the directory's lock again
WalkPathCreate(t) ==
    LET me == thread[t]
        name == Head(me.rest)
    IN  /\ me.pc = "walk" /\ Len(me.rest) > 1 /\ me.op = "create_all"
        /\ IF IsDir(me.dir, name)
             THEN Step(t, node, [me EXCEPT !.dir = lookup_entry(me.dir, name), !.rest = Tail(@)])
           ELSE IF IsFile(me.dir, name) THEN Return(t, node)
           ELSE Step(t, node, [me EXCEPT !.pc = "create"])

WalkCreateDirectory(t) ==
    LET me == thread[t]
        name == Head(me.rest)
    IN  /\ me.pc = "create" /\ Room
        /\ IF CreatePossible(me.dir, name)
             THEN Step(t, WithEntry(me.dir, name, Fresh, "dir"),
                       [me EXCEPT !.pc = "walk", !.dir = Fresh, !.rest = Tail(@)])
             ELSE Return(t, node)

AtLast(t, ops) == thread[t].pc = "walk" /\ Len(thread[t].rest) = 1 /\ thread[t].op \in ops

\* open_root, and sys_open's second attempt with create_root
Open(t) ==
    LET me == thread[t]
        name == Head(me.rest)
    IN  /\ AtLast(t, {"open"})
        /\ IF IsFile(me.dir, name) THEN Return(t, node)
           ELSE Step(t, node, [Idle EXCEPT !.pc = "walk", !.op = "create", !.path = me.path,
                                           !.rest = me.path])

\* create_root, create_all and mkdir_root
Create(t) ==
    LET me == thread[t]
        name == Head(me.rest)
    IN  /\ AtLast(t, {"create", "create_all", "mkdir"}) /\ Room
        /\ Return(t, IF CreatePossible(me.dir, name)
                       THEN WithEntry(me.dir, name, Fresh, IF me.op = "mkdir" THEN "dir" ELSE "file")
                       ELSE node)

\* unlink_root: the lookup that decides, and after it the unlink by name
UnlinkLookup(t) ==
    LET me == thread[t]
    IN  /\ AtLast(t, {"unlink"})
        /\ IF IsFile(me.dir, Head(me.rest)) THEN Step(t, node, [me EXCEPT !.pc = "unlink"])
           ELSE Return(t, node)

\* rmdir_root: the lookup, prepare_remove on what it found, then the same unlink
RmdirLookup(t) ==
    LET me == thread[t]
    IN  /\ AtLast(t, {"rmdir"})
        /\ IF IsDir(me.dir, Head(me.rest))
             THEN Step(t, node, [me EXCEPT !.pc = "prepare",
                                           !.target = lookup_entry(me.dir, Head(me.rest))])
             ELSE Return(t, node)

PrepareRemove(t) ==
    LET me == thread[t]
    IN  /\ me.pc = "prepare"
        /\ IF PrepareRemovePossible(me.target)
             THEN Step(t, [node EXCEPT ![me.target].remove_in_progress = TRUE],
                       [me EXCEPT !.pc = "unlink"])
             ELSE Return(t, node)

Unlink(t) ==
    LET me == thread[t]
    IN  /\ me.pc = "unlink"
        /\ Return(t, WithoutEntry(me.dir, Head(me.rest)))

TreeNext == \E t \in Threads :
    \/ Call(t) \/ WalkPath(t) \/ WalkPathCreate(t) \/ WalkCreateDirectory(t) \/ Open(t) \/ Create(t)
    \/ UnlinkLookup(t) \/ RmdirLookup(t) \/ PrepareRemove(t) \/ Unlink(t)

TreeSpec == TreeInit /\ [][TreeNext]_treeVars

-----------------------------------------------------------------------------
=============================================================================
