----------------------------- MODULE ServerProofs -----------------------------
(*****************************************************************************)
(* Theorems about the two servers on the process's sockets: the remote calls  *)
(* (OpRpc) and the command line (OpCli), for any number of callers, sessions  *)
(* and descriptors and any pattern of failures.                               *)
(*****************************************************************************)
EXTENDS OpRpc, OpCli, WellFoundedInduction, TLAPS

\* The command line.

CliType ==
    /\ stage \in {"thread", "list", "base", "run"}
    /\ peer \in [Client -> {"none", "open", "shut"}]
    /\ state \in [Client -> {"none", "gone", "new", "listed", "added", "freed"}]
    /\ fd \in [Client -> Nat]
    /\ node \in [Client -> {"view", "enable", "module"}]
    /\ on_base \in [Client -> BOOLEAN]
    /\ list \subseteq Client /\ used \subseteq Fd
    /\ events \in [Fd -> Int] /\ watched \subseteq Fd
    /\ acc \in [pc : {"idle", "list", "add", "prompt"}, c : Client \cup {Nobody}]
    /\ job \in [pc : {"idle", "close", "del", "free"}, c : Client \cup {Nobody}]
    /\ undefined \in {"none", "null", "freed"}
    /\ reused \subseteq Client

\* Where the two threads are says what became of the session they are at.
Threads ==
    /\ acc.pc = "idle" \/ acc.c \in Client
    /\ acc.pc = "list" => state[acc.c] = "new"
    /\ acc.pc = "add" => state[acc.c] = "listed"
    /\ acc.pc = "prompt" => state[acc.c] \in {"added", "freed"}
    /\ job.pc # "idle" => job.c \in Client /\ state[job.c] = "added"

\* The descriptor of the session has been closed, its event is not free yet.
Closed(c) == job.c = c /\ job.pc \in {"del", "free"}

\* The session has its descriptor to itself.
Owns(c) == state[c] \in {"new", "listed", "added"} /\ ~ Closed(c)

Descriptors ==
    /\ \A c \in Client : state[c] \in {"new", "listed", "added"} => fd[c] \in Fd
    /\ \A c \in Client : Owns(c) => fd[c] \in used
    /\ \A c, d \in Client : Owns(c) /\ Owns(d) /\ fd[c] = fd[d] => c = d

\* libevent counts an event of the owner, and one that a closed session has left.
LeftOver(f) == IF job.pc \in {"del", "free"} /\ fd[job.c] = f THEN 1 ELSE 0

OfOwner(f) == IF \E c \in Client : state[c] = "added" /\ ~ Closed(c) /\ fd[c] = f THEN 1 ELSE 0

Counted == \A f \in Fd : events[f] = LeftOver(f) + OfOwner(f)

\* A session is at its end only when the other end hung up or left the last node.
Ended ==
    \A c \in Client :
       state[c] = "freed" \/ (job.pc # "idle" /\ job.c = c) => peer[c] = "shut" \/ node[c] = "view"

CliInv ==
    /\ CliType /\ Threads /\ Descriptors /\ Counted /\ Ended
    /\ WatchedUnlessReused /\ FreedUseNeedsEnd
------------------------------------------------------------------------------
\* accept finds a descriptor that is not open.
LEMMA LowestIsFree ==
    ASSUME CliType, used # Fd
    PROVE  Min(Fd \ used) \in Fd \ used
<1> DEFINE T == Fd \ used
<1>1. T # {} /\ T \subseteq Nat
  BY OpCliConstants, Zenon DEF CliType
<1>2. PICK f \in T : \A g \in T : ~ (<<g, f>> \in OpToRel(<, Nat))
  BY <1>1, NatLessThanWellFounded, WFMin, Zenon
<1>3. \A g \in T : f <= g
  <2>1. SUFFICES ASSUME NEW g \in T, ~ (f <= g) PROVE FALSE
    OBVIOUS
  <2>2. f \in Nat /\ g \in Nat
    BY <1>1
  <2>3. <<g, f>> \in OpToRel(<, Nat)
    BY <2>1, <2>2 DEF OpToRel
  <2>4. QED
    BY <1>2, <2>3
<1>4. QED
  BY <1>3, Zenon DEF Min

LEMMA CliInitInv == CliInit => CliInv
<1> SUFFICES ASSUME CliInit PROVE CliInv
  OBVIOUS
<1> USE DEF CliInit, Idle
<1>1. CliType
  BY OpCliConstants DEF CliType
<1>2. Threads /\ Descriptors /\ Ended
  BY DEF Threads, Descriptors, Owns, Ended
<1>3. Counted
  BY DEF Counted, LeftOver, OfOwner
<1>4. WatchedUnlessReused /\ FreedUseNeedsEnd
  BY DEF WatchedUnlessReused, FreedUseNeedsEnd
<1>5. QED
  BY <1>1, <1>2, <1>3, <1>4 DEF CliInv

\* A step that leaves the sessions, their descriptors and the job thread alone.
LEMMA ElsewhereKept ==
    ASSUME CliInv, CliType', UNCHANGED <<state, fd, net_vars, job>>,
           \A c \in Client : peer[c] = "shut" => peer'[c] = "shut",
           node' = node, acc' = acc, undefined = "none", undefined' = "none"
    PROVE  CliInv'
<1> USE DEF CliInv, net_vars
<1>1. Threads' /\ Descriptors'
  BY DEF Threads, Descriptors, Owns, Closed
<1>2. Counted'
  BY DEF Counted, LeftOver, OfOwner, Closed
<1>3. Ended'
  BY DEF Ended
<1>4. WatchedUnlessReused'
  BY DEF WatchedUnlessReused
<1>5. FreedUseNeedsEnd'
  BY DEF FreedUseNeedsEnd
<1>6. QED
  BY <1>1, <1>2, <1>3, <1>4, <1>5

LEMMA AcceptKept ==
    ASSUME CliInv, undefined = "none", NEW c \in Client, Accept(c)
    PROVE  CliInv'
<1> USE DEF CliInv
<1>0. undefined' = "none" /\ UNCHANGED <<peer, node, events, watched, job, reused>>
  BY DEF Accept
<1>1. CASE state' = [state EXCEPT ![c] = "gone"] /\ UNCHANGED <<fd, on_base, used, acc>>
  <2>1. state[c] = "none" /\ acc = Idle /\ CliType'
    BY <1>1 DEF Accept, CliType
  <2>2. Threads' /\ Descriptors'
    BY <1>0, <1>1, <2>1 DEF Threads, Descriptors, Owns, Closed, CliType
  <2>3. Counted'
    BY <1>0, <1>1, <2>1 DEF Counted, LeftOver, OfOwner, Closed, CliType
  <2>4. Ended' /\ WatchedUnlessReused' /\ FreedUseNeedsEnd'
    BY <1>0, <1>1, <2>1 DEF Ended, WatchedUnlessReused, FreedUseNeedsEnd, CliType
  <2>5. QED
    BY <2>1, <2>2, <2>3, <2>4
<1>2. CASE /\ state' = [state EXCEPT ![c] = "new"]
           /\ fd' = [fd EXCEPT ![c] = Min(Fd \ used)]
           /\ used' = used \union {fd'[c]}
           /\ on_base' = [on_base EXCEPT ![c] = HasBase]
           /\ acc' = At("list", c)
  <2>0. Min(Fd \ used) \in Fd \ used
    BY LowestIsFree DEF Accept
  <2>1. state[c] = "none" /\ acc = Idle
    BY DEF Accept
  <2>2. CliType'
    <3>0. HasBase \in BOOLEAN
      <4>1. CASE stage \in {"base", "run"}
        BY <4>1, Zenon DEF HasBase
      <4>2. CASE stage \notin {"base", "run"}
        <5>1. HasBase = FALSE
          BY <4>2 DEF HasBase
        <5>2. QED
          BY <5>1, Zenon
      <4>3. QED
        BY <4>1, <4>2, Zenon
    <3>1. Min(Fd \ used) \in Nat
      BY <2>0, OpCliConstants, Zenon
    <3>2. state' \in [Client -> {"none", "gone", "new", "listed", "added", "freed"}]
          /\ fd' \in [Client -> Nat] /\ fd'[c] = Min(Fd \ used)
      BY <1>2, <3>1 DEF CliType
    <3>3. on_base' \in [Client -> BOOLEAN]
      BY <1>2, <3>0, Zenon DEF CliType
    <3>4. used' \subseteq Fd
      BY <1>2, <2>0, <3>2 DEF CliType
    <3>5. QED
      BY <1>2, <3>2, <3>3, <3>4, Zenon DEF Accept, CliType, At
  <2>3. ~ (job.pc # "idle" /\ job.c = c)
    BY <2>1 DEF Threads
  <2>4. Threads'
    BY <1>0, <1>2, <2>1, <2>3 DEF Threads, At, CliType
  <2>5. Descriptors'
    <3>1. /\ fd'[c] \in Fd /\ fd'[c] \notin used /\ used' = used \cup {fd'[c]}
          /\ \A d \in Client \ {c} : fd'[d] = fd[d] /\ state'[d] = state[d]
      BY <1>2, <2>0 DEF CliType
    <3>2. \A d \in Client \ {c} : Owns(d)' <=> Owns(d)
      BY <1>0, <3>1 DEF Owns, Closed
    <3>3. \A d \in Client \ {c} : Owns(d) => fd[d] \in used
      BY DEF Descriptors
    <3>4. QED
      BY <3>1, <3>2, <3>3 DEF Descriptors
  <2>6. Counted'
    <3>1. \A f \in Fd : LeftOver(f)' = LeftOver(f)
      BY <1>0, <1>2, <2>1, <2>3 DEF LeftOver, Threads, CliType
    <3>2. \A f \in Fd : OfOwner(f)' = OfOwner(f)
      BY <1>0, <1>2, <2>1 DEF OfOwner, Closed, CliType
    <3>3. QED
      BY <1>0, <3>1, <3>2 DEF Counted
  <2>7. Ended' /\ WatchedUnlessReused' /\ FreedUseNeedsEnd'
    BY <1>0, <1>2, <2>1, <2>3 DEF Ended, WatchedUnlessReused, FreedUseNeedsEnd, CliType
  <2>8. QED
    BY <2>2, <2>4, <2>5, <2>6, <2>7
<1>3. QED
  BY <1>1, <1>2 DEF Accept

LEMMA ListAddKept ==
    ASSUME CliInv, undefined = "none", NEW c \in Client, ListAdd(c)
    PROVE  CliInv'
<1> USE DEF CliInv
<1>0. UNCHANGED <<peer, fd, node, net_vars, job>> /\ acc.pc = "list" /\ acc.c = c
  BY DEF ListAdd, At
<1>1. CliType'
  BY DEF ListAdd, At, CliType, net_vars
<1>2. CASE stage = "thread"
  BY <1>0, <1>1, <1>2 DEF ListAdd, net_vars, Threads, Descriptors, Owns, Closed, Counted, LeftOver,
                          OfOwner, Ended, WatchedUnlessReused, FreedUseNeedsEnd
<1>3. CASE stage # "thread"
  <2>1. state' = [state EXCEPT ![c] = "listed"] /\ acc' = At("add", c) /\ undefined' = "none"
    BY <1>3 DEF ListAdd
  <2>2. state[c] = "new"
    BY <1>0, Zenon DEF Threads
  <2>3. Threads' /\ Descriptors'
    BY <1>0, <2>1, <2>2 DEF Threads, At, Descriptors, Owns, Closed, CliType, net_vars
  <2>4. Counted'
    BY <1>0, <2>1, <2>2 DEF Counted, LeftOver, OfOwner, Closed, CliType, net_vars
  <2>5. Ended' /\ WatchedUnlessReused' /\ FreedUseNeedsEnd'
    BY <1>0, <2>1, <2>2, ZenonT(60) DEF Ended, WatchedUnlessReused, FreedUseNeedsEnd, CliType, net_vars
  <2>6. QED
    BY <1>1, <2>3, <2>4, <2>5
<1>4. QED
  BY <1>2, <1>3

LEMMA EventAddKept ==
    ASSUME CliInv, undefined = "none", NEW c \in Client, EventAdd(c)
    PROVE  CliInv'
<1> USE DEF CliInv
<1>0. UNCHANGED <<stage, peer, fd, node, on_base, job>> /\ undefined' = "none"
  BY DEF EventAdd
<1>1. acc.pc = "add" /\ acc.c = c /\ state[c] = "listed" /\ fd[c] \in Fd
  BY DEF EventAdd, At, Threads, Descriptors
<1>2. ~ (job.pc # "idle" /\ job.c = c)
  BY <1>1 DEF Threads
<1>3. CASE /\ event_add(c) /\ state' = [state EXCEPT ![c] = "added"]
           /\ acc' = At("prompt", c) /\ UNCHANGED <<list, used>>
  <2>1. CliType'
    BY <1>0, <1>1, <1>3 DEF CliType, At, event_add
  <2>2. Threads' /\ Descriptors'
    BY <1>0, <1>1, <1>2, <1>3 DEF Threads, At, Descriptors, Owns, Closed, CliType
  <2>3. Counted'
    <3>1. \A f \in Fd : LeftOver(f)' = LeftOver(f)
      BY <1>0, Zenon DEF LeftOver
    <3>2. \A f \in Fd \ {fd[c]} : OfOwner(f)' = OfOwner(f) /\ events'[f] = events[f]
      BY <1>0, <1>1, <1>3, ZenonT(60) DEF OfOwner, Closed, CliType, event_add
    <3>3. OfOwner(fd[c]) = 0
      BY <1>1, <1>2, Zenon DEF OfOwner, Descriptors, Owns, Closed
    <3>4. OfOwner(fd[c])' = 1 /\ events'[fd[c]] = events[fd[c]] + 1
      BY <1>0, <1>1, <1>2, <1>3, Zenon DEF OfOwner, Closed, CliType, event_add
    <3>5. QED
      BY <1>0, <1>1, <3>1, <3>2, <3>3, <3>4 DEF Counted, LeftOver
  <2>4. WatchedUnlessReused'
    BY <1>0, <1>1, <1>3 DEF WatchedUnlessReused, event_add, CliType
  <2>5. Ended' /\ FreedUseNeedsEnd'
    BY <1>0, <1>1, <1>3, Zenon DEF Ended, FreedUseNeedsEnd, CliType
  <2>6. QED
    BY <2>1, <2>2, <2>3, <2>4, <2>5, Zenon
<1>4. CASE /\ used' = used \ {fd[c]} /\ list' = list \ {c}
           /\ state' = [state EXCEPT ![c] = "gone"] /\ acc' = Idle
           /\ UNCHANGED <<events, watched, reused>>
  <2>1. CliType'
    BY <1>0, <1>1, <1>4, Zenon DEF CliType, Idle
  <2>2. Threads'
    BY <1>0, <1>1, <1>2, <1>4, Zenon DEF Threads, Idle, CliType
  <2>3. Descriptors'
    BY <1>0, <1>1, <1>2, <1>4 DEF Descriptors, Owns, Closed, CliType
  <2>4. Counted'
    <3>1. \A f \in Fd : LeftOver(f)' = LeftOver(f)
      BY <1>0, Zenon DEF LeftOver
    <3>2. \A f \in Fd : OfOwner(f)' = OfOwner(f)
      BY <1>0, <1>1, <1>4, Zenon DEF OfOwner, Closed, CliType
    <3>3. QED
      BY <1>0, <1>4, <3>1, <3>2, Zenon DEF Counted
  <2>5. Ended' /\ WatchedUnlessReused' /\ FreedUseNeedsEnd'
    BY <1>0, <1>1, <1>4 DEF Ended, WatchedUnlessReused, FreedUseNeedsEnd, CliType
  <2>6. QED
    BY <2>1, <2>2, <2>3, <2>4, <2>5
<1>5. QED
  BY <1>3, <1>4, Zenon DEF EventAdd

LEMMA PromptKept ==
    ASSUME CliInv, undefined = "none", NEW c \in Client, Prompt(c)
    PROVE  CliInv'
<1> USE DEF CliInv
<1>0. UNCHANGED <<peer, state, fd, node, net_vars, job>> /\ acc.pc = "prompt" /\ acc.c = c
  BY Zenon DEF Prompt, At, cl_vars
<1>1. CliType'
  BY Zenon DEF Prompt, CliType, Idle, cl_vars, net_vars
<1>2. Threads' /\ Descriptors'
  BY <1>0 DEF Prompt, Threads, Idle, Descriptors, Owns, Closed, net_vars
<1>3. Counted' /\ Ended' /\ WatchedUnlessReused'
  BY <1>0 DEF Counted, LeftOver, OfOwner, Closed, Ended, WatchedUnlessReused, net_vars
<1>4. FreedUseNeedsEnd'
  <2>1. SUFFICES ASSUME undefined' = "freed" PROVE peer[c] = "shut" \/ node[c] = "view"
    BY <1>0, Zenon DEF FreedUseNeedsEnd, Prompt
  <2>2. state[c] = "freed"
    BY <2>1 DEF Prompt
  <2>3. QED
    BY <2>2 DEF Ended
<1>5. QED
  BY <1>1, <1>2, <1>3, <1>4

LEMMA CommandKept ==
    ASSUME CliInv, undefined = "none", NEW c \in Client,
           NEW cmd \in {"exit", "end", "list", "enable", "module"}, Command(c, cmd)
    PROVE  CliInv'
<1> USE DEF CliInv
<1>0. UNCHANGED <<stage, peer, state, fd, on_base, list, net_vars, acc>> /\ undefined' = "none"
  BY DEF Command
<1>1. state[c] = "added" /\ job = Idle
  BY DEF Command, Readable
<1>2. NodeAfter(node[c], cmd) \in {"view", "enable", "module"}
  BY Zenon DEF NodeAfter, CliType
<1>3. CliType'
  BY <1>0, <1>2 DEF Command, CliType, At, Idle, net_vars
<1>4. job'.pc \in {"idle", "close"} /\ (job'.pc # "idle" => job'.c = c)
  BY ZenonT(60) DEF Command, At, Idle
<1>5. Threads' /\ Descriptors'
  BY <1>0, <1>1, <1>4 DEF Threads, Descriptors, Owns, Closed, Idle, net_vars
<1>6. Counted'
  BY <1>0, <1>1, <1>4, ZenonT(60) DEF Counted, LeftOver, OfOwner, Closed, Idle, net_vars
<1>7. WatchedUnlessReused' /\ FreedUseNeedsEnd'
  BY <1>0, <1>1, <1>4 DEF WatchedUnlessReused, FreedUseNeedsEnd, Idle, net_vars
<1>8. Ended'
  <2>1. \A d \in Client \ {c} : node'[d] = node[d]
    BY DEF Command, CliType
  <2>2. job'.pc # "idle" => node'[c] = "view"
    BY DEF Command, Closes, NodeAfter, Idle, CliType
  <2>3. QED
    BY <1>0, <1>1, <1>4, <2>1, <2>2, Zenon DEF Ended
<1>9. QED
  BY <1>3, <1>5, <1>6, <1>7, <1>8

LEMMA EndOfFileKept ==
    ASSUME CliInv, undefined = "none", NEW c \in Client, EndOfFile(c)
    PROVE  CliInv'
<1> USE DEF CliInv
<1>0. UNCHANGED <<stage, peer, cl_vars, net_vars, acc>> /\ undefined' = "none"
  BY DEF EndOfFile
<1>1. state[c] = "added" /\ job = Idle /\ peer[c] = "shut" /\ job' = At("close", c)
  BY Zenon DEF EndOfFile, Readable
<1>2. CliType'
  BY <1>0, <1>1, Zenon DEF CliType, At, cl_vars, net_vars
<1>3. Threads' /\ Descriptors'
  BY <1>0, <1>1, Zenon DEF Threads, Descriptors, Owns, Closed, Idle, At, cl_vars, net_vars
<1>4. Counted'
  BY <1>0, <1>1, Zenon DEF Counted, LeftOver, OfOwner, Closed, Idle, At, cl_vars, net_vars
<1>5. Ended' /\ WatchedUnlessReused' /\ FreedUseNeedsEnd'
  BY <1>0, <1>1 DEF Ended, WatchedUnlessReused, FreedUseNeedsEnd, Idle, At, cl_vars, net_vars
<1>6. QED
  BY <1>2, <1>3, <1>4, <1>5

LEMMA FreeCloseKept ==
    ASSUME CliInv, undefined = "none", NEW c \in Client, FreeClose(c)
    PROVE  CliInv'
<1> USE DEF CliInv
<1>0. UNCHANGED <<stage, peer, cl_vars, events, reused, acc>> /\ undefined' = "none"
  BY Zenon DEF FreeClose
<1>1. /\ job.pc = "close" /\ job.c = c /\ job'.pc = "del" /\ job'.c = c
      /\ state[c] = "added" /\ fd[c] \in Fd
      /\ used' = used \ {fd[c]} /\ watched' = watched \ {fd[c]}
  BY Zenon DEF FreeClose, At, Threads, Descriptors
<1>2. CliType'
  BY <1>0 DEF FreeClose, CliType, At, cl_vars
<1>3. Threads'
  BY <1>0, <1>1, ZenonT(60) DEF Threads, cl_vars
<1>4. Owns(c) /\ \A d \in Client : Owns(d)' => Owns(d) /\ fd[d] # fd[c]
  BY <1>0, <1>1 DEF Owns, Closed, Descriptors, cl_vars
<1>5. Descriptors'
  BY <1>0, <1>1, <1>4, ZenonT(60) DEF Descriptors, cl_vars
<1>6. Counted'
  <2>1. \A f \in Fd \ {fd[c]} : LeftOver(f)' = LeftOver(f) /\ OfOwner(f)' = OfOwner(f)
    BY <1>0, <1>1, Zenon DEF LeftOver, OfOwner, Closed, cl_vars
  <2>2. LeftOver(fd[c]) = 0 /\ OfOwner(fd[c]) = 1 /\ LeftOver(fd[c])' = 1
    BY <1>0, <1>1, Zenon DEF LeftOver, OfOwner, Closed, cl_vars
  <2>3. OfOwner(fd[c])' = 0
    BY <1>0, <1>4, Zenon DEF OfOwner, Owns, cl_vars
  <2>4. QED
    BY <1>0, <1>1, <2>1, <2>2, <2>3 DEF Counted, cl_vars
<1>7. WatchedUnlessReused'
  BY <1>0, <1>1, <1>4, Zenon DEF WatchedUnlessReused, Owns, Closed, cl_vars
<1>8. Ended' /\ FreedUseNeedsEnd'
  BY <1>0, <1>1 DEF Ended, FreedUseNeedsEnd, cl_vars
<1>9. QED
  BY <1>2, <1>3, <1>5, <1>6, <1>7, <1>8

LEMMA FreeDelKept ==
    ASSUME CliInv, undefined = "none", NEW c \in Client, FreeDel(c)
    PROVE  CliInv'
<1> USE DEF CliInv
<1>0. UNCHANGED <<stage, peer, state, fd, node, on_base, net_vars, acc>> /\ undefined' = "none"
  BY DEF FreeDel
<1>1. job.pc = "del" /\ job.c = c /\ job'.pc = "free" /\ job'.c = c /\ state[c] = "added"
  BY Zenon DEF FreeDel, At, Threads
<1>2. CliType'
  BY <1>0, Zenon DEF FreeDel, CliType, At, net_vars
<1>3. Threads'
  BY <1>0, <1>1, Zenon DEF Threads, net_vars
<1>4. \A d \in Client : Closed(d)' = Closed(d) /\ Owns(d)' = Owns(d)
  BY <1>0, <1>1, Zenon DEF Owns, Closed, net_vars
<1>5. Descriptors'
  BY <1>0, <1>4, Zenon DEF Descriptors, net_vars
<1>6. Counted'
  <2>1. \A f \in Fd : LeftOver(f)' = LeftOver(f)
    BY <1>0, <1>1, Zenon DEF LeftOver
  <2>2. \A f \in Fd : OfOwner(f)' = OfOwner(f)
    BY <1>0, <1>4, Zenon DEF OfOwner
  <2>3. QED
    BY <1>0, <2>1, <2>2, Zenon DEF Counted, net_vars
<1>7. Ended' /\ WatchedUnlessReused' /\ FreedUseNeedsEnd'
  BY <1>0, <1>1 DEF Ended, WatchedUnlessReused, FreedUseNeedsEnd, net_vars
<1>8. QED
  BY <1>2, <1>3, <1>5, <1>6, <1>7

LEMMA FreeMemoryKept ==
    ASSUME CliInv, undefined = "none", NEW c \in Client, FreeMemory(c)
    PROVE  CliInv'
<1> USE DEF CliInv
<1>0. UNCHANGED <<stage, peer, fd, node, on_base, list, used, reused, acc>> /\ undefined' = "none"
  BY Zenon DEF FreeMemory
<1>1. /\ job.pc = "free" /\ job.c = c /\ job'.pc = "idle" /\ fd[c] \in Fd
      /\ state[c] = "added" /\ state' = [state EXCEPT ![c] = "freed"]
  BY Zenon DEF FreeMemory, At, Idle, Threads, Descriptors
<1>2. /\ events' = [events EXCEPT ![fd[c]] = @ - 1]
      /\ watched' = IF events[fd[c]] = 1 THEN watched \ {fd[c]} ELSE watched
  BY Zenon DEF FreeMemory
<1>3. CliType'
  BY <1>0, <1>1, <1>2 DEF FreeMemory, CliType, Idle
<1>4. Threads'
  BY <1>0, <1>1, Zenon DEF Threads, CliType
<1>5. Descriptors'
  BY <1>0, <1>1 DEF Descriptors, Owns, Closed, CliType
<1>6. \A d \in Client : state'[d] = "added" /\ ~ Closed(d)' <=> state[d] = "added" /\ ~ Closed(d)
  BY <1>1, Zenon DEF Closed, CliType
<1>7. \A f \in Fd : OfOwner(f)' = OfOwner(f)
  BY <1>0, <1>6, ZenonT(60) DEF OfOwner
<1>8. Counted'
  <2>1. \A f \in Fd \ {fd[c]} : LeftOver(f)' = LeftOver(f) /\ events'[f] = events[f]
    BY <1>0, <1>1, <1>2, Zenon DEF LeftOver, CliType
  <2>2. LeftOver(fd[c]) = 1 /\ LeftOver(fd[c])' = 0 /\ events'[fd[c]] = events[fd[c]] - 1
    BY <1>0, <1>1, <1>2 DEF LeftOver, CliType
  <2>3. QED
    BY <1>0, <1>1, <1>7, <2>1, <2>2 DEF Counted, OfOwner
<1>9. WatchedUnlessReused'
  <2>1. SUFFICES ASSUME NEW d \in Client, state'[d] = "added", ~ Closed(d)'
                 PROVE  fd[d] \in watched' \/ d \in reused
    BY <1>0 DEF WatchedUnlessReused, Closed
  <2>2. state[d] = "added" /\ ~ Closed(d)
    BY <1>6, <2>1
  <2>3. fd[d] \in watched \/ d \in reused
    BY <2>2, Zenon DEF WatchedUnlessReused, Closed
  <2>4. events[fd[c]] = 1 => fd[d] # fd[c]
    <3>1. LeftOver(fd[c]) = 1 /\ (fd[d] = fd[c] => OfOwner(fd[c]) = 1)
      BY <1>1, <2>2, Zenon DEF LeftOver, OfOwner
    <3>2. QED
      BY <1>1, <3>1 DEF Counted
  <2>5. QED
    BY <1>2, <2>3, <2>4, Zenon
<1>10. Ended' /\ FreedUseNeedsEnd'
  BY <1>0, <1>1 DEF Ended, FreedUseNeedsEnd, CliType
<1>11. QED
  BY <1>3, <1>4, <1>5, <1>8, <1>9, <1>10
------------------------------------------------------------------------------
LEMMA CliNextInv == CliInv /\ [CliNext]_cli_vars => CliInv'
<1> SUFFICES ASSUME CliInv, [CliNext]_cli_vars PROVE CliInv'
  BY ZenonT(60)
<1>1. CASE UNCHANGED cli_vars
  BY <1>1 DEF CliInv, cli_vars, CliType, Threads, Descriptors, Owns, Closed, Counted, LeftOver, OfOwner, Ended,
              WatchedUnlessReused, FreedUseNeedsEnd
<1>2. CASE undefined = "none" /\ opcli_init
  <2>1. CliType'
    BY <1>2 DEF opcli_init, CliInv, CliType, cl_vars, net_vars
  <2>2. QED
    BY <1>2, <2>1, ElsewhereKept DEF opcli_init, cl_vars
<1>3. ASSUME undefined = "none", NEW c \in Client, Connect(c) \/ HangUp(c) PROVE CliInv'
  <2>1. CliType'
    BY <1>3, Zenon DEF Connect, HangUp, CliInv, CliType, cl_vars, net_vars
  <2>2. \A d \in Client : peer[d] = "shut" => peer'[d] = "shut"
    BY <1>3 DEF Connect, HangUp, CliInv, CliType
  <2>3. QED
    BY <1>3, <2>1, <2>2, ElsewhereKept, Zenon DEF Connect, HangUp, cl_vars
<1>4. ASSUME undefined = "none", NEW c \in Client, AcceptThread(c) PROVE CliInv'
  BY <1>4, AcceptKept, ListAddKept, EventAddKept, PromptKept DEF AcceptThread
<1>5. ASSUME undefined = "none", NEW c \in Client, JobThread(c) PROVE CliInv'
  BY <1>5, EndOfFileKept, FreeCloseKept, FreeDelKept, FreeMemoryKept, Zenon DEF JobThread, FreeStep
<1>6. ASSUME undefined = "none", NEW c \in Client,
             NEW cmd \in {"exit", "end", "list", "enable", "module"}, Command(c, cmd)
      PROVE  CliInv'
  BY <1>6, CommandKept
<1>7. QED
  BY <1>1, <1>2, <1>3, <1>4, <1>5, <1>6, Zenon DEF CliNext

LEMMA CliInductive == CliSpec => []CliInv
BY CliInitInv, CliNextInv, PTL DEF CliSpec

\* A session that was handed to the job thread and not closed is watched by the kernel,
\* unless its event was added between close and event_free of the session that had the
\* descriptor before (opcli_client_free, opcli_job).
THEOREM HandedOverIsWatched == CliSpec => []WatchedUnlessReused
<1>1. CliInv => WatchedUnlessReused
  BY DEF CliInv
<1>2. QED
  BY <1>1, CliInductive, PTL

\* When opcli_job reads the prompt from a session that was freed, the session had ended:
\* the other end hung up, or left the last node.
THEOREM FreedUseOnlyAfterEnd == CliSpec => []FreedUseNeedsEnd
<1>1. CliInv => FreedUseNeedsEnd
  BY Zenon DEF CliInv
<1>2. QED
  BY <1>1, CliInductive, PTL
-------------------------------------------------------------------------------
\* The remote calls: the inductive invariant says where the server is in the one request
\* of a connection: in its header, in its content, or past it.

Conn == [client : {"none", "live", "leaked", "never", "freed"}, hi : Nat, lo : Nat,
         event_type : {"HEAD", "CONTENT"}, water_level : Nat, reply : Int, null : BOOLEAN,
         chunks : Nat, handled : Nat, refused : BOOLEAN, torn : BOOLEAN]

Request == [type : Type, size : Size, answer : BOOLEAN]

TypeOK ==
    /\ request \in [Caller -> Request]
    /\ call \in [Caller -> {"idle", "waiting", "closed"}]
    /\ result \in [Caller -> Int]
    /\ conn \in [Caller -> Conn]

\* Nothing has been taken out of the input: a header is awaited.
InHead(k) ==
    /\ k.lo = 0 /\ k.event_type = "HEAD" /\ k.hi < TIPC_HEADER_SIZE /\ k.handled = 0

\* The header has been taken out; more of the content is awaited, or the last read of it
\* did not wake tipc_read.
InContent(c, k) ==
    /\ k.lo = TIPC_HEADER_SIZE /\ k.event_type = "CONTENT" /\ k.water_level = request[c].size
    /\ k.handled = 0 /\ k.chunks >= 1
    /\ k.null \/ k.hi - k.lo < k.water_level \/ k.hi - k.lo < TIPC_HEADER_SIZE

\* The input has been flushed, once for the request and again for what comes after it.
\* Nothing more is read as a header.
Past(c, k) ==
    /\ k.lo > 0 /\ k.event_type = "HEAD" /\ k.handled <= 1
    /\ \/ k.handled = 1 \/ k.refused \/ request[c].size > RPC_REQ_SIZE
       \/ k.chunks > 2
       \/ k.chunks = 2 /\ k.hi < Total(c)

Sound(c, k) ==
    /\ k.lo <= k.hi /\ k.hi <= Total(c) /\ ~ k.torn
    /\ k.reply >= 0 => k.handled = 1
    /\ InHead(k) \/ InContent(c, k) \/ Past(c, k)

IInv == TypeOK /\ (\A c \in Caller : Sound(c, conn[c])) /\ SuccessWasServed

------------------------------------------------------------------------------
\* What a header and a request are, from the assumptions on the constants.
LEMMA Numbers ==
    ASSUME TypeOK, NEW c \in Caller
    PROVE  /\ TIPC_HEADER_SIZE \in Nat /\ TIPC_HEADER_SIZE > 0
           /\ request[c].size \in Nat /\ request[c].type \in Nat
           /\ request[c].answer \in BOOLEAN
           /\ Total(c) \in Nat /\ Total(c) >= TIPC_HEADER_SIZE
           /\ Total(c) = TIPC_HEADER_SIZE + request[c].size
           /\ RPC_REQ_SIZE \in Nat /\ RPC_RESPONSE_SIZE \in Nat /\ RPC_MAX_ELEMENT \in Nat
           /\ Return \subseteq Int
<1>1. TIPC_HEADER_SIZE \in Nat /\ TIPC_HEADER_SIZE > 0
  BY RpcConstants
<1>2. request[c] \in Request
  BY DEF TypeOK
<1>3. request[c].size \in Nat /\ request[c].type \in Nat /\ request[c].answer \in BOOLEAN
  BY <1>2, RpcConstants, Zenon DEF Request
<1>4. RPC_REQ_SIZE \in Nat /\ RPC_RESPONSE_SIZE \in Nat /\ RPC_MAX_ELEMENT \in Nat
  BY RpcConstants
<1>5. QED
  BY <1>1, <1>3, <1>4, RpcConstants DEF Total

\* "out" of tipc_read flushes the input and awaits a header.
LEMMA OutFields ==
    ASSUME NEW k \in Conn, TIPC_HEADER_SIZE \in Nat
    PROVE  /\ Out(k) \in Conn
           /\ Out(k).event_type = "HEAD" /\ Out(k).lo = k.hi /\ Out(k).hi = k.hi
           /\ Out(k).client = k.client /\ Out(k).reply = k.reply /\ Out(k).null = k.null
           /\ Out(k).chunks = k.chunks /\ Out(k).handled = k.handled
           /\ Out(k).refused = k.refused /\ Out(k).torn = k.torn
BY Zenon DEF Conn, Out

\* The answer to a callback is a number.
LEMMA ReplyType ==
    ASSUME NEW ret \in Int, RPC_RESPONSE_SIZE \in Nat
    PROVE  Reply(ret) \in Int
BY DEF Reply

\* What a read may do to a connection besides moving on in the request: the client is the
\* same, and a call that was made stays made.
Kept(k, w) == w \in Conn /\ w.client = k.client /\ (k.handled = 1 => w.handled = 1)

\* A call of the callback is recorded.
LEMMA Called ==
    ASSUME NEW k \in Conn, NEW reply \in Int,
           NEW r, r = [k EXCEPT !.handled = 1, !.torn = FALSE, !.reply = reply]
    PROVE  /\ r \in Conn /\ r.hi = k.hi /\ r.handled = 1
           /\ r.client = k.client /\ ~ r.torn /\ r.chunks = k.chunks
BY Zenon DEF Conn

\* The content is there: the callback is called with it, once.
LEMMA DispatchSound ==
    ASSUME TypeOK, NEW c \in Caller, NEW k \in Conn,
           k.lo = TIPC_HEADER_SIZE, k.water_level = request[c].size, k.event_type = "CONTENT",
           k.handled = 0, k.chunks >= 1, k.hi - k.lo >= k.water_level, k.lo <= k.hi,
           k.hi <= Total(c), ~ k.torn, ~ (k.reply >= 0),
           NEW w \in Dispatch(c, k)
    PROVE  Kept(k, w) /\ Sound(c, w)
<1> USE Numbers
<1>1. CASE ~ tipc_self
  <2>1. w = [k EXCEPT !.null = TRUE]
    BY <1>1 DEF Dispatch
  <2>2. w \in Conn /\ w.null
    BY <2>1, Zenon DEF Conn
  <2>3. /\ w.lo = k.lo /\ w.hi = k.hi /\ w.event_type = k.event_type /\ w.handled = k.handled
        /\ w.water_level = k.water_level /\ w.reply = k.reply /\ w.chunks = k.chunks
        /\ w.client = k.client /\ w.torn = k.torn
    BY <2>1, Zenon DEF Conn
  <2>4. InContent(c, w)
    BY <2>2, <2>3, ZenonT(60) DEF InContent
  <2>5. QED
    BY <2>2, <2>3, <2>4 DEF Kept, Sound
<1>2. CASE tipc_self /\ (request[c].type >= RPC_MAX_ELEMENT \/ request[c].type \notin cb)
  <2> DEFINE r == [k EXCEPT !.refused = TRUE]
  <2>1. w = Out(r)
    BY <1>2, Zenon DEF Dispatch
  <2>2. /\ r \in Conn /\ r.refused /\ r.hi = k.hi /\ r.handled = k.handled /\ r.reply = k.reply
        /\ r.client = k.client /\ r.torn = k.torn /\ r.chunks = k.chunks
    BY Zenon DEF Conn
  <2> HIDE DEF r
  <2>3. /\ w \in Conn /\ w.refused /\ w.hi = k.hi /\ w.lo = k.hi /\ w.handled = 0
        /\ w.reply = k.reply /\ w.client = k.client /\ w.torn = k.torn
        /\ w.event_type = "HEAD"
    BY <2>1, <2>2, OutFields, Zenon
  <2>4. k.hi \in Nat /\ k.lo \in Nat /\ k.hi > 0
    BY DEF Conn
  <2>5. Past(c, w)
    BY <2>3, <2>4 DEF Past
  <2>6. QED
    BY <2>3, <2>4, <2>5 DEF Kept, Sound
<1>3. CASE tipc_self /\ ~ (request[c].type >= RPC_MAX_ELEMENT \/ request[c].type \notin cb)
  <2>1. PICK ret \in Return :
           w = Out([k EXCEPT !.handled = @ + 1, !.torn = @ \/ ~ IsRequest(c, k),
                             !.reply = Reply(ret)])
    BY <1>3, Zenon DEF Dispatch
  <2> DEFINE r == [k EXCEPT !.handled = @ + 1, !.torn = @ \/ ~ IsRequest(c, k),
                            !.reply = Reply(ret)]
  <2>2. IsRequest(c, k) /\ Reply(ret) \in Int
    BY ReplyType DEF IsRequest
  <2>3. /\ r \in Conn /\ r.hi = k.hi /\ r.handled = 1
        /\ r.client = k.client /\ ~ r.torn /\ r.chunks = k.chunks
    <3>1. k.handled + 1 = 1 /\ (k.torn \/ ~ IsRequest(c, k)) = FALSE
      BY <2>2 DEF Conn
    <3>2. r = [k EXCEPT !.handled = 1, !.torn = FALSE, !.reply = Reply(ret)]
      BY <3>1, Zenon
    <3>3. QED
      BY <2>2, <3>2, Called, Zenon DEF Conn
  <2> HIDE DEF r
  <2>4. /\ w \in Conn /\ w.hi = k.hi /\ w.lo = k.hi /\ w.handled = 1
        /\ w.client = k.client /\ ~ w.torn /\ w.event_type = "HEAD"
    BY <2>1, <2>3, OutFields, Zenon DEF r
  <2>5. k.hi \in Nat /\ k.lo \in Nat /\ k.hi > 0
    BY DEF Conn
  <2>6. Past(c, w)
    BY <2>4, <2>5 DEF Past
  <2>7. QED
    BY <2>4, <2>5, <2>6 DEF Kept, Sound
<1>4. QED
  BY <1>1, <1>2, <1>3, ZenonT(60)

\* tipc_read, called when n more bytes have come in, goes on in the request.
LEMMA ReadSound ==
    ASSUME TypeOK, NEW c \in Caller, NEW k \in Conn, Sound(c, k), ~ k.null,
           NEW n \in Nat, n >= 1, k.hi + n <= Total(c),
           NEW w \in tipc_read(c, [k EXCEPT !.hi = @ + n, !.chunks = @ + 1])
    PROVE  Kept(k, w) /\ Sound(c, w)
<1> USE Numbers
<1> DEFINE j == [k EXCEPT !.hi = @ + n, !.chunks = @ + 1]
<1>0. k.hi + n \in Nat /\ k.chunks + 1 \in Nat
  BY DEF Conn
<1>1. /\ j \in Conn /\ j.hi = k.hi + n /\ j.chunks = k.chunks + 1 /\ j.lo = k.lo
      /\ j.event_type = k.event_type /\ j.water_level = k.water_level /\ j.reply = k.reply
      /\ j.handled = k.handled /\ j.refused = k.refused /\ j.torn = k.torn /\ j.null = k.null
      /\ j.client = k.client
  BY <1>0, Zenon DEF Conn
<1>2. w \in tipc_read(c, j)
  OBVIOUS
<1> HIDE DEF j
<1>3. /\ k.hi \in Nat /\ k.lo \in Nat /\ k.chunks \in Nat /\ k.handled \in Nat
      /\ k.water_level \in Nat /\ k.reply \in Int /\ k.null \in BOOLEAN
      /\ k.torn \in BOOLEAN /\ k.refused \in BOOLEAN
      /\ k.event_type \in {"HEAD", "CONTENT"}
  BY DEF Conn
<1>4. k.lo <= j.hi /\ j.hi <= Total(c)
  BY <1>1, <1>3 DEF Sound
<1>5. CASE j.hi - j.lo < TIPC_HEADER_SIZE
  <2>1. w = j
    BY <1>1, <1>2, <1>3, <1>5 DEF tipc_read
  <2>2. InHead(k) => InHead(j)
    BY <1>1, <1>3, <1>5 DEF InHead
  <2>3. InContent(c, k) => InContent(c, j)
    BY <1>1, <1>3, <1>5 DEF InContent
  <2>4. Past(c, k) => Past(c, j)
    BY <1>1, <1>3, <1>4 DEF Past
  <2>5. QED
    BY <1>1, <1>4, <2>1, <2>2, <2>3, <2>4, Zenon DEF Kept, Sound
<1>6. CASE ~ (j.hi - j.lo < TIPC_HEADER_SIZE) /\ InHead(k)
  <2>1. w \in ReadHead(c, j) /\ j.lo = 0 /\ j.handled = 0 /\ j.chunks >= 1
    BY <1>1, <1>2, <1>3, <1>6 DEF tipc_read, InHead
  <2>2. CASE request[c].size > RPC_REQ_SIZE
    <3>1. w = Out(j)
      BY <2>1, <2>2 DEF ReadHead
    <3>2. /\ w \in Conn /\ w.hi = j.hi /\ w.lo = j.hi /\ w.handled = 0 /\ w.reply = k.reply
          /\ w.client = k.client /\ w.torn = k.torn /\ w.event_type = "HEAD"
      BY <1>1, <2>1, <3>1, OutFields
    <3>3. Past(c, w)
      BY <1>1, <1>3, <2>2, <3>2, <1>6 DEF Past
    <3>4. QED
      BY <1>1, <1>3, <1>4, <2>1, <3>2, <3>3 DEF Kept, Sound
  <2>3. CASE ~ (request[c].size > RPC_REQ_SIZE)
    <3> DEFINE h == [j EXCEPT !.lo = TIPC_HEADER_SIZE, !.event_type = "CONTENT",
                              !.water_level = request[c].size]
    <3>1. w \in IF h.hi - h.lo >= h.water_level THEN ReadContent(c, h) ELSE {h}
      BY <2>1, <2>3 DEF ReadHead
    <3>2. /\ h \in Conn /\ h.lo = TIPC_HEADER_SIZE /\ h.event_type = "CONTENT"
          /\ h.water_level = request[c].size /\ h.hi = j.hi /\ h.handled = j.handled
          /\ h.reply = j.reply /\ h.chunks = j.chunks /\ h.torn = j.torn /\ h.client = j.client
      BY <1>1, Zenon DEF Conn
    <3> HIDE DEF h
    <3>3. /\ h.lo <= h.hi /\ h.hi <= Total(c) /\ ~ h.torn /\ h.handled = 0 /\ h.chunks >= 1
          /\ ~ (h.reply >= 0) /\ h.hi \in Nat
      BY <1>1, <1>3, <1>4, <1>6, <2>1, <3>2 DEF Sound
    <3>4. CASE h.hi - h.lo >= h.water_level
      <4>1. w \in Dispatch(c, h)
        BY <3>1, <3>2, <3>3, <3>4 DEF ReadContent
      <4>2. Kept(h, w) /\ Sound(c, w)
        BY <3>2, <3>3, <3>4, <4>1, DispatchSound
      <4>3. QED
        BY <1>1, <2>1, <3>2, <4>2 DEF Kept
    <3>5. CASE ~ (h.hi - h.lo >= h.water_level)
      <4>1. w = h
        BY <3>1, <3>5
      <4>2. InContent(c, h)
        BY <3>2, <3>3, <3>5 DEF InContent
      <4>3. QED
        BY <1>1, <2>1, <3>2, <3>3, <4>1, <4>2, Zenon DEF Kept, Sound
    <3>6. QED
      BY <3>4, <3>5
  <2>4. QED
    BY <2>2, <2>3
<1>7. CASE ~ (j.hi - j.lo < TIPC_HEADER_SIZE) /\ InContent(c, k)
  <2>1. w \in ReadContent(c, j) /\ j.lo = TIPC_HEADER_SIZE /\ j.handled = 0 /\ j.chunks >= 2
    BY <1>1, <1>2, <1>3, <1>7 DEF tipc_read, InContent
  <2>2. CASE j.hi - j.lo < j.water_level
    <3>1. w = Out(j)
      BY <2>1, <2>2 DEF ReadContent
    <3>2. /\ w \in Conn /\ w.hi = j.hi /\ w.lo = j.hi /\ w.handled = 0 /\ w.reply = k.reply
          /\ w.client = k.client /\ w.torn = k.torn /\ w.event_type = "HEAD"
          /\ w.chunks = j.chunks
      BY <1>1, <2>1, <3>1, OutFields
    <3>3. j.hi < Total(c)
      BY <1>1, <1>3, <1>7, <2>2 DEF InContent
    <3>4. Past(c, w)
      BY <1>1, <1>3, <1>4, <2>1, <3>2, <3>3, <1>7 DEF Past
    <3>5. QED
      BY <1>1, <1>3, <1>4, <2>1, <3>2, <3>4 DEF Kept, Sound
  <2>3. CASE ~ (j.hi - j.lo < j.water_level)
    <3>1. w \in Dispatch(c, j)
      BY <2>1, <2>3 DEF ReadContent
    <3>2. /\ j.water_level = request[c].size /\ j.event_type = "CONTENT" /\ ~ j.torn
          /\ ~ (j.reply >= 0) /\ j.chunks >= 1 /\ j.hi - j.lo >= j.water_level
      BY <1>1, <1>3, <1>7, <2>1, <2>3 DEF InContent, Sound
    <3>3. Kept(j, w) /\ Sound(c, w)
      BY <1>1, <1>4, <2>1, <3>1, <3>2, DispatchSound
    <3>4. QED
      BY <1>1, <3>3 DEF Kept
  <2>4. QED
    BY <2>2, <2>3
<1>8. CASE ~ (j.hi - j.lo < TIPC_HEADER_SIZE) /\ Past(c, k)
  <2>1. w \in ReadHead(c, j) /\ j.lo # 0
    BY <1>1, <1>2, <1>3, <1>8 DEF tipc_read, Past
  <2>2. w = Out(j)
    BY <2>1 DEF ReadHead
  <2>3. /\ w \in Conn /\ w.hi = j.hi /\ w.lo = j.hi /\ w.handled = k.handled
        /\ w.reply = k.reply /\ w.client = k.client /\ w.torn = k.torn
        /\ w.event_type = "HEAD" /\ w.chunks = j.chunks /\ w.refused = k.refused
    BY <1>1, <2>2, OutFields
  <2>4. Past(c, w)
    BY <1>1, <1>3, <1>4, <1>8, <2>3 DEF Past
  <2>5. QED
    BY <1>1, <1>3, <1>4, <2>3, <2>4 DEF Kept, Sound
<1>9. QED
  BY <1>5, <1>6, <1>7, <1>8 DEF Sound
------------------------------------------------------------------------------
\* Where a connection is does not depend on who holds it.
SameStream(k, w) ==
    /\ w.hi = k.hi /\ w.lo = k.lo /\ w.event_type = k.event_type
    /\ w.water_level = k.water_level /\ w.reply = k.reply /\ w.chunks = k.chunks
    /\ w.handled = k.handled /\ w.refused = k.refused /\ w.torn = k.torn

\* Accepting, freeing or giving up a connection leaves the stream where it is.
LEMMA HolderSound ==
    ASSUME TypeOK, NEW c \in Caller, NEW k \in Conn, Sound(c, k), ~ k.null,
           NEW w \in Conn, SameStream(k, w)
    PROVE  Sound(c, w)
BY Zenon DEF Sound, InHead, InContent, Past, SameStream

\* A step of the server on one connection.
LEMMA ServerKeeps ==
    ASSUME IInv, NEW c \in Caller, conn' \in [Caller -> Conn],
           \A d \in Caller \ {c} : conn'[d] = conn[d],
           Sound(c, conn'[c]), conn[c].handled = 1 => conn'[c].handled = 1,
           UNCHANGED <<request, call, result>>
    PROVE  IInv'
<1>1. TypeOK'
  BY Zenon DEF IInv, TypeOK
<1>2. \A d \in Caller : Sound(d, conn'[d])
  BY DEF IInv
<1>3. \A d \in Caller : Sound(d, conn'[d]) => Sound(d, conn[d])'
  BY ZenonT(60) DEF Sound, InHead, InContent, Past, Total
<1>4. SuccessWasServed'
  BY DEF IInv, SuccessWasServed
<1>5. QED
  BY <1>1, <1>2, <1>3, <1>4, Zenon DEF IInv

\* Accepting, freeing, and giving up a connection.
LEMMA HolderKeeps ==
    ASSUME IInv, ~ Undefined, NEW c \in Caller,
           NEW to \in {"live", "leaked", "never", "freed"}, NEW null \in BOOLEAN,
           \/ conn' = [conn EXCEPT ![c].client = to, ![c].null = null]
           \/ conn' = [conn EXCEPT ![c].client = to],
           UNCHANGED <<request, call, result>>
    PROVE  IInv'
<1>1. conn \in [Caller -> Conn] /\ conn[c] \in Conn /\ Sound(c, conn[c]) /\ ~ conn[c].null
  BY DEF IInv, TypeOK, Undefined
<1>2. conn' \in [Caller -> Conn] /\ SameStream(conn[c], conn'[c])
  BY <1>1 DEF Conn, SameStream
<1>3. \A d \in Caller \ {c} : conn'[d] = conn[d]
  BY <1>1
<1>4. Sound(c, conn'[c])
  BY <1>1, <1>2, HolderSound DEF IInv
<1>5. QED
  BY <1>2, <1>3, <1>4, ServerKeeps DEF SameStream

\* Bytes come in and tipc_read runs, as often as its event is triggered.
LEMMA ReceiveKeeps ==
    ASSUME IInv, ~ Undefined, NEW c \in Caller, Receive(c)
    PROVE  IInv'
<1>1. conn \in [Caller -> Conn] /\ conn[c] \in Conn /\ Sound(c, conn[c]) /\ ~ conn[c].null
  BY DEF IInv, TypeOK, Undefined
<1>2. PICK n \in 1 .. Total(c) - conn[c].hi :
         \E k \in tipc_read(c, [conn[c] EXCEPT !.hi = @ + n, !.chunks = @ + 1]) :
            conn' = [conn EXCEPT ![c] = k]
  BY Zenon DEF Receive
<1>3. PICK w \in tipc_read(c, [conn[c] EXCEPT !.hi = @ + n, !.chunks = @ + 1]) :
         conn' = [conn EXCEPT ![c] = w]
  BY <1>2, Zenon
<1>4. n \in Nat /\ n >= 1 /\ conn[c].hi + n <= Total(c)
  <2>1. Total(c) \in Nat /\ conn[c].hi \in Nat
    BY <1>1, Numbers DEF IInv, Conn
  <2>2. QED
    BY <2>1
<1>5. Kept(conn[c], w) /\ Sound(c, w)
  BY <1>1, <1>3, <1>4, ReadSound, Zenon DEF IInv
<1>6. conn' \in [Caller -> Conn] /\ conn'[c] = w
  BY <1>1, <1>3, <1>5 DEF Kept
<1>7. \A d \in Caller \ {c} : conn'[d] = conn[d]
  BY <1>1, <1>3
<1>8. QED
  BY <1>5, <1>6, <1>7, ServerKeeps, ZenonT(60) DEF Receive, Kept

\* One step per callback of the server's event loop.
LEMMA ServerStepKeeps ==
    ASSUME IInv, ~ Undefined, NEW c \in Caller, ServerStep(c)
    PROVE  IInv'
<1>1. tipc_self \in BOOLEAN /\ ("hash" \notin ready) \in BOOLEAN
  BY DEF tipc_self
<1>2. CASE rpc_tipc_accept__dispatch(c)
  BY <1>1, <1>2, HolderKeeps, Zenon DEF rpc_tipc_accept__dispatch, rpc_free_client
<1>3. CASE Receive(c)
  BY <1>3, ReceiveKeeps
<1>4. CASE EndOfStream(c)
  BY <1>1, <1>4, HolderKeeps, Zenon DEF EndOfStream, rpc_free_client
<1>5. CASE Reset(c)
  BY <1>1, <1>5, HolderKeeps, Zenon DEF Reset, rpc_free_client
<1>6. QED
  BY <1>2, <1>3, <1>4, <1>5 DEF ServerStep

\* A call closes with -1, or with the answer, which only a callback gives.
LEMMA CloseKeeps ==
    ASSUME IInv, NEW c \in Caller, NEW ret \in Int, Close(c, ret),
           request[c].answer /\ ret >= 0 => conn[c].handled = 1,
           UNCHANGED <<request, conn>>
    PROVE  IInv'
<1>1. TypeOK'
  BY DEF IInv, TypeOK, Close
<1>2. \A d \in Caller : Sound(d, conn[d])'
  BY ZenonT(60) DEF IInv, Sound, InHead, InContent, Past, Total
<1>3. SuccessWasServed'
  BY DEF IInv, TypeOK, SuccessWasServed, Close
<1>4. QED
  BY <1>1, <1>2, <1>3, ZenonT(60) DEF IInv

\* One step per step of a caller: op_tipc_send, the answer, the time-out and close.
LEMMA CallerStepKeeps ==
    ASSUME IInv, ~ Undefined, NEW c \in Caller, CallerStep(c)
    PROVE  IInv'
<1>0. conn[c] \in Conn /\ Sound(c, conn[c])
  BY DEF IInv, TypeOK
<1>1. CASE op_tipc_send(c)
  <2>1. CASE /\ request[c].answer
             /\ call' = [call EXCEPT ![c] = "waiting"] /\ UNCHANGED <<result, conn>>
    <3>1. TypeOK'
      BY <1>1, <2>1 DEF IInv, TypeOK, op_tipc_send
    <3>2. \A d \in Caller : Sound(d, conn[d])'
      BY <1>1, <2>1 DEF IInv, Sound, InHead, InContent, Past, Total, op_tipc_send
    <3>3. SuccessWasServed'
      BY <1>1, <2>1 DEF IInv, TypeOK, SuccessWasServed, op_tipc_send
    <3>4. QED
      BY <3>1, <3>2, <3>3 DEF IInv
  <2>2. CASE ~ request[c].answer /\ Close(c, 0) /\ UNCHANGED conn
    BY <1>1, <2>2, CloseKeeps DEF op_tipc_send
  <2>3. CASE Close(c, -1) /\ conn' = [conn EXCEPT ![c].client = "never"]
    <3>1. conn \in [Caller -> Conn]
      BY DEF IInv, TypeOK
    <3>2. conn' \in [Caller -> Conn] /\ SameStream(conn[c], conn'[c])
      BY <2>3, <3>1 DEF Conn, SameStream
    <3>3. TypeOK'
      BY <1>1, <2>3, <3>2 DEF IInv, TypeOK, Close, op_tipc_send
    <3>4. \A d \in Caller : Sound(d, conn'[d])
      BY <1>0, <2>3, <3>1, <3>2, HolderSound, Zenon DEF IInv, Undefined
    <3>5. \A d \in Caller : Sound(d, conn[d])'
      BY <1>1, <3>4 DEF Sound, InHead, InContent, Past, Total, op_tipc_send
    <3>6. \A d \in Caller : conn'[d].handled = conn[d].handled
      BY <2>3, <3>1, <3>2 DEF SameStream
    <3>7. SuccessWasServed'
      BY <1>1, <2>3, <3>6 DEF IInv, TypeOK, SuccessWasServed, Close, op_tipc_send
    <3>8. QED
      BY <3>3, <3>5, <3>7 DEF IInv
  <2>4. QED
    BY <1>1, <2>1, <2>2, <2>3 DEF op_tipc_send
<1>2. CASE ReadAnswer(c)
  <2>1. conn[c].reply \in Int /\ conn[c].reply >= 0 /\ conn[c].handled = 1
    BY <1>0, <1>2, Zenon DEF Conn, Sound, ReadAnswer
  <2>2. QED
    BY <1>2, <2>1, CloseKeeps DEF ReadAnswer
<1>3. CASE WaitTimeout(c)
  BY <1>3, CloseKeeps DEF WaitTimeout
<1>4. QED
  BY <1>1, <1>2, <1>3 DEF CallerStep

\* A step that touches no connection and no call.
LEMMA OthersKeep ==
    ASSUME IInv, UNCHANGED <<request, call, result, conn>>
    PROVE  IInv'
BY DEF IInv, TypeOK, Sound, InHead, InContent, Past, Total, SuccessWasServed

\* No connection has carried a byte.
LEMMA InitIInv == Init => IInv
<1> SUFFICES ASSUME Init PROVE IInv
  OBVIOUS
<1>1. Fresh \in Conn
  BY RpcConstants DEF Fresh, Conn
<1>2. TypeOK
  BY <1>1 DEF Init, TypeOK, Request
<1>3. ASSUME NEW c \in Caller PROVE Sound(c, conn[c])
  <2>1. conn[c] = Fresh
    BY Zenon DEF Init
  <2>2. /\ Fresh.lo = 0 /\ Fresh.hi = 0 /\ Fresh.handled = 0 /\ Fresh.event_type = "HEAD"
        /\ Fresh.reply = -1 /\ ~ Fresh.torn
    BY DEF Fresh
  <2>3. QED
    BY <1>2, <2>1, <2>2, Numbers DEF Sound, InHead
<1>4. SuccessWasServed
  BY DEF Init, SuccessWasServed
<1>5. QED
  BY <1>2, <1>3, <1>4, Zenon DEF IInv

\* Callers, the server and the two initialisations.
LEMMA NextIInv ==
    ASSUME IInv, [Next]_vars
    PROVE  IInv'
<1>1. CASE UNCHANGED vars
  BY <1>1, OthersKeep DEF vars
<1>2. CASE op_tipc_init
  BY <1>2, OthersKeep DEF op_tipc_init
<1>3. ASSUME NEW t \in Type, op_tipc_register(t)
      PROVE  IInv'
  BY <1>3, OthersKeep DEF op_tipc_register
<1>4. ASSUME ~ Undefined, NEW c \in Caller, CallerStep(c) \/ ServerStep(c)
      PROVE  IInv'
  BY <1>4, CallerStepKeeps, ServerStepKeeps
<1>5. QED
  BY <1>1, <1>2, <1>3, <1>4 DEF Next

\* Where the server is in the one request of a connection is kept by every step.
\* RequestWholeOnce is not inductive: that a second header is never read needs Past, what
\* tipc_read has flushed (oprpc.c:166-216).
THEOREM Invariance == Spec => []IInv
<1>1. QED
  BY InitIInv, NextIInv, PTL DEF Spec
------------------------------------------------------------------------------
\* tipc_read never calls a callback twice for a request, nor with other bytes than the
\* request's, whatever pieces the stream comes in (oprpc.c:166-216).
THEOREM RequestIsWholeOnce == Spec => []RequestWholeOnce
<1>1. ASSUME IInv PROVE RequestWholeOnce
  <2>1. ASSUME NEW c \in Caller PROVE conn[c].handled <= 1 /\ ~ conn[c].torn
    <3>1. Sound(c, conn[c])
      BY <1>1, ZenonT(60) DEF IInv
    <3>2. QED
      BY <3>1 DEF Sound, InHead, InContent, Past
  <2>2. QED
    BY <2>1, Zenon DEF RequestWholeOnce
<1>2. QED
  BY <1>1, Invariance, PTL

\* A request that has come in whole and found a callback is served unless the low-water
\* mark or the flush of tipc_read lost it (oprpc.c:195, 308).
THEOREM UnservedIsCut == Spec => []UnservedWasCut
<1>1. ASSUME IInv PROVE UnservedWasCut
  <2> SUFFICES ASSUME NEW c \in Caller, ~ Undefined, conn[c].hi = Total(c), conn[c].handled = 0
               PROVE  \/ conn[c].refused \/ request[c].size > RPC_REQ_SIZE
                      \/ conn[c].event_type = "CONTENT" /\ conn[c].hi - conn[c].lo < TIPC_HEADER_SIZE
                      \/ conn[c].chunks > 2
    BY Zenon DEF UnservedWasCut
  <2>1. conn[c] \in Conn /\ Sound(c, conn[c]) /\ ~ conn[c].null /\ TypeOK
    BY <1>1, Zenon DEF IInv, TypeOK, Undefined
  <2>2. conn[c].hi \in Nat /\ conn[c].lo \in Nat /\ conn[c].chunks \in Nat
    BY <2>1 DEF Conn
  <2>3. QED
    BY <2>1, <2>2, Numbers DEF Sound, InHead, InContent, Past
<1>2. QED
  BY <1>1, Invariance, PTL

\* A call that wanted an answer and returned one was executed, however late or short the
\* answer came (oprpc.c:216-231, 495-554).
THEOREM SuccessIsServed == Spec => []SuccessWasServed
<1>1. IInv => SuccessWasServed
  BY DEF IInv
<1>2. QED
  BY <1>1, Invariance, PTL
===============================================================================
