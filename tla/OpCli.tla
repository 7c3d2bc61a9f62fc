-------------------------------- MODULE OpCli --------------------------------
(***************************************************************************)
(* The command line server (base/opcli.c).  opcli_init starts the thread that *)
(* accepts sessions before it sets up what that thread uses: the list of      *)
(* sessions, the event base and the thread that reads them (stage).  The       *)
(* accepting thread then hands every session over with event_add, and the job *)
(* thread frees it at the end of the session.  What a session sends is a       *)
(* command of opcli.c itself; the line editor is module Vty.                  *)
(*                                                                         *)
(* A descriptor is the lowest free one, and libevent counts the events of a    *)
(* descriptor: it tells the kernel to watch it only when the first is added.   *)
(* The kernel forgets a descriptor when it is closed.                         *)
(***************************************************************************)
EXTENDS Integers, FiniteSetsExt

CONSTANTS
    Client, Fd,
    CliFailure,      \* the calls that may fail
    Nobody

ASSUME OpCliConstants ==
    /\ Fd \subseteq Nat /\ Nobody \notin Client
    /\ CliFailure \subseteq {"calloc", "event_new", "event_add"}

VARIABLES
    stage,      \* what opcli_init has set up
    peer,       \* the other end of a session: "none", "open" or "shut"
    state,      \* of the client's memory
    fd,         \* client->fd
    node,       \* client->vty->node
    on_base,    \* client->ev has an event base
    list,       \* job.list
    used,       \* the open descriptors
    events,     \* events of each descriptor in job.base
    watched,    \* the descriptors the kernel watches for job.base
    acc,        \* where the accepting thread is, and with whom
    job,        \* where the job thread is, and with whom
    undefined,  \* "none", "null" or "freed": what the program ran into
    reused      \* history: sessions whose event joined one left of a closed descriptor

net_vars == <<used, events, watched, reused>>
cl_vars == <<state, fd, node, on_base, list>>
cli_vars == <<stage, peer, state, fd, node, on_base, list, used, events, watched, acc, job,
          undefined, reused>>

Idle == [pc |-> "idle", c |-> Nobody]
At(pc, c) == [pc |-> pc, c |-> c]

CliInit ==
    /\ stage = "thread" /\ peer = [c \in Client |-> "none"]
    /\ state = [c \in Client |-> "none"] /\ fd = [c \in Client |-> 0]
    /\ node = [c \in Client |-> "view"] /\ on_base = [c \in Client |-> FALSE]
    /\ list = {} /\ used = {} /\ events = [f \in Fd |-> 0] /\ watched = {}
    /\ acc = Idle /\ job = Idle /\ undefined = "none" /\ reused = {}

\* opcli_init after it has started the accepting thread.
opcli_init ==
    /\ stage # "run"
    /\ stage' = CASE stage = "thread" -> "list" [] stage = "list" -> "base" [] stage = "base" -> "run"
    /\ UNCHANGED <<peer, cl_vars, net_vars, acc, job, undefined>>
------------------------------------------------------------------------------
\* The other end connects, and hangs up.
Connect(c) ==
    /\ peer[c] = "none"
    /\ peer' = [peer EXCEPT ![c] = "open"]
    /\ UNCHANGED <<stage, cl_vars, net_vars, acc, job, undefined>>

HangUp(c) ==
    /\ peer[c] = "open"
    /\ peer' = [peer EXCEPT ![c] = "shut"]
    /\ UNCHANGED <<stage, cl_vars, net_vars, acc, job, undefined>>
------------------------------------------------------------------------------
\* The accepting thread: opcli_job.

HasBase == stage \in {"base", "run"}

HasThread == stage = "run"

\* accept, calloc, vty_create and event_new.
Accept(c) ==
    /\ acc = Idle /\ peer[c] # "none" /\ state[c] = "none" /\ used # Fd
    /\ \/ /\ CliFailure \intersect {"calloc", "event_new"} # {}
          /\ state' = [state EXCEPT ![c] = "gone"]
          /\ UNCHANGED <<fd, on_base, used, acc>>
       \/ /\ state' = [state EXCEPT ![c] = "new"]
          /\ fd' = [fd EXCEPT ![c] = Min(Fd \ used)]
          /\ used' = used \union {fd'[c]}
          /\ on_base' = [on_base EXCEPT ![c] = HasBase]
          /\ acc' = At("list", c)
    /\ UNCHANGED <<stage, peer, node, list, events, watched, job, undefined, reused>>

\* list_add: the head is zero until INIT_LIST_HEAD.
ListAdd(c) ==
    /\ acc = At("list", c)
    /\ IF stage = "thread"
       THEN undefined' = "null" /\ UNCHANGED <<state, list, acc>>
       ELSE /\ state' = [state EXCEPT ![c] = "listed"]
            /\ list' = list \union {c}
            /\ acc' = At("add", c)
            /\ UNCHANGED undefined
    /\ UNCHANGED <<stage, peer, fd, node, on_base, net_vars, job>>

\* event_add in libevent: an event without a base is refused.
event_add(c) ==
    /\ on_base[c]
    /\ events' = [events EXCEPT ![fd[c]] = @ + 1]
    /\ watched' = IF events[fd[c]] = 0 THEN watched \union {fd[c]} ELSE watched
    /\ reused' = IF events[fd[c]] = 0 THEN reused ELSE reused \union {c}

\* The call of event_add, and what follows when it fails.
EventAdd(c) ==
    /\ acc = At("add", c)
    /\ \/ /\ event_add(c)
          /\ state' = [state EXCEPT ![c] = "added"]
          /\ acc' = At("prompt", c)
          /\ UNCHANGED <<list, used>>
       \/ /\ ~ on_base[c] \/ "event_add" \in CliFailure
          /\ used' = used \ {fd[c]}
          /\ list' = list \ {c}
          /\ state' = [state EXCEPT ![c] = "gone"]
          /\ acc' = Idle
          /\ UNCHANGED <<events, watched, reused>>
    /\ UNCHANGED <<stage, peer, fd, node, on_base, job, undefined>>

\* pthread_kill of the job thread, and the prompt read from the client.
Prompt(c) ==
    /\ acc = At("prompt", c)
    /\ undefined' = IF ~ HasThread THEN "null" ELSE IF state[c] = "freed" THEN "freed" ELSE undefined
    /\ acc' = IF undefined' = "none" THEN Idle ELSE acc
    /\ UNCHANGED <<stage, peer, cl_vars, net_vars, job>>
------------------------------------------------------------------------------
\* The job thread: opcli_job_thread.

Readable(c) == stage = "run" /\ job = Idle /\ state[c] = "added" /\ fd[c] \in watched

\* The commands every node or one of them has; exit leaves the node.
Commands(n) == {"exit", "end", "list"} \union
               CASE n = "view" -> {"enable"} [] n = "enable" -> {"module"} [] n = "module" -> {}

NodeAfter(n, cmd) ==
    CASE cmd = "enable" -> "enable"
      [] cmd = "module" -> "module"
      [] cmd = "exit" /\ n = "module" -> "enable"
      [] cmd = "exit" /\ n = "enable" -> "view"
      [] cmd = "exit" /\ n = "view" -> n
      [] cmd = "end" -> "view"
      [] cmd = "list" -> n

\* As Closes, in every node.
ClosesAnywhere(n, cmd) == cmd \in {"exit", "enable"}

Closes(n, cmd) == cmd = "exit" /\ n = "view"

\* vty_read of a command; a session that has left the last node is freed.
Command(c, cmd) ==
    /\ Readable(c) /\ peer[c] = "open" /\ cmd \in Commands(node[c])
    /\ node' = [node EXCEPT ![c] = NodeAfter(@, cmd)]
    /\ job' = IF Closes(node[c], cmd) THEN At("close", c) ELSE Idle
    /\ UNCHANGED <<stage, peer, state, fd, on_base, list, net_vars, acc, undefined>>

\* As EndOfFile, taking it for an empty command.
end_of_file_ignored(c) ==
    /\ Readable(c) /\ peer[c] = "shut"
    /\ UNCHANGED cli_vars

\* read returns 0.
EndOfFile(c) ==
    /\ Readable(c) /\ peer[c] = "shut"
    /\ job' = At("close", c)
    /\ UNCHANGED <<stage, peer, cl_vars, net_vars, acc, undefined>>

\* opcli_client_free: close, then list_del under job.lock, then event_free and free.
FreeClose(c) ==
    /\ job = At("close", c)
    /\ used' = used \ {fd[c]}
    /\ watched' = watched \ {fd[c]}
    /\ job' = At("del", c)
    /\ UNCHANGED <<stage, peer, cl_vars, events, reused, acc, undefined>>

FreeDel(c) ==
    /\ job = At("del", c)
    /\ list' = list \ {c}
    /\ job' = At("free", c)
    /\ UNCHANGED <<stage, peer, state, fd, node, on_base, net_vars, acc, undefined>>

\* As FreeMemory, closing the descriptor a second time.
free_closes_again(c) ==
    /\ job = At("free", c)
    /\ events' = [events EXCEPT ![fd[c]] = @ - 1]
    /\ used' = used \ {fd[c]}
    /\ watched' = watched \ {fd[c]}
    /\ state' = [state EXCEPT ![c] = "freed"]
    /\ job' = Idle
    /\ UNCHANGED <<stage, peer, fd, node, on_base, list, reused, acc, undefined>>

FreeMemory(c) ==
    /\ job = At("free", c)
    /\ events' = [events EXCEPT ![fd[c]] = @ - 1]
    /\ watched' = IF events[fd[c]] = 1 THEN watched \ {fd[c]} ELSE watched
    /\ state' = [state EXCEPT ![c] = "freed"]
    /\ job' = Idle
    /\ UNCHANGED <<stage, peer, fd, node, on_base, list, used, reused, acc, undefined>>
------------------------------------------------------------------------------
AcceptThread(c) == Accept(c) \/ ListAdd(c) \/ EventAdd(c) \/ Prompt(c)

FreeStep(c) == FreeClose(c) \/ FreeDel(c) \/ FreeMemory(c)

JobThread(c) == EndOfFile(c) \/ FreeStep(c)

CliNext ==
    /\ undefined = "none"
    /\ \/ opcli_init
       \/ \E c \in Client :
             \/ Connect(c) \/ HangUp(c)
             \/ AcceptThread(c) \/ JobThread(c)
             \/ \E cmd \in {"exit", "end", "list", "enable", "module"} : Command(c, cmd)

CliSpec == CliInit /\ [][CliNext]_cli_vars

\* The threads run on; each of them handles what is ready.
FairCliSpec ==
    /\ CliSpec
    /\ WF_cli_vars(undefined = "none" /\ opcli_init)
    /\ \A c \in Client :
          /\ WF_cli_vars(undefined = "none" /\ AcceptThread(c))
          /\ SF_cli_vars(undefined = "none" /\ EndOfFile(c))
          /\ WF_cli_vars(undefined = "none" /\ FreeStep(c))
------------------------------------------------------------------------------
\* A session that has been handed over and not closed is watched, or its event was
\* added to a descriptor between close and event_free of the session that had it
\* before (opcli.c:188, 192, 393): then nobody reads it.
WatchedUnlessReused ==
    \A c \in Client :
       state[c] = "added" /\ ~ (job.c = c /\ job.pc \in {"del", "free"})
          => fd[c] \in watched \/ c \in reused

\* The prompt is read from freed memory only when the session has ended by then: the
\* other end hung up or left the last node (opcli.c:393-408).
FreedUseNeedsEnd == undefined = "freed" => peer[acc.c] = "shut" \/ node[acc.c] = "view"

\* A session whose other end has hung up is freed in the end, unless its descriptor was
\* reused too early (opcli.c:209-212).
Reclaimed ==
    \A c \in Client :
       state[c] = "added" /\ peer[c] = "shut"
          ~> state[c] = "freed" \/ c \in reused \/ undefined # "none"
==============================================================================
