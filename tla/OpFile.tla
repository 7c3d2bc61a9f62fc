-------------------------------- MODULE OpFile --------------------------------
(***************************************************************************)
(* The file type detection (module/opfile/opfile.c): the expressions of the   *)
(* magic file are read into a hash and compiled, and a buffer is scanned for  *)
(* them; of the expressions that match, the longest names the type.           *)
(* An expression is the number of its element in the file, which is also its  *)
(* express_id less 99.  live counts the blocks of each kind that the module   *)
(* holds from the pool allocator.                                             *)
(***************************************************************************)
EXTENDS Integers, Sequences, FiniteSets

CONSTANTS
    Size,                             \* the length of each expression of the magic file
    FileFailure,                      \* the calls that may fail
    OPFILE_MAX_HS_SCAN,
    OPFILE_SUPPORT_MAX_EXPRESS_SIZE,
    MaxChecks                         \* buffers checked

ASSUME OpFileConstants ==
    /\ Size \in Seq(Nat) /\ {OPFILE_MAX_HS_SCAN, OPFILE_SUPPORT_MAX_EXPRESS_SIZE, MaxChecks} \subseteq Nat
    /\ FileFailure \subseteq {"calloc", "content", "insert", "compile", "scan", "read"}

Magic == DOMAIN Size
Kind == {"magic", "flag", "buf", "file", "magic_ex"}

VARIABLES
    stage,      \* of opfile_init: "parse", "ready" or "failed"
    next,       \* the next expression of the magic file
    hash,       \* magic_hash
    db,         \* the expressions compiled
    live,       \* blocks held
    pc,         \* "idle", "begin", "scan", "choose", or "return" to the caller
    matched,    \* magic_ex->magic
    result,     \* the expression that names the type, 0 for NULL
    missed,     \* history: checks that ended without a type after the two allocations
    checks

load_vars == <<stage, next, hash, db>>
file_vars == <<stage, next, hash, db, live, pc, matched, result, missed, checks>>

May(f) == f \in FileFailure
With(k, d) == [live EXCEPT ![k] = @ + d]

FileInit ==
    /\ stage = "parse" /\ next = 1 /\ hash = {} /\ db = {}
    /\ live = [k \in Kind |-> 0]
    /\ pc = "idle" /\ matched = <<>> /\ result = 0 /\ missed = 0 /\ checks = 0
------------------------------------------------------------------------------
\* opfile_parse_magic: an element; op_hash_insert may drop it unnoticed.
Parse ==
    /\ stage = "parse" /\ next <= Len(Size)
    /\ \/ /\ hash' = hash \union {next}
          /\ live' = With("magic", 1) /\ next' = next + 1 /\ UNCHANGED stage
       \/ /\ May("insert")
          /\ live' = With("magic", 1) /\ next' = next + 1 /\ UNCHANGED <<stage, hash>>
       \/ /\ May("calloc") \/ May("content")
          /\ stage' = "failed" /\ UNCHANGED <<hash, live, next>>
    /\ UNCHANGED <<db, pc, matched, result, missed, checks>>

\* opfile_hs_compile; flag is never freed.
Compile ==
    /\ stage = "parse" /\ next > Len(Size)
    /\ IF Cardinality(hash) > OPFILE_SUPPORT_MAX_EXPRESS_SIZE
       THEN stage' = "failed" /\ UNCHANGED <<db, live>>
       ELSE \/ /\ hash # {}
               /\ stage' = "ready" /\ db' = hash /\ live' = With("flag", 1)
            \/ /\ hash = {} \/ May("compile")
               /\ stage' = "failed" /\ live' = With("flag", 1) /\ UNCHANGED db
            \/ May("calloc") /\ stage' = "failed" /\ UNCHANGED <<db, live>>
    /\ UNCHANGED <<next, hash, pc, matched, result, missed, checks>>
------------------------------------------------------------------------------
\* A buffer is checked as it is (opfile_to_text), or after a file was read into buf
\* (opfile_check_path).
Call ==
    /\ stage \in {"ready", "failed"} /\ pc = "idle" /\ checks < MaxChecks
    /\ checks' = checks + 1 /\ result' = 0
    /\ \/ pc' = "begin" /\ UNCHANGED live
       \/ pc' = "begin" /\ live' = With("buf", 1)
       \/ (May("calloc") \/ May("read")) /\ pc' = "idle" /\ UNCHANGED live
    /\ UNCHANGED <<load_vars, matched, missed>>

\* opfile_check_mem: file and magic_ex are allocated.
Begin ==
    /\ pc = "begin"
    /\ matched' = <<>>
    /\ \/ live' = [live EXCEPT !["file"] = @ + 1, !["magic_ex"] = @ + 1] /\ pc' = "scan"
       \/ May("calloc") /\ pc' = "return" /\ UNCHANGED live
    /\ UNCHANGED <<load_vars, result, missed, checks>>

\* opfile_magic_hs_process: 0 for an expression that is not in the hash.
Found(id) == IF id \in hash THEN id ELSE 0

Full == Len(matched) >= OPFILE_MAX_HS_SCAN

Collect(id) ==
    IF Full THEN pc' = "choose" /\ UNCHANGED matched
    ELSE matched' = Append(matched, Found(id)) /\ UNCHANGED pc

Match(id) ==
    /\ pc = "scan" /\ id \in db
    /\ Collect(id)
    /\ UNCHANGED <<load_vars, live, result, missed, checks>>

\* failed: file is freed, magic_ex is not.
Failed ==
    /\ live' = With("file", -1)
    /\ missed' = missed + 1
    /\ UNCHANGED result

\* hs_scan returns; without a database it returns an error.
EndScan ==
    /\ pc = "scan"
    /\ \/ db # {} /\ pc' = "choose" /\ UNCHANGED <<live, missed, result>>
       \/ (db = {} \/ May("scan")) /\ pc' = "return" /\ Failed
    /\ UNCHANGED <<load_vars, matched, checks>>

\* As Better, for the last of the longest.
BetterOrEqual(m, best) == matched[m] # 0 /\ Size[matched[m]] >= Size[best]

\* The loop over the matches keeps the first of the longest: its expression.
Better(m, best) == matched[m] # 0 /\ Size[matched[m]] > Size[best]

Longest ==
    LET best[m \in 1 .. Len(matched)] ==
          IF m = 1 THEN matched[1]
          ELSE IF Better(m, best[m - 1]) THEN matched[m] ELSE best[m - 1]
    IN  best[Len(matched)]

\* As Choose, keeping magic_ex.
choose_keeps_ex ==
    /\ pc = "choose" /\ pc' = "return"
    /\ IF matched = <<>> \/ matched[1] = 0 THEN Failed
       ELSE result' = Longest /\ UNCHANGED <<live, missed>>
    /\ UNCHANGED <<load_vars, matched, checks>>

Choose ==
    /\ pc = "choose" /\ pc' = "return"
    /\ IF matched = <<>> \/ matched[1] = 0 THEN Failed
       ELSE result' = Longest /\ live' = With("magic_ex", -1) /\ UNCHANGED missed
    /\ UNCHANGED <<load_vars, matched, checks>>

\* The caller frees buf and what it was given.
Return ==
    /\ pc = "return" /\ pc' = "idle"
    /\ live' = [live EXCEPT !["buf"] = 0, !["file"] = IF result = 0 THEN @ ELSE @ - 1]
    /\ UNCHANGED <<load_vars, matched, result, missed, checks>>

FileNext ==
    \/ Parse \/ Compile \/ Call \/ Begin \/ EndScan \/ Choose \/ Return
    \/ \E id \in Magic : Match(id)

FileSpec == FileInit /\ [][FileNext]_file_vars
------------------------------------------------------------------------------
\* The type is that of the first of the longest expressions among the matches recorded
\* (opfile.c:467-479).
LongestWins ==
    result # 0 =>
       \E m \in DOMAIN matched :
          /\ matched[m] = result
          /\ \A k \in DOMAIN matched : Size[matched[k]] <= Size[result]
          /\ \A k \in 1 .. m - 1 : Size[matched[k]] < Size[result]

\* Between checks nothing of a check is held but the magic_ex of every one that ended
\* without a type (opfile.c:488-491).
HeldExact ==
    pc = "idle" => live["magic_ex"] = missed /\ live["file"] = 0 /\ live["buf"] = 0
==============================================================================
