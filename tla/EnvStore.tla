------------------------------ MODULE EnvStore ------------------------------
(***************************************************************************)
(* src/src/misc.c: the ARC environment the HAL keeps in HalpEnvironment, a  *)
(* run of NAME=VALUE entries, each with its NUL, and a NUL to end them.  An  *)
(* entry is [var, val] here; the bytes it takes are counted.                *)
(***************************************************************************)
EXTENDS Integers, Sequences, FiniteSetsExt, SequencesExt

CONSTANTS
  Size,       \* HALP_ENV_SIZE
  Variables,  \* names as callers spell them: [id, spelt, length]
  Values,     \* [id, length]; the one of length 0 is the empty string
  Lengths     \* of the buffers values are read into

SystemPartition == [id |-> 1, spelt |-> "SYSTEMPARTITION", length |-> 1]

\* Spellings of a name differ in the case of its letters only (misc.c:38-42).
EnvAssumption ==
  /\ Size \in Nat \ {0}
  /\ Variables \subseteq [id : Nat, spelt : STRING, length : Nat]
  /\ \A v, w \in Variables \cup {SystemPartition} : v.id = w.id => v.length = w.length
  /\ Values \subseteq [id : Nat, length : Nat]
  /\ Lengths \subseteq Nat

VARIABLES
  store,
  set,     \* by name, the value set last, whether or not it could be kept
  answer   \* HalGetEnvironmentVariable: [status, value, copied, length], copied without the NUL

envVars == <<store, set, answer>>

Ids == {v.id : v \in Variables} \cup {1}
NoValue == [id |-> 0, length |-> 0]
NoAnswer == [status |-> "none", value |-> NoValue, copied |-> 0, length |-> 0]

Init == store = <<>> /\ set = [i \in Ids |-> NoValue] /\ answer = NoAnswer

Bytes(e) == e.var.length + 1 + e.val.length + 1

\* Entry by entry, up to the terminator of the whole store.
HalpEnvUsed(s) ==
  LET used[k \in 0 .. Len(s)] == IF k = 0 THEN 1 ELSE used[k - 1] + Bytes(s[k])
  IN  used[Len(s)]

\* Mutant: names are compared as they are spelt.
HalpEnvNameIsExact(e, var) == e.var = var

\* The case of a name makes no difference.
HalpEnvNameIs(e, var) == e.var.id = var.id

\* The indices of the entry of a name, if it has one: the first of them.
HalpEnvFind(var) ==
  LET found == {k \in 1 .. Len(store) : HalpEnvNameIs(store[k], var)}
  IN  IF found = {} THEN {} ELSE {Min(found)}

\* Mutant: what follows the entry is not moved down into the gap.
HalpEnvRemoveTail(var) ==
  IF HalpEnvFind(var) = {} THEN store ELSE SubSeq(store, 1, Min(HalpEnvFind(var)) - 1)

HalpEnvRemove(var) ==
  IF HalpEnvFind(var) = {} THEN store ELSE RemoveAt(store, Min(HalpEnvFind(var)))

\* Mutant: the terminator of the whole store is not counted.
HasRoomExact(s, e) == HalpEnvUsed(s) - 1 + Bytes(e) <= Size

HasRoom(s, e) == HalpEnvUsed(s) - 1 + Bytes(e) + 1 <= Size

\* HalSetEnvironmentVariable: the old value goes first, then the new one is
\* appended if it fits; the empty value is the variable's absence.
HalSetEnvironmentVariable(var, val) ==
  LET rest == HalpEnvRemove(var)
      e    == [var |-> var, val |-> val]
  IN  /\ store' = IF val.length = 0 \/ ~HasRoom(rest, e) THEN rest ELSE Append(rest, e)
      /\ set' = [set EXCEPT ![var.id] = val]

\* HalpSeedEnvironment: the first disk with a valid partition table, unless
\* SYSTEMPARTITION is there already.
HalpSeedEnvironment(disks) ==
  LET valid == {k \in 1 .. Len(disks) : disks[k].valid}
  IN  IF valid = {} \/ HalpEnvFind(SystemPartition) # {} THEN UNCHANGED <<store, set>>
      ELSE HalSetEnvironmentVariable(SystemPartition, disks[Min(valid)].path)

\* Mutant: the buffer is filled to its end, and then terminated.
CopiedWhole(val, length) == IF length > val.length THEN val.length ELSE length

\* What is copied before the NUL.
Copied(val, length) == IF length > val.length THEN val.length ELSE IF length = 0 THEN 0 ELSE length - 1

HalGetEnvironmentVariable(var, length) ==
  answer' = IF HalpEnvFind(var) = {} THEN [NoAnswer EXCEPT !.status = "ENOENT", !.length = length]
            ELSE LET val == store[Min(HalpEnvFind(var))].val
                     n   == Copied(val, length)
                 IN  [status |-> IF n = val.length THEN "ESUCCESS" ELSE "ENOMEM",
                      value |-> val, copied |-> n, length |-> length]

Next ==
  \/ \E var \in Variables, val \in Values : HalSetEnvironmentVariable(var, val) /\ answer' = NoAnswer
  \/ \E valid1, valid2 \in BOOLEAN, p1, p2 \in {v \in Values : v.length > 0} :
       /\ HalpSeedEnvironment(<<[valid |-> valid1, path |-> p1], [valid |-> valid2, path |-> p2]>>)
       /\ answer' = NoAnswer
  \/ \E var \in Variables, length \in Lengths : HalGetEnvironmentVariable(var, length) /\ UNCHANGED <<store, set>>

-----------------------------------------------------------------------------
(* Properties. *)

\* The store never outgrows its array, final terminator included.
StoreFits == HalpEnvUsed(store) <= Size

\* A variable is in the store at most once, however it is spelt, and never
\* with a value older than the one set last (it may be gone: misc.c:116-121).
NeverStale ==
  /\ \A j, k \in 1 .. Len(store) : store[j].var.id = store[k].var.id => j = k
  /\ \A k \in 1 .. Len(store) : store[k].val = set[store[k].var.id]

\* A variable is not touched by the setting or deleting of others.
OthersUntouched ==
  [][\A k \in 1 .. Len(store) : LET e == store[k]
       IN  set'[e.var.id] = set[e.var.id] => \E j \in 1 .. Len(store') : store'[j].val = e.val /\ store'[j].var.id = e.var.id]_envVars

\* A value read without error is the whole value, and the buffer is never
\* written beyond its length, NUL included.
BufferIsKept ==
  answer.status \in {"ESUCCESS", "ENOMEM"} =>
    /\ answer.length > 0 => answer.copied + 1 <= answer.length
    /\ answer.status = "ESUCCESS" => answer.copied = answer.value.length

\* The environment is a map from names to the values set last, whatever
\* was set, replaced and deleted before (misc.c:33-128).
EnvironmentIsKept == [](StoreFits /\ NeverStale /\ BufferIsKept) /\ OthersUntouched
=============================================================================
