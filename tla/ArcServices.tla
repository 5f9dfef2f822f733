----------------------------- MODULE ArcServices -----------------------------
(***************************************************************************)
(* What the firmware does for itself and for the programs it runs: env.c,   *)
(* the environment on Open Firmware's /options node; heap.c, the tables'    *)
(* memory; arc_GetRelativeTime of arc.c.  All under src/src/arcfw/.          *)
(***************************************************************************)
EXTENDS Integers, Sequences

CONSTANTS
  Names,     \* of variables, as callers spell them: [id, spelt], spelt "upper" on /options
  Texts,     \* values: sequences of characters, none of them NUL
  BufBytes,  \* sizeof value_buf
  Rooms,     \* lengths of the buffers of env_get's callers
  HeapBytes, \* HEAP_SIZE
  Wants,     \* what zalloc_aligned is asked for: <<bytes, alignment>>
  MsWord,    \* 2^32
  PerSecond, \* 1000
  Starts,    \* where Open Firmware's milliseconds may stand
  MaxMs      \* bound on the time a behaviour covers, less than MsWord

VARIABLES
  options,   \* by id, the bytes of the property, <<NUL>> at least, or Absent
  value_buf,
  kept,      \* by id, the text set last, whoever set it, or Absent
  got,       \* what the last call of env_lookup or env_get answered: [of, text, status]
  heap_used, blocks,  \* blocks: [at, bytes, align], in the order of allocation
  ms, t0, told,
  asked      \* when the relative time was asked for first and last, or <<>>

optionVars == <<options, value_buf, kept, got>>
heapVars == <<heap_used, blocks>>
clockVars == <<ms, t0, told, asked>>
callVars == <<optionVars, heapVars, clockVars>>

NUL == "nul"
Absent == <<"absent">>
None == [of |-> 0, text |-> Absent, status |-> "none"]
Ids == {n.id : n \in Names}
Characters == UNION {{t[i] : i \in DOMAIN t} : t \in Texts}

\* A value fits value_buf with its terminator, and no behaviour covers more
\* time than Open Firmware's word of milliseconds holds.
CallsAssumption ==
  /\ BufBytes \in Nat /\ HeapBytes \in Nat /\ MsWord \in Nat \ {0} /\ PerSecond \in Nat \ {0}
  /\ NUL \notin Characters /\ Absent \notin Texts
  /\ \A t \in Texts : t \in Seq(Characters) /\ Len(t) < BufBytes
  /\ \A want \in Wants : want[1] \in Nat /\ want[2] \in Nat \ {0}
  /\ Starts \subseteq Nat /\ MaxMs \in Nat /\ MaxMs < MsWord /\ Rooms \subseteq Nat

\* setenv writes no terminator, a boot script may (env.c:36).  Without /options
\* nothing is there and nothing can be set.
Settings == [Ids -> Texts \cup {Absent}]

CallsInit ==
  /\ kept \in Settings
  /\ options \in {o \in [Ids -> UNION {{t, Append(t, NUL)} : t \in Texts} \cup {Absent}] :
                    \A i \in Ids : o[i] \in {kept[i], Append(kept[i], NUL)} /\ (kept[i] = Absent => o[i] = Absent)}
  /\ value_buf = [i \in 1 .. BufBytes |-> NUL] /\ got = None
  /\ heap_used = 0 /\ blocks = <<>>
  /\ ms \in Starts /\ t0 = 0 /\ told = 0 /\ asked = <<>>

-----------------------------------------------------------------------------
(* The environment. *)

\* Mutant: a name is looked for as it is spelt.
FoundAsSpelt(n) == IF n.spelt = "upper" THEN options[n.id] ELSE Absent

\* upper_name, and the property of that name.
Found(n) == options[n.id]

\* Mutant: the value is taken to carry its terminator.
FilledAsIs(p) == [i \in 1 .. BufBytes |-> IF i <= Len(p) THEN p[i] ELSE value_buf[i]]

\* of_getprop, then the terminator.
Filled(p) == [i \in 1 .. BufBytes |-> IF i <= Len(p) THEN p[i] ELSE IF i = Len(p) + 1 THEN NUL ELSE value_buf[i]]

\* The C string at the head of a buffer.
String(buf) ==
  LET n == CHOOSE n \in 0 .. BufBytes : (n = BufBytes \/ buf[n + 1] = NUL) /\ \A i \in 1 .. n : buf[i] # NUL
  IN  [i \in 1 .. n |-> buf[i]]

Looked(n, answer) ==
  /\ value_buf' = IF Found(n) = Absent THEN value_buf ELSE Filled(Found(n))
  /\ got' = [of |-> n.id, text |-> IF Found(n) = Absent THEN Absent ELSE answer.text,
             status |-> IF Found(n) = Absent THEN "ENOENT" ELSE answer.status]
  /\ UNCHANGED <<options, kept>>

\* env_lookup, of which arc_GetEnvironmentVariable hands on the pointer.
env_lookup(n) == Looked(n, [text |-> String(value_buf'), status |-> "ESUCCESS"])

\* env_get: the value with its terminator, if the caller has room for both.
env_get(n, room) ==
  LET fits == Len(String(value_buf')) + 1 <= room
  IN  Looked(n, [text |-> IF fits THEN String(value_buf') ELSE Absent, status |-> IF fits THEN "ESUCCESS" ELSE "ENOMEM"])

\* env_set: Open Firmware may refuse.
env_set(n, text) ==
  /\ \/ /\ options' = [options EXCEPT ![n.id] = Append(text, NUL)]
        /\ kept' = [kept EXCEPT ![n.id] = text]
     \/ UNCHANGED <<options, kept>>
  /\ got' = None /\ UNCHANGED value_buf

EnvNext ==
  \E n \in Names :
    \/ env_lookup(n)
    \/ \E room \in Rooms : env_get(n, room)
    \/ \E text \in Texts : env_set(n, text)

-----------------------------------------------------------------------------
(* The heap. *)

\* Mutant: the place is rounded down.
AlignedDown(used, align) == used - (used % align)

Aligned(used, align) == ((used + align - 1) \div align) * align

\* zalloc_aligned; fatal() when the heap is exhausted, so nothing follows.
zalloc_aligned(want) ==
  LET at == Aligned(heap_used, want[2])
  IN  /\ at + want[1] <= HeapBytes
      /\ heap_used' = at + want[1]
      /\ blocks' = Append(blocks, [at |-> at, bytes |-> want[1], align |-> want[2]])

HeapNext == \E want \in Wants : zalloc_aligned(want)

-----------------------------------------------------------------------------
(* The relative clock. *)

\* A millisecond of Open Firmware's.
Pass == asked # <<>> /\ ms - asked[1] < MaxMs /\ ms' = ms + 1 /\ UNCHANGED <<t0, told, asked>>

\* Mutant: the word is not wrapped.
SinceUnwrapped(from) == ms - from

\* The milliseconds since a reading, in one word.
Since(from) == ((ms % MsWord) - from) % MsWord

\* arc_GetRelativeTime: 0 for t0 is no reading yet.
GetRelativeTime ==
  LET from == IF t0 = 0 THEN ms % MsWord ELSE t0
  IN  /\ t0' = from
      /\ told' = Since(from) \div PerSecond
      /\ asked' = IF asked = <<>> THEN <<ms, ms>> ELSE <<asked[1], ms>>
      /\ UNCHANGED ms

ClockNext == Pass \/ GetRelativeTime

-----------------------------------------------------------------------------
(* Properties. *)

\* A variable is read back as it was set last, by whom and in whatever case;
\* an answer too long for its reader is refused whole.
EnvironmentAnswers ==
  got # None =>
    \/ got.status = "ESUCCESS" /\ got.text = kept[got.of] /\ kept[got.of] # Absent
    \/ got.status = "ENOENT" /\ kept[got.of] = Absent
    \/ got.status = "ENOMEM" /\ got.text = Absent /\ \E room \in Rooms : room <= Len(kept[got.of])

\* The tables never lie across one another, and each is aligned as was asked.
BlocksAreApart ==
  /\ \A j, k \in 1 .. Len(blocks) : j < k => blocks[j].at + blocks[j].bytes <= blocks[k].at
  /\ \A k \in 1 .. Len(blocks) : blocks[k].at % blocks[k].align = 0 /\ blocks[k].at + blocks[k].bytes <= HeapBytes

\* The relative time is the time since it was first asked for, across the end
\* of Open Firmware's word; when that stood at 0 it may start later.
TimeIsRelative ==
  asked # <<>> =>
    LET since == (asked[2] - asked[1]) \div PerSecond
    IN  IF asked[1] % MsWord # 0 THEN told = since ELSE told \in 0 .. since

\* It never runs back.
TimeNeverRunsBack == [][told' >= told]_clockVars

\* What the firmware told a program, or gave one of its own tables, holds
\* (env.c:18-54, heap.c:16-36, arc.c:164-168).
FirmwareKeepsItsWord == [](EnvironmentAnswers /\ BlocksAreApart /\ TimeIsRelative) /\ TimeNeverRunsBack
=============================================================================
