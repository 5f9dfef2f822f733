------------------------------- MODULE ArcLoad -------------------------------
(***************************************************************************)
(* src/src/arcfw/load.c, its callers in arc.c and the order of main.c: NT's *)
(* loader is read through the file it was opened as, placed where it was    *)
(* linked, its pages noted for the memory descriptors, and entered; it may  *)
(* then have other programs loaded.  Any read and any Open Firmware call    *)
(* may fail.                                                                *)
(***************************************************************************)
EXTENDS Integers, Sequences, FiniteSets

CONSTANTS
  Programs,    \* images: [name, cd, start, length, header, base, size, sections]
  PageBytes,   \* 4096
  MaxSections, \* 16, what the section table's buffer holds
  MaxLoads     \* a bound on the calls

(* An image's header is "coff", "pe", or something load_image refuses; its  *)
(* sections are [va, vsize, rsize, roff].  An image on a CD begins at start  *)
(* of the device.                                                           *)

VARIABLES
  call,      \* [stage, program, by, section, fault, free]: load_image, and by whom it was called
  fileBase,  \* file_base
  isOpen,    \* the file is
  ram,       \* what each byte of memory holds: <<image, offset>>, or Zero, or Junk
  dirty,     \* the bytes written that the instruction cache has not been swept for
  claimed,   \* the pages claimed from Open Firmware
  noted,     \* loaded_base and loaded_pages of memory.c, as a set of pages
  described,     \* the pages the descriptors call MemoryLoadedProgram
  loaded,    \* the images placed, in order
  running,   \* the image that was entered, or "arcfw"; "halted" after fatal()
  status,    \* what load_image answered last
  loads

loadVars == <<call, fileBase, isOpen, ram, dirty, claimed, noted, described, loaded, running, status, loads>>

Zero == <<"zero", 0>>
Junk == <<"junk", 0>>
NoProgram == [name |-> "none", cd |-> FALSE, start |-> 0, length |-> 0, header |-> "none", base |-> 0, size |-> 0, sections |-> <<>>]
Idle == [stage |-> "idle", program |-> NoProgram, by |-> "main", section |-> 0, fault |-> FALSE, free |-> FALSE]

Span(p) == p.base .. p.base + p.size - 1
\* of_claim_real's argument is rounded up to pages.
Pages(p) == {a \div PageBytes : a \in Span(p)}
Memory == UNION {Span(p) : p \in Programs}

LoadInit ==
  /\ call = Idle /\ fileBase = 0 /\ isOpen = FALSE
  /\ ram = [a \in Memory |-> Junk] /\ dirty = {}
  /\ claimed = {} /\ noted = {} /\ described = {}
  /\ loaded = <<>> /\ running = "arcfw" /\ status = "none" /\ loads = 0

-----------------------------------------------------------------------------
(* The file. *)

\* A disk's file begins at its own byte 0, a CD's is read through the device.
Origin(p) == IF p.cd THEN p.start ELSE 0

\* read_at: what byte i of a read at off is, counted from the image's own first.
ByteAt(p, off, i) == <<p.name, fileBase + off + i - Origin(p)>>

\* A file is short at its end; a CD goes on behind it.
Delivers(p, off, n) == p.cd \/ fileBase + off + n <= p.length

-----------------------------------------------------------------------------
(* load_image. *)

At(stage) == call.stage = stage /\ running # "halted"
Going(stage) == call' = [call EXCEPT !.stage = stage]
Untouched == UNCHANGED <<claimed, noted, described, loaded, running, loads>>

\* Out of load_image: the file is closed whatever happened; main() gives up
\* when it has no loader.
OutOf(s, fault) ==
  /\ call' = [call EXCEPT !.stage = IF s = "ESUCCESS" THEN "placed" ELSE "idle", !.fault = fault]
  /\ status' = s /\ isOpen' = FALSE
  /\ running' = IF s # "ESUCCESS" /\ call.by = "main" THEN "halted" ELSE running

Out(s) == OutOf(s, FALSE)

\* Mutant: the offset of the last CD's file stays in force.
BaseKept == fileBase

BaseAtFirst == 0

load_image(p, by) ==
  /\ At("idle") /\ loads < MaxLoads
  /\ loads' = loads + 1
  /\ call' = [Idle EXCEPT !.stage = "open", !.program = p, !.by = by, !.free = Pages(p) \cap claimed = {}]
  /\ fileBase' = BaseAtFirst /\ status' = "none"
  /\ UNCHANGED <<isOpen, ram, dirty, claimed, noted, described, loaded, running>>

\* A file on a CD is found in the raw device, and is no file to Open Firmware.
Open ==
  /\ At("open") /\ Going("headers")
  /\ isOpen' = TRUE
  /\ fileBase' = IF call.program.cd THEN call.program.start ELSE fileBase
  /\ Untouched /\ UNCHANGED <<ram, dirty, status>>

\* A call of Open Firmware or a read fails, at whatever point.
Fails ==
  /\ \E s \in {"open", "headers", "table", "section"} : At(s)
  /\ OutOf(IF call.stage = "open" THEN "ENOENT" ELSE "EIO", TRUE)
  /\ UNCHANGED <<fileBase, ram, dirty, claimed, noted, described, loaded, loads>>

\* The stub and the PE signature if there are any, the COFF header, the
\* optional one: a raw COFF or a PE for the PowerPC goes on.
Headers ==
  /\ At("headers")
  /\ IF call.program.header \in {"coff", "pe"} /\ ByteAt(call.program, 0, 0)[2] = 0
       THEN Going("claim") /\ UNCHANGED <<isOpen, status, running>>
       ELSE Out("ENOEXEC")
  /\ UNCHANGED <<fileBase, ram, dirty, claimed, noted, described, loaded, loads>>

\* of_claim_real: the pages are claimed, then mapped; a claim whose mapping
\* fails is not given back.
Claim ==
  /\ At("claim")
  /\ LET p == call.program
     IN  \/ /\ Pages(p) \cap claimed = {}
            /\ claimed' = claimed \cup Pages(p) /\ noted' = Pages(p)
            /\ ram' = [a \in Memory |-> IF a \in Span(p) THEN Zero ELSE ram[a]]
            /\ dirty' = dirty \cup Span(p)
            /\ Going("table") /\ UNCHANGED <<isOpen, status, running>>
         \/ /\ \/ Pages(p) \cap claimed # {} /\ UNCHANGED claimed
               \/ Pages(p) \cap claimed = {} /\ claimed' = claimed \cup Pages(p)
            /\ OutOf("ENOMEM", Pages(p) \cap claimed = {})
            /\ UNCHANGED <<noted, ram, dirty>>
  /\ UNCHANGED <<fileBase, described, loaded, loads>>

\* The section table.
Table ==
  /\ At("table")
  /\ IF Len(call.program.sections) > MaxSections THEN Out("ENOEXEC")
       ELSE call' = [call EXCEPT !.stage = "section", !.section = 1] /\ UNCHANGED <<isOpen, status, running>>
  /\ UNCHANGED <<fileBase, ram, dirty, claimed, noted, described, loaded, loads>>

\* Mutant: the whole of the raw data is placed, its padding too.
InMemoryRaw(s) == s.rsize

\* What is placed of a section's raw data.
InMemory(s) == IF s.rsize < s.vsize \/ s.vsize = 0 THEN s.rsize ELSE s.vsize

\* Where a section's raw data lies in the image; a linker lays no two over one
\* another.
Extent(s) == IF s.roff = 0 THEN {} ELSE s.va .. s.va + InMemory(s) - 1

ArcLoadAssumption ==
  /\ PageBytes \in Nat \ {0} /\ MaxSections \in Nat /\ MaxLoads \in Nat
  /\ \A p \in Programs :
       /\ p.name \notin {"arcfw", "halted"} /\ p.cd \in BOOLEAN
       /\ p.base \in Nat /\ p.size \in Nat /\ p.start \in Nat /\ p.length \in Nat
       /\ p.sections \in Seq([va : Nat, vsize : Nat, rsize : Nat, roff : Nat])
       /\ \A j, k \in 1 .. Len(p.sections) : j # k => Extent(p.sections[j]) \cap Extent(p.sections[k]) = {}

\* One section: uninitialised ones are zero already.
Section ==
  /\ At("section") /\ call.section <= Len(call.program.sections)
  /\ LET p  == call.program
         s  == p.sections[call.section]
         n  == InMemory(s)
         to == p.base + s.va
         next == call' = [call EXCEPT !.section = @ + 1] /\ UNCHANGED <<isOpen, status, running>>
     IN  IF s.rsize = 0 \/ s.roff = 0 THEN next /\ UNCHANGED <<ram, dirty>>
         ELSE IF s.va + n > p.size THEN Out("ENOEXEC") /\ UNCHANGED <<ram, dirty>>
         ELSE IF ~Delivers(p, s.roff, n) THEN Out("EIO") /\ UNCHANGED <<ram, dirty>>
         ELSE /\ next
              /\ ram' = [a \in Memory |-> IF a \in to .. to + n - 1 THEN ByteAt(p, s.roff, a - to) ELSE ram[a]]
              /\ dirty' = dirty \cup (to .. to + n - 1)
  /\ UNCHANGED <<fileBase, claimed, noted, described, loaded, loads>>

\* Mutant: only the first page is swept.
SweptFirst(p) == {a \in Span(p) : a \div PageBytes = p.base \div PageBytes}

\* cache_sweep(image_base, image_size)
Swept(p) == Span(p)

Placed ==
  /\ At("section") /\ call.section > Len(call.program.sections)
  /\ dirty' = dirty \ Swept(call.program)
  /\ loaded' = Append(loaded, call.program)
  /\ Out("ESUCCESS")
  /\ UNCHANGED <<fileBase, ram, claimed, noted, described, loads>>

-----------------------------------------------------------------------------
(* Who calls it. *)

\* Mutant: the descriptors are made before the loader is placed.
DescribedBefore == {}

DescribedAfter == noted

\* main(): the loader, then memory_init, then the loader's entry.  arc_Execute
\* enters what it loaded, arc_Load returns to its caller.
Return ==
  /\ At("placed") /\ Going("idle")
  /\ described' = IF call.by = "main" THEN DescribedAfter ELSE described
  /\ running' = IF call.by \in {"main", "arc_Execute"} THEN call.program.name ELSE running
  /\ UNCHANGED <<fileBase, isOpen, ram, dirty, claimed, noted, loaded, status, loads>>

arcfw_main == running = "arcfw" /\ \E p \in Programs : load_image(p, "main")

arc_Load    == running # "arcfw" /\ \E p \in Programs : load_image(p, "arc_Load")
arc_Execute == running # "arcfw" /\ \E p \in Programs : load_image(p, "arc_Execute")

\* arc_Invoke is given an entry that arc_Load answered.
arc_Invoke ==
  /\ running \notin {"arcfw", "halted"} /\ At("idle")
  /\ \E k \in 1 .. Len(loaded) : running' = loaded[k].name
  /\ UNCHANGED <<call, fileBase, isOpen, ram, dirty, claimed, noted, described, loaded, status, loads>>

LoadNext ==
  \/ arcfw_main \/ arc_Load \/ arc_Execute \/ arc_Invoke
  \/ Open \/ Fails \/ Headers \/ Claim \/ Table \/ Section \/ Placed \/ Return

-----------------------------------------------------------------------------
(* Properties. *)

LoadTypeOK ==
  /\ call.stage \in {"idle", "open", "headers", "claim", "table", "section", "placed"}
  /\ running \in {"arcfw", "halted"} \cup {p.name : p \in Programs}
  /\ dirty \subseteq Memory /\ noted \subseteq claimed /\ described \subseteq claimed

\* What the linker meant byte b of an image to hold: its section's, as far as
\* the section is both in the file and in memory, and 0 elsewhere.
Meant(p, b) ==
  LET has(s) == s.roff # 0 /\ b >= s.va /\ b < s.va + s.rsize /\ (s.vsize = 0 \/ b < s.va + s.vsize)
      of == {k \in 1 .. Len(p.sections) : has(p.sections[k])}
      s  == p.sections[CHOOSE k \in of : TRUE]
  IN  IF of = {} THEN Zero ELSE <<p.name, s.roff + b - s.va>>

\* Every image that was placed is in memory byte for byte, and stays so
\* whatever is loaded after it; its instructions are in no stale cache line.
ImageIsPlaced ==
  \A k \in 1 .. Len(loaded) :
    LET p == loaded[k]
    IN  /\ \A b \in 0 .. p.size - 1 : ram[p.base + b] = Meant(p, b)
        /\ Span(p) \cap dirty = {} /\ Pages(p) \subseteq claimed

\* A program only runs once it has been placed, and the pages of the one that
\* main() entered are those the descriptors give it.
EntersTheLoaded ==
  running \notin {"arcfw", "halted"} =>
    /\ \E k \in 1 .. Len(loaded) : loaded[k].name = running
    /\ described = Pages(loaded[1])

Sound(p) ==
  /\ p.header \in {"coff", "pe"} /\ Len(p.sections) <= MaxSections
  /\ \A k \in 1 .. Len(p.sections) :
       LET s == p.sections[k]
       IN  /\ s.va + InMemory(s) <= p.size
           /\ s.roff + InMemory(s) <= p.length

\* The file is closed on every way out, and a sound image whose pages are free
\* is placed unless something failed.
LoadIsDecided ==
  /\ call.stage \in {"idle", "open", "placed"} => ~isOpen
  /\ call.stage = "idle" /\ call.program # NoProgram /\ ~call.fault /\ call.free /\ Sound(call.program) => status = "ESUCCESS"

LoadsPrograms == ImageIsPlaced /\ EntersTheLoaded /\ LoadIsDecided
=============================================================================
