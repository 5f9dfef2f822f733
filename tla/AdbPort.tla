------------------------------- MODULE AdbPort -------------------------------
(***************************************************************************)
(* src/drivers/adbport: DriverEntry and the keyboard and pointer ports      *)
(* between the HAL's ADB packets and the class drivers.                     *)
(*                                                                         *)
(* A packet is handled in the HAL's DPC and a control request by a thread   *)
(* that takes the lock at DISPATCH_LEVEL or makes a single store, so each   *)
(* is one step on the uniprocessor the driver runs on.                      *)
(***************************************************************************)
EXTENDS Integers, Sequences, FiniteSets

CONSTANTS
  Keys,        \* codes of the keys of the keyboard
  AdbToSet1,   \* make code by key code, 0 for none
  Deltas,      \* movements of the mouse between two polls, -64 .. 63
  MaxPackets,  \* bound on the packets of the bus
  MaxControls  \* bound on the control requests

Buttons == {"left", "right"}
Ports == {"keyboard", "pointer"}

NoKey == 255       \* "0xFF meaning no key"
PowerKey == 127    \* both bytes, on press

AdbPortAssumption ==
  /\ Keys \subseteq 0 .. 126
  /\ AdbToSet1 \in [Keys -> Nat]
  /\ Deltas \subseteq -64 .. 63
  /\ MaxPackets \in Nat /\ MaxControls \in Nat

VARIABLES
  entry,      \* where DriverEntry is
  created,    \* the devices that exist: AdbKeyboard, AdbPointer, AdbDisk
  image,      \* the OEM disk's Image is mapped
  floppies,   \* FloppyCount
  callback,   \* AdbPacket is registered with the HAL
  polling,    \* the HAL auto-polls
  service,    \* Connect.ClassService is set, by port
  enabled,    \* Enabled, by port
  buttons,    \* AdbButtons
  bus,        \* the hardware: keys and buttons down, where the mouse is
  class,      \* what the class drivers make of what they were given
  missed,     \* ports for which an event was not given to the class driver, and
              \* "ring" once the HAL's ring has dropped a packet
  packets, controls

entryVars == <<entry, created, image, floppies, callback, polling>>
portVars  == <<service, enabled>>
inputVars == <<buttons, class, missed>>
vars == <<entryVars, portVars, inputVars, bus, packets, controls>>

Nobody == [keys |-> {}, buttons |-> {}, x |-> 0, y |-> 0]

Init ==
  /\ entry = "keyboard"
  /\ created = {} /\ image = FALSE /\ floppies = 0
  /\ callback = FALSE /\ polling = FALSE
  /\ service = [p \in Ports |-> FALSE] /\ enabled = [p \in Ports |-> FALSE]
  /\ buttons = {}
  /\ bus = Nobody /\ class = Nobody /\ missed = {}
  /\ packets = 0 /\ controls = 0

-----------------------------------------------------------------------------
(* DriverEntry. *)

\* AdbCreate for one of the two ports: without it the driver does not load.
CreatePort(port, next) ==
  /\ entry = port
  /\ \/ created' = created \cup {port} /\ entry' = next
     \/ entry' = "failed" /\ UNCHANGED created
  /\ UNCHANGED <<image, floppies, callback, polling, portVars, inputVars, bus, packets, controls>>

CreateDisk ==
  /\ entry = "disk"
  /\ \/ created' = created \cup {"disk"} /\ entry' = "mount"
     \/ entry' = "callback" /\ UNCHANGED created
  /\ UNCHANGED <<image, floppies, callback, polling, portVars, inputVars, bus, packets, controls>>

\* Mutant: the floppy is counted whether or not there is an image.
MountDiskCounted ==
  /\ entry = "mount" /\ entry' = "callback"
  /\ floppies' = floppies + 1
  /\ \/ image' = TRUE /\ UNCHANGED created
     \/ created' = created \ {"disk"} /\ UNCHANGED image
  /\ UNCHANGED <<callback, polling, portVars, inputVars, bus, packets, controls>>

\* AdbDiskInitialize: no image, or none that can be mapped, and the device is
\* deleted again.
MountDisk ==
  /\ entry = "mount" /\ entry' = "callback"
  /\ \/ image' = TRUE /\ floppies' = floppies + 1 /\ UNCHANGED created
     \/ created' = created \ {"disk"} /\ UNCHANGED <<image, floppies>>
  /\ UNCHANGED <<callback, polling, portVars, inputVars, bus, packets, controls>>

SetCallback ==
  /\ entry = "callback" /\ entry' = "autopoll"
  /\ callback' = TRUE
  /\ UNCHANGED <<created, image, floppies, polling, portVars, inputVars, bus, packets, controls>>

Autopoll ==
  /\ entry = "autopoll" /\ entry' = "up"
  /\ polling' = TRUE
  /\ UNCHANGED <<created, image, floppies, callback, portVars, inputVars, bus, packets, controls>>

-----------------------------------------------------------------------------
(* Packets. *)

Listening(port) == enabled[port] /\ service[port]

\* What the keyboard class makes of an event: the keys it takes to be down.
Apply(down, event) == IF event.up THEN down \ {event.make} ELSE down \cup {event.make}

Event(byte) == [make |-> AdbToSet1[byte % 128], up |-> byte >= 128]
IsKey(byte) == byte # NoKey /\ byte % 128 # PowerKey /\ AdbToSet1[byte % 128] # 0

\* Mutant: only the first of the two keys of a packet is looked at.
KeyBytesFirst(data) == SubSeq(data, 1, 1)

KeyBytes(data) == SubSeq(data, 1, 2)

\* What the keyboard class makes of byte n, if there is one and it is a key's.
Given(down, bytes, n) ==
  IF n <= Len(bytes) /\ IsKey(bytes[n]) THEN Apply(down, Event(bytes[n])) ELSE down

\* The keys of the first two bytes, in their order, each to the class driver.
AdbKeyboardPacket(data) ==
  LET bytes == KeyBytes(data)
      keys  == {n \in 1 .. Len(bytes) : IsKey(bytes[n])}
  IN  /\ IF Listening("keyboard")
           THEN /\ class' = [class EXCEPT !.keys = Given(Given(@, bytes, 1), bytes, 2)]
                /\ UNCHANGED missed
           ELSE /\ missed' = IF keys = {} THEN missed ELSE missed \cup {"keyboard"}
                /\ UNCHANGED class
      /\ UNCHANGED buttons

\* Mutant: the sign is not extended.
Sign7Unsigned(v) == v % 128

Sign7(v) == IF v % 128 >= 64 THEN (v % 128) - 128 ELSE v % 128

Levels(data) ==
  {b \in Buttons : IF b = "left" THEN data[1] < 128 ELSE data[2] < 128}

\* Mutant: without a movement nothing is passed on.
NothingNewStill(now, data) == Sign7(data[1]) = 0 /\ Sign7(data[2]) = 0

NothingNew(now, data) == now = buttons /\ Sign7(data[1]) = 0 /\ Sign7(data[2]) = 0

\* Mutant: while nobody listens AdbButtons is left alone.
AdbPointerPacketUnheard(data) ==
  LET now == Levels(data)
  IN  IF Len(data) < 2 \/ NothingNew(now, data) THEN UNCHANGED inputVars
      ELSE IF Listening("pointer")
        THEN /\ buttons' = now /\ UNCHANGED missed
             /\ class' = [class EXCEPT !.buttons = (@ \cup (now \ buttons)) \ (buttons \ now),
                                       !.y = @ + Sign7(data[1]), !.x = @ + Sign7(data[2])]
        ELSE missed' = missed \cup {"pointer"} /\ UNCHANGED <<buttons, class>>

\* Button levels become edges; a packet with neither an edge nor a movement
\* is not passed on.
AdbPointerPacket(data) ==
  LET now == Levels(data)
  IN  IF Len(data) < 2 THEN UNCHANGED inputVars
      ELSE /\ buttons' = now
           /\ IF NothingNew(now, data) THEN UNCHANGED <<class, missed>>
              ELSE IF Listening("pointer")
                THEN /\ class' = [class EXCEPT !.buttons = (@ \cup (now \ buttons)) \ (buttons \ now),
                                               !.y = @ + Sign7(data[1]), !.x = @ + Sign7(data[2])]
                     /\ UNCHANGED missed
                ELSE missed' = missed \cup {"pointer"} /\ UNCHANGED class

\* Talk Register 0 of the keyboard or of the mouse; the rest is ignored.
AdbPacket(address, cmd, reg, data) ==
  LET input == cmd = 3 /\ reg = 0 /\ data # <<>>
  IN  IF input /\ address = 2 /\ "keyboard" \in created THEN AdbKeyboardPacket(data)
      ELSE IF input /\ address = 3 /\ "pointer" \in created THEN AdbPointerPacket(data)
      ELSE UNCHANGED inputVars

\* The HAL delivers a packet, or its ring was full and it is gone.
Poll(address, reg, data, port) ==
  /\ callback /\ polling
  /\ packets < MaxPackets /\ packets' = packets + 1
  /\ \/ AdbPacket(address, 3, reg, data)
     \/ missed' = missed \cup {port, "ring"} /\ UNCHANGED <<buttons, class>>
  /\ UNCHANGED <<entryVars, portVars, controls>>

Toggle(down, key) == IF key \in down THEN down \ {key} ELSE down \cup {key}
ByteOf(key) == IF key \in bus.keys THEN 128 + key ELSE key

\* One key goes down or up, or two, or the power key.
Type ==
  \/ \E k \in Keys : /\ Poll(2, 0, <<ByteOf(k), NoKey>>, "keyboard")
                     /\ bus' = [bus EXCEPT !.keys = Toggle(@, k)]
  \/ \E k, l \in Keys : /\ k # l
                        /\ Poll(2, 0, <<ByteOf(k), ByteOf(l)>>, "keyboard")
                        /\ bus' = [bus EXCEPT !.keys = Toggle(Toggle(@, k), l)]
  \/ Poll(2, 0, <<PowerKey, PowerKey>>, "keyboard") /\ UNCHANGED bus

MouseByte(up, delta) == (IF up THEN 128 ELSE 0) + (delta % 128)

Point ==
  \E down \in SUBSET Buttons, dx, dy \in Deltas :
    /\ Poll(3, 0, <<MouseByte("left" \notin down, dy), MouseByte("right" \notin down, dx)>>, "pointer")
    /\ bus' = [bus EXCEPT !.buttons = down, !.x = @ + dx, !.y = @ + dy]

\* A device answers for another of its registers, or with one byte only.
Answer ==
  /\ \/ \E k \in Keys : Poll(2, 3, <<k, NoKey>>, "keyboard")
     \/ Poll(3, 3, <<3, 3>>, "pointer")
     \/ Poll(3, 0, <<3>>, "pointer")
  /\ UNCHANGED bus

-----------------------------------------------------------------------------
(* Control requests of the class drivers. *)

Control(port) ==
  /\ entry = "up"
  /\ controls < MaxControls /\ controls' = controls + 1
  /\ UNCHANGED <<entryVars, inputVars, bus, packets>>

Connect(port) ==
  /\ Control(port)
  /\ service' = [service EXCEPT ![port] = TRUE]
  /\ UNCHANGED enabled

Disconnect(port) ==
  /\ Control(port)
  /\ service' = [service EXCEPT ![port] = FALSE]
  /\ enabled' = [enabled EXCEPT ![port] = FALSE]

Enable(port, on) ==
  /\ Control(port)
  /\ enabled' = [enabled EXCEPT ![port] = on]
  /\ UNCHANGED service

Next ==
  \/ CreatePort("keyboard", "pointer") \/ CreatePort("pointer", "disk")
  \/ CreateDisk \/ MountDisk \/ SetCallback \/ Autopoll
  \/ Type \/ Point \/ Answer
  \/ \E port \in Ports : Connect(port) \/ Disconnect(port) \/ \E on \in BOOLEAN : Enable(port, on)

Spec == Init /\ [][Next]_vars

-----------------------------------------------------------------------------
(* Properties. *)

\* A key that is down, as the keyboard class would see it.
MakesOf(keys) == {AdbToSet1[k] : k \in keys} \ {0}
Alone(k) == \A l \in Keys \ {k} : AdbToSet1[l] # AdbToSet1[k]

TypeOK ==
  /\ entry \in {"keyboard", "pointer", "disk", "mount", "callback", "autopoll", "up", "failed"}
  /\ created \subseteq Ports \cup {"disk"} /\ missed \subseteq Ports \cup {"ring"}
  /\ {image, callback, polling} \subseteq BOOLEAN /\ floppies \in 0 .. 1
  /\ service \in [Ports -> BOOLEAN] /\ enabled \in [Ports -> BOOLEAN]
  /\ buttons \subseteq Buttons
  /\ class.keys \subseteq MakesOf(Keys) /\ class.buttons \subseteq Buttons
  /\ class.x \in -64 * MaxPackets .. 63 * MaxPackets
  /\ class.y \in -64 * MaxPackets .. 63 * MaxPackets

\* As long as the keyboard class was given every event, no key is stuck and
\* none is lost: a key with a make code of its own is down for the class when
\* it is down on the bus, and with all keys up the class has none down, those
\* included that share a make code (kbd.c:58-72).
KeysAgree ==
  "keyboard" \notin missed =>
    /\ \A k \in Keys : Alone(k) /\ AdbToSet1[k] # 0 => (AdbToSet1[k] \in class.keys <=> k \in bus.keys)
    /\ bus.keys = {} => class.keys = {}

\* As long as the mouse class was given every event, the buttons and the
\* position it has added up are the mouse's own; and whether or not anybody
\* listens, AdbButtons is the level of the last packet, so that the first edge
\* after a port is enabled is a real one (mouse.c:20-45).
PointerAgrees ==
  /\ "ring" \notin missed => buttons = bus.buttons
  /\ "pointer" \notin missed => /\ class.buttons = bus.buttons
                              /\ class.x = bus.x /\ class.y = bus.y

\* The floppy IoAssignDriveLetters will count is there and has its image,
\* whichever step of DriverEntry failed (adbport.c:150-165).
FloppyIsThere ==
  entry \in {"up", "failed", "callback", "autopoll"} =>
    /\ floppies = 1 <=> "disk" \in created
    /\ "disk" \in created => image
=============================================================================
