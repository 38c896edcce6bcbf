--------------------------- MODULE AuxBoardProofs ----------------------------
(***************************************************************************)
(* The pins as an implementation of PinOverlay, under any caller and under *)
(* the packet loop; the host's picture of them and the answers it gets,    *)
(* for any masks, durations, ids and number of requests under way.         *)
(***************************************************************************)
EXTENDS AuxBoard, SequenceTheorems, TLAPS

(* A pulse only adds its pins to the directions and takes them from the    *)
(* outputs, so that what it replaced can be told from the rest.            *)
PulseAdds ==
  Pulsing => /\ directions = pulse.oldDirections \cup pulse.pins
             /\ outputs = pulse.oldOutputs \ pulse.pins

DriversShow == low = {pin \in SwitchPins : pin \in directions /\ pin \notin outputs}

GpioIInv == GpioTypeOK /\ PulseAdds /\ DriversShow

(* GpioNext for pulses of any duration: a request that carries a byte too  *)
(* many is served with what it carries.                                    *)
PinStep ==
  \/ \E mask, bits \in SUBSET Bits : SetDirection(mask, bits) \/ SetOutput(mask, bits)
  \/ \E mask \in SUBSET Bits, duration \in Nat : StartPulseLow(mask, duration)
  \/ FinishPulseIfDue
  \/ GpioTick

LEMMA GpioNextIsPinStep == GpioNext => PinStep
BY DurationsAssumption DEF GpioNext, PinStep

(* finish_pulse gives back exactly what start_pulse_low found.             *)
LEMMA RestoreInverts ==
  ASSUME GpioIInv
  PROVE  /\ RestoredDirections = IF Pulsing THEN pulse.oldDirections ELSE directions
         /\ RestoredOutputs = IF Pulsing THEN pulse.oldOutputs ELSE outputs
         /\ RestoredDirections \in SUBSET Bits
         /\ RestoredOutputs \in SUBSET Bits
         /\ pulse.pins \subseteq SwitchPins
<1>1. CASE Pulsing
  <2>1. pulse \in Pulses
    BY <1>1 DEF GpioIInv, GpioTypeOK, Pulsing, NoPulse
  <2>2. /\ pulse.pins \subseteq SwitchPins
        /\ pulse.oldDirections \in SUBSET Bits /\ pulse.oldOutputs \in SUBSET Bits
    BY <2>1 DEF Pulses
  <2>3. Masked(directions, pulse.pins, pulse.oldDirections) = pulse.oldDirections
    BY <1>1 DEF GpioIInv, PulseAdds, Masked
  <2>4. Masked(outputs, pulse.pins, pulse.oldOutputs) = pulse.oldOutputs
    BY <1>1 DEF GpioIInv, PulseAdds, Masked
  <2> QED BY <1>1, <2>2, <2>3, <2>4 DEF RestoredDirections, RestoredOutputs
<1>2. CASE ~Pulsing
  <2>1. pulse = NoPulse
    BY <1>2 DEF GpioIInv, GpioTypeOK, Pulsing, Pulses
  <2>2. pulse.pins = {}
    BY <2>1 DEF NoPulse
  <2> QED BY <1>2, <2>2 DEF GpioIInv, GpioTypeOK, RestoredDirections, RestoredOutputs
<1> QED BY <1>1, <1>2

LEMMA MaskedBits ==
  ASSUME NEW old \in SUBSET Bits, NEW mask \in SUBSET Bits, NEW new \in SUBSET Bits
  PROVE  Masked(old, mask, new) \in SUBSET Bits
BY DEF Masked

LEMMA GpioInitially == GpioInit => GpioIInv
<1> SUFFICES ASSUME GpioInit PROVE GpioIInv
  OBVIOUS
<1>1. GpioTypeOK
  BY DEF GpioInit, GpioTypeOK, Bits
<1>2. ~Pulsing
  BY DEF GpioInit, Pulsing, NoPulse
<1>3. DriversShow
  BY DEF GpioInit, DriversShow
<1> QED BY <1>1, <1>2, <1>3 DEF GpioIInv, PulseAdds

(* After any configuration with the pulse over, GpioIInv holds.                *)
LEMMA WithoutPulse ==
  ASSUME outputs' \in SUBSET Bits, directions' \in SUBSET Bits,
         pulse' = NoPulse, ApplyOutputs
  PROVE  GpioIInv'
<1>1. ~Pulsing'
  BY DEF Pulsing, NoPulse
<1>2. low' \in SUBSET SwitchPins
  BY DEF ApplyOutputs
<1> QED BY <1>1, <1>2 DEF GpioIInv, GpioTypeOK, PulseAdds, DriversShow, ApplyOutputs

LEMMA PulsePreserves ==
  ASSUME GpioIInv, NEW mask \in SUBSET Bits, NEW duration \in Nat,
         StartPulseLow(mask, duration)
  PROVE  GpioIInv'
<1> DEFINE pins == PulsedPins(mask)
<1>1. pulse' = [pins |-> pins, left |-> duration,
                oldDirections |-> RestoredDirections, oldOutputs |-> RestoredOutputs]
  BY DEF StartPulseLow
<1>2. directions' = RestoredDirections \cup pins /\ outputs' = RestoredOutputs \ pins
  BY DEF StartPulseLow
<1>3. pins \in SUBSET SwitchPins /\ duration \in Nat
  BY DEF PulsedPins
<1>4. RestoredDirections \in SUBSET Bits /\ RestoredOutputs \in SUBSET Bits
  BY RestoreInverts
<1> HIDE DEF pins
<1>5. pulse' \in Pulses
  BY <1>1, <1>3, <1>4 DEF Pulses
<1>6. directions' \in SUBSET Bits /\ outputs' \in SUBSET Bits
  BY <1>2, <1>3, <1>4 DEF Bits
<1>7. PulseAdds'
  BY <1>1, <1>2 DEF PulseAdds
<1>8. DriversShow' /\ low' \in SUBSET SwitchPins
  BY DEF StartPulseLow, ApplyOutputs, DriversShow
<1> QED BY <1>5, <1>6, <1>7, <1>8 DEF GpioIInv, GpioTypeOK

LEMMA GpioTickPreserves ==
  ASSUME GpioIInv, GpioTick
  PROVE  GpioIInv' /\ pulse'.pins = pulse.pins /\ pulse'.oldDirections = pulse.oldDirections
         /\ pulse'.oldOutputs = pulse.oldOutputs /\ Pulsing /\ Pulsing'
<1>1. pulse.left > 0 /\ pulse' = [pulse EXCEPT !.left = @ - 1]
  BY DEF GpioTick
<1>2. pulse \in Pulses
  BY <1>1 DEF GpioIInv, GpioTypeOK, NoPulse
<1>3. /\ pulse' \in Pulses
      /\ pulse'.pins = pulse.pins /\ pulse'.oldDirections = pulse.oldDirections
      /\ pulse'.oldOutputs = pulse.oldOutputs
  BY <1>1, <1>2 DEF Pulses
<1>4. Pulsing /\ Pulsing'
  BY <1>2, <1>3 DEF Pulses, Pulsing
<1>5. UNCHANGED <<outputs, directions, low>>
  BY DEF GpioTick
<1> QED BY <1>3, <1>4, <1>5 DEF GpioIInv, GpioTypeOK, PulseAdds, DriversShow

LEMMA GpioInductive == GpioIInv /\ [PinStep]_gpioVars => GpioIInv'
<1> SUFFICES ASSUME GpioIInv, [PinStep]_gpioVars PROVE GpioIInv'
  OBVIOUS
<1>0. RestoredDirections \in SUBSET Bits /\ RestoredOutputs \in SUBSET Bits
  BY RestoreInverts
<1>1. ASSUME NEW mask \in SUBSET Bits, NEW bits \in SUBSET Bits, SetDirection(mask, bits)
      PROVE  GpioIInv'
  BY <1>0, <1>1, MaskedBits, WithoutPulse DEF SetDirection
<1>2. ASSUME NEW mask \in SUBSET Bits, NEW bits \in SUBSET Bits, SetOutput(mask, bits)
      PROVE  GpioIInv'
  BY <1>0, <1>2, MaskedBits, WithoutPulse DEF SetOutput
<1>3. ASSUME NEW mask \in SUBSET Bits, NEW duration \in Nat,
             StartPulseLow(mask, duration)
      PROVE  GpioIInv'
  BY <1>3, PulsePreserves
<1>4. CASE FinishPulseIfDue
  BY <1>0, <1>4, WithoutPulse DEF FinishPulseIfDue
<1>5. CASE GpioTick
  BY <1>5, GpioTickPreserves
<1>6. CASE UNCHANGED gpioVars
  BY <1>6 DEF gpioVars, GpioIInv, GpioTypeOK, PulseAdds, DriversShow, Pulsing
<1> QED BY <1>1, <1>2, <1>3, <1>4, <1>5, <1>6 DEF PinStep

(* The settings stay sets of bits, a pulse covers switch pins only, and    *)
(* only switch pins are driven.                                            *)
THEOREM GpioTypeCorrect == GpioSpec => []GpioTypeOK
<1>1. GpioIInv => GpioTypeOK
  BY DEF GpioIInv
<1> QED BY <1>1, GpioInitially, GpioInductive, GpioNextIsPinStep, PTL DEF GpioSpec

-----------------------------------------------------------------------------
LEMMA GpioInitRefines == GpioInit => Overlay!Init
<1> SUFFICES ASSUME GpioInit PROVE Overlay!Init
  OBVIOUS
<1>1. ~Pulsing /\ pulse.pins = {}
  BY DEF GpioInit, Pulsing, NoPulse
<1> QED BY <1>1 DEF GpioInit, Overlay!Init, RestoredDirections, RestoredOutputs

(* With the pulse over, the drivers show the configuration.                *)
LEMMA ShowsConfiguration ==
  ASSUME pulse' = NoPulse, ApplyOutputs
  PROVE  /\ RestoredDirections' = directions' /\ RestoredOutputs' = outputs'
         /\ pulse'.pins = {}
         /\ Overlay!Show
<1>1. ~Pulsing' /\ pulse'.pins = {}
  BY DEF Pulsing, NoPulse
<1>2. RestoredDirections' = directions' /\ RestoredOutputs' = outputs'
  BY <1>1 DEF RestoredDirections, RestoredOutputs
<1> QED BY <1>1, <1>2 DEF Overlay!Show, ApplyOutputs

LEMMA GpioStepRefines == GpioIInv /\ GpioIInv' /\ [PinStep]_gpioVars => [Overlay!Next]_(Overlay!vars)
<1> SUFFICES ASSUME GpioIInv, GpioIInv', [PinStep]_gpioVars PROVE [Overlay!Next]_(Overlay!vars)
  OBVIOUS
<1>1. ASSUME NEW mask \in SUBSET Bits, NEW bits \in SUBSET Bits, SetDirection(mask, bits)
      PROVE  Overlay!Configure(mask, bits)
  <2>1. /\ RestoredDirections' = directions' /\ RestoredOutputs' = outputs'
        /\ pulse'.pins = {} /\ Overlay!Show
    BY <1>1, ShowsConfiguration DEF SetDirection
  <2> QED BY <1>1, <2>1 DEF SetDirection, Overlay!Configure, Overlay!Masked, Masked
<1>2. ASSUME NEW mask \in SUBSET Bits, NEW bits \in SUBSET Bits, SetOutput(mask, bits)
      PROVE  Overlay!Configure(mask, bits)
  <2>1. /\ RestoredDirections' = directions' /\ RestoredOutputs' = outputs'
        /\ pulse'.pins = {} /\ Overlay!Show
    BY <1>2, ShowsConfiguration DEF SetOutput
  <2> QED BY <1>2, <2>1 DEF SetOutput, Overlay!Configure, Overlay!Masked, Masked
<1>3. ASSUME NEW mask \in SUBSET Bits, NEW duration \in Nat,
             StartPulseLow(mask, duration)
      PROVE  Overlay!Pulse(mask)
  <2> DEFINE pins == PulsedPins(mask)
  <2>1. /\ pulse' = [pins |-> pins, left |-> duration,
                     oldDirections |-> RestoredDirections, oldOutputs |-> RestoredOutputs]
        /\ directions' = RestoredDirections \cup pins /\ outputs' = RestoredOutputs \ pins
        /\ ApplyOutputs
    BY <1>3 DEF StartPulseLow
  <2>2. duration # -1
    OBVIOUS
  <2>3. Pulsing'
    BY <2>1, <2>2 DEF Pulsing
  <2>4. (GpioIInv => /\ RestoredDirections = IF Pulsing THEN pulse.oldDirections ELSE directions
                 /\ RestoredOutputs = IF Pulsing THEN pulse.oldOutputs ELSE outputs)'
    BY RestoreInverts, PTL
  <2>5. RestoredDirections' = RestoredDirections /\ RestoredOutputs' = RestoredOutputs
    BY <2>1, <2>3, <2>4
  <2>6. pulse'.pins = mask \cap SwitchPins
    BY <2>1 DEF PulsedPins
  <2>7. low' = pulse'.pins \cup ((RestoredDirections' \ RestoredOutputs') \cap SwitchPins)
    BY <2>1, <2>5, <2>6 DEF ApplyOutputs
  <2> QED BY <2>5, <2>6, <2>7 DEF Overlay!Pulse, Overlay!Show
<1>4. CASE FinishPulseIfDue
  <2>1. /\ RestoredDirections' = directions' /\ RestoredOutputs' = outputs'
        /\ pulse'.pins = {} /\ Overlay!Show
    BY <1>4, ShowsConfiguration DEF FinishPulseIfDue
  <2>2. Overlay!Expire
    BY <1>4, <2>1 DEF FinishPulseIfDue, Overlay!Expire
  <2> QED BY <2>2 DEF Overlay!Next
<1>5. CASE GpioTick
  <2>1. /\ pulse'.pins = pulse.pins /\ pulse'.oldDirections = pulse.oldDirections
        /\ pulse'.oldOutputs = pulse.oldOutputs /\ Pulsing /\ Pulsing'
    BY <1>5, GpioTickPreserves
  <2> QED BY <1>5, <2>1 DEF GpioTick, Overlay!vars, RestoredDirections, RestoredOutputs
<1>6. CASE UNCHANGED gpioVars
  BY <1>6 DEF gpioVars, Overlay!vars, RestoredDirections, RestoredOutputs, Pulsing
<1>7. Overlay!Bits = Bits
  BY DEF Overlay!Bits, Bits
<1> QED BY <1>1, <1>2, <1>3, <1>4, <1>5, <1>6, <1>7 DEF PinStep, Overlay!Next

(* Pulses are overlays: however they and the requests follow each other,   *)
(* the host's configuration survives them and shows again when they end.   *)
THEOREM GpioRefinement == GpioSpec => OverlaySpec
<1> QED BY GpioInitially, GpioInductive, GpioInitRefines, GpioStepRefines, GpioNextIsPinStep, PTL
        DEF GpioSpec, OverlaySpec, Overlay!Spec

-----------------------------------------------------------------------------
(* The packet loop. *)

Entries ==
  {Silent} \cup
  UNION {{Request(cmd, id, form[1], form[2]) : form \in Forms(cmd), id \in 1 .. MaxId} :
         cmd \in DOMAIN Length}

OutPending == out # NoPacket /\ Payload(out)
Responding == pc = "write" /\ packet.kind = "response"
Telling == pc = "write" /\ packet.state.told
Effective(r) == Status(r) = "ok" /\ r.cmd \in GpioCommands

(* A request that can have changed no pin. *)
Clean(r) == r.id # 0 /\ ~Effective(r)

Session == ~enabled => sent = <<>> /\ out = NoPacket /\ ~report.told

(* The packet in EP3 is the last request of the host.                      *)
OutIsLast ==
  OutPending =>
    /\ sent # <<>>
    /\ out.id = 0 => sent[Len(sent)] = Silent
    /\ out.id # 0 => /\ sent[Len(sent)] = out /\ out.id \in 1 .. MaxId
                     /\ After(out.id) = nextId

PacketTells == Telling => packet.state = State(outputs, directions)

(* The response that is written belongs to the oldest request that waits.  *)
Mine(k) ==
  /\ sent[k].id = packet.id
  /\ Shows(packet, sent[k])
  /\ packet.state.told <=> Effective(sent[k])
  /\ \A j \in DOMAIN sent : j < k => sent[j].id = 0
  /\ \A j \in DOMAIN sent : sent[j].id = packet.id => j = k

Written ==
  Responding /\ enabled =>
    /\ packet.id \in 1 .. MaxId
    /\ After(packet.id) = IF OutPending /\ out.id # 0 THEN out.id ELSE nextId
    /\ \E k \in DOMAIN sent : Mine(k)

OnlyWaiting ==
  \A j \in DOMAIN sent : sent[j].id # 0 =>
    \/ j = Len(sent) /\ OutPending
    \/ Responding /\ sent[j].id = packet.id

(* The host knows the pins, or has a request under way that may change     *)
(* them, or is being told.                                                 *)
View ==
  report.told /\ (\A i \in DOMAIN sent : Clean(sent[i])) /\ ~Telling
    => report = State(outputs, directions)

IInv ==
  /\ TypeOK /\ sent \in Seq(Entries)
  /\ Session /\ OutIsLast /\ PacketTells /\ Written /\ OnlyWaiting /\ View

-----------------------------------------------------------------------------
LEMMA AfterDiffers == \A id \in 1 .. MaxId : After(id) # id /\ After(id) \in 1 .. MaxId
BY BoardAssumption DEF After

LEMMA IsRequest ==
  ASSUME NEW cmd \in DOMAIN Length, NEW id, NEW form \in Forms(cmd)
  PROVE  LET r == Request(cmd, id, form[1], form[2])
         IN  r # NoPacket /\ r.id = id
<1> DEFINE r == Request(cmd, id, form[1], form[2])
<1> SUFFICES r # NoPacket /\ r.id = id
  OBVIOUS
<1>1. r.cmd = cmd /\ r.id = id
  BY DEF Request
<1>2. cmd # "none" /\ NoPacket.cmd = "none"
  BY DEF Length, NoPacket
<1> HIDE DEF r
<1> QED BY <1>1, <1>2

LEMMA SilentId == Silent.id = 0
BY DEF Silent

LEMMA InitHolds == Init => IInv
<1> SUFFICES ASSUME Init PROVE IInv
  OBVIOUS
<1>1. sent = <<>> /\ sent \in Seq(Entries) /\ Len(sent) = 0 /\ DOMAIN sent = {}
  BY DEF Init
<1>6. nextId \in 1 .. MaxId
  BY BoardAssumption DEF Init
<1>7. Len(sent) <= MaxSent
  BY <1>1, BoardAssumption
<1>2. enabled \in BOOLEAN /\ pc = "wait_enabled" /\ nextId \in 1 .. MaxId /\ Len(sent) <= MaxSent
  BY <1>6, <1>7 DEF Init
<1>3. ~report.told /\ pc # "write" /\ out = NoPacket
  BY DEF Init, NoState
<1>5. TypeOK
  BY <1>2 DEF TypeOK
<1>4. Session /\ OutIsLast /\ PacketTells /\ Written /\ OnlyWaiting /\ View
  BY <1>1, <1>3 DEF Session, OutIsLast, PacketTells, Written, OnlyWaiting, View, OutPending,
     Responding, Telling
<1> QED BY <1>1, <1>4, <1>5 DEF IInv

(* A step that keeps the pins, the host and EP3, and does not write.       *)
LEMMA QuietKeeps ==
  ASSUME IInv, pc # "write" \/ ~enabled,
         UNCHANGED <<outputs, directions, enabled, out, nextId, sent, report>>,
         pc' \in {"wait_enabled", "select4"}
  PROVE  IInv'
<1> USE DEF IInv
<1>1. TypeOK' /\ sent' \in Seq(Entries) /\ Session' /\ OutIsLast'
  BY DEF TypeOK, Session, OutIsLast, OutPending
<1>2. ~Responding' /\ ~Telling'
  BY DEF Responding, Telling
<1>3. PacketTells' /\ Written'
  BY <1>2 DEF PacketTells, Written
<1>4. OnlyWaiting'
  <2>1. CASE pc # "write"
    BY <2>1 DEF OnlyWaiting, Responding, OutPending
  <2>2. CASE ~enabled
    <3>1. DOMAIN sent = {}
      BY <2>2 DEF Session
    <3> QED BY <3>1 DEF OnlyWaiting
  <2> QED BY <2>1, <2>2
<1>5. View'
  <2>1. CASE pc # "write"
    BY <2>1, <1>2 DEF View, Telling
  <2>2. CASE ~enabled
    BY <2>2 DEF View, Session
  <2> QED BY <2>1, <2>2
<1> QED BY <1>1, <1>3, <1>4, <1>5

(* A write that is no response begins.                                     *)
LEMMA EventKeeps ==
  ASSUME IInv, pc = "select4", pc' = "write",
         UNCHANGED <<enabled, out, nextId, sent, report>>,
         packet'.kind # "response", packet'.id = 0,
         \/ packet'.state = State(outputs', directions')
         \/ ~packet'.state.told /\ UNCHANGED <<outputs, directions>>
  PROVE  IInv'
<1> USE DEF IInv
<1>1. TypeOK' /\ sent' \in Seq(Entries) /\ Session' /\ OutIsLast'
  BY DEF TypeOK, Session, OutIsLast, OutPending
<1>2. ~Responding' /\ ~Responding
  BY DEF Responding
<1>3. Written'
  BY <1>2 DEF Written
<1>4. PacketTells'
  BY DEF PacketTells, Telling
<1>5. OnlyWaiting'
  BY <1>2 DEF OnlyWaiting, OutPending
<1>6. View'
  <2>1. CASE packet'.state = State(outputs', directions')
    <3>1. Telling'
      BY <2>1 DEF Telling, State
    <3> QED BY <3>1 DEF View
  <2>2. CASE ~packet'.state.told /\ UNCHANGED <<outputs, directions>>
    BY <2>2 DEF View, Telling
  <2> QED BY <2>1, <2>2
<1> QED BY <1>1, <1>3, <1>4, <1>5, <1>6

-----------------------------------------------------------------------------
(* What a valid request leaves behind is what its answer shows.            *)
LEMMA PerformShows ==
  ASSUME Perform(out), Respond(out), out.id # 0
  PROVE  /\ pc' = "write" /\ packet'.kind = "response" /\ packet'.id = out.id
         /\ packet'.state.told <=> Effective(out)
         /\ packet'.state.told => packet'.state = State(outputs', directions')
         /\ Shows(packet', out)
<1> DEFINE st == IF out.cmd \in GpioCommands /\ Status(out) = "ok"
                 THEN State(outputs', directions') ELSE NoState
<1>1. pc' = "write" /\ packet' = Packet("response", out.id, out.cmd, Status(out), st)
  BY DEF Respond, WritePacket
<1>2. /\ packet'.kind = "response" /\ packet'.id = out.id /\ packet'.cmd = out.cmd
      /\ packet'.status = Status(out) /\ packet'.state = st
  BY <1>1 DEF Packet
<1>3. /\ st.told <=> Effective(out)
      /\ Effective(out) => st = State(outputs', directions')
  BY DEF State, NoState, Effective
<1>4. Status(out) = "ok" <=> (out.cmd # "unknown" /\ out.promised = Length[out.cmd])
  BY DEF Status
<1>5. ASSUME Status(out) = "ok", out.cmd = "set_direction"
      PROVE  packet'.state.directions \cap out.mask = out.bits \cap out.mask
  <2>1. directions' = (RestoredDirections \ out.mask) \cup (out.bits \cap out.mask)
    BY <1>5 DEF Perform, SetDirection, Masked
  <2>2. packet'.state.directions = directions'
    BY <1>2, <1>5 DEF State, GpioCommands
  <2> QED BY <2>1, <2>2
<1>6. ASSUME Status(out) = "ok", out.cmd = "set_output"
      PROVE  packet'.state.outputs \cap out.mask = out.bits \cap out.mask
  <2>1. outputs' = (RestoredOutputs \ out.mask) \cup (out.bits \cap out.mask)
    BY <1>6 DEF Perform, SetOutput, Masked
  <2>2. packet'.state.outputs = outputs'
    BY <1>2, <1>6 DEF State, GpioCommands
  <2> QED BY <2>1, <2>2
<1>7. ASSUME Status(out) = "ok", out.cmd = "pulse_low"
      PROVE  out.mask \cap SwitchPins \subseteq packet'.state.directions \ packet'.state.outputs
  <2>1. /\ directions' = RestoredDirections \cup (out.mask \cap SwitchPins)
        /\ outputs' = RestoredOutputs \ (out.mask \cap SwitchPins)
    BY <1>7 DEF Perform, StartPulseLow, PulsedPins
  <2>2. packet'.state.outputs = outputs' /\ packet'.state.directions = directions'
    BY <1>2, <1>7 DEF State, GpioCommands
  <2> QED BY <2>1, <2>2
<1>8. Shows(packet', out)
  BY <1>2, <1>4, <1>5, <1>6, <1>7 DEF Shows
<1> HIDE DEF st
<1> QED BY <1>1, <1>2, <1>3, <1>8

LEMMA HandleKeeps == IInv /\ HandlePacket => IInv'
<1> SUFFICES ASSUME IInv, HandlePacket PROVE IInv'
  OBVIOUS
<1> USE DEF IInv
<1>0. /\ pc = "select4" /\ out # NoPacket /\ out' = NoPacket
      /\ UNCHANGED <<enabled, nextId, sent, report>>
  BY DEF HandlePacket, hostVars
<1>1. ~Responding /\ ~Telling /\ ~OutPending'
  BY <1>0 DEF Responding, Telling, OutPending
<1>2. Session' /\ OutIsLast' /\ sent' \in Seq(Entries)
  BY <1>0, <1>1 DEF Session, OutIsLast
<1>3. CASE ~Payload(out)
  <2>1. pc' = "wait_enabled" /\ UNCHANGED <<outputs, directions, packet>>
    BY <1>3 DEF HandlePacket, gpioVars
  <2>2. \A j \in DOMAIN sent : sent[j].id = 0
    BY <1>1, <1>3 DEF OnlyWaiting, OutPending
  <2>3. ~Responding' /\ ~Telling'
    BY <2>1 DEF Responding, Telling
  <2>4. TypeOK'
    BY <1>0, <2>1 DEF TypeOK
  <2>5. PacketTells' /\ Written' /\ OnlyWaiting' /\ View'
    BY <1>0, <1>1, <2>1, <2>2, <2>3 DEF PacketTells, Written, OnlyWaiting, View
  <2> QED BY <1>2, <2>4, <2>5
<1>4. CASE Payload(out) /\ out.id = 0
  <2>1. pc' = "wait_enabled"
    BY <1>4 DEF HandlePacket, Respond
  <2>2. OutPending /\ sent # <<>> /\ sent[Len(sent)] = Silent
    BY <1>0, <1>4 DEF OutPending, OutIsLast
  <2>3. Len(sent) \in DOMAIN sent
    BY <2>2
  <2>4. \A j \in DOMAIN sent : sent[j].id = 0
    BY <1>1, <2>2, SilentId DEF OnlyWaiting
  <2>5. ~Responding' /\ ~Telling'
    BY <2>1 DEF Responding, Telling
  <2>6. TypeOK'
    BY <1>0, <2>1 DEF TypeOK
  <2>7. ~Clean(sent'[Len(sent)]) /\ Len(sent) \in DOMAIN sent'
    BY <1>0, <2>2, <2>3, SilentId DEF Clean
  <2>8. View'
    BY <2>7 DEF View
  <2>9. PacketTells' /\ Written' /\ OnlyWaiting'
    BY <1>0, <2>4, <2>5 DEF PacketTells, Written, OnlyWaiting
  <2> QED BY <1>2, <2>6, <2>8, <2>9
<1>5. CASE Payload(out) /\ out.id # 0
  <2> DEFINE k == Len(sent)
  <2>1. /\ pc' = "write" /\ packet'.kind = "response" /\ packet'.id = out.id
        /\ packet'.state.told <=> Effective(out)
        /\ packet'.state.told => packet'.state = State(outputs', directions')
        /\ Shows(packet', out)
    BY <1>5, PerformShows DEF HandlePacket
  <2>2. /\ OutPending /\ sent # <<>> /\ sent[k] = out /\ out.id \in 1 .. MaxId
        /\ After(out.id) = nextId
    BY <1>0, <1>5 DEF OutPending, OutIsLast
  <2>3. k \in DOMAIN sent
    BY <2>2
  <2>4. \A j \in DOMAIN sent : j # k => sent[j].id = 0
    BY <1>1 DEF OnlyWaiting
  <2>5. TypeOK'
    BY <1>0, <1>5, <2>1 DEF TypeOK
  <2>6. PacketTells'
    BY <2>1 DEF PacketTells, Telling
  <2>7. Mine(k)'
    <3>1. sent' = sent /\ packet'.id # 0
      BY <1>0, <1>5, <2>1
    <3>2. \A j \in DOMAIN sent' : j < k => sent'[j].id = 0
      BY <3>1, <2>3, <2>4
    <3>3. \A j \in DOMAIN sent' : sent'[j].id = packet'.id => j = k
      BY <3>1, <2>4
    <3>4. Shows(packet', sent'[k]) /\ sent'[k].id = packet'.id
      BY <3>1, <2>1, <2>2
    <3>5. packet'.state.told <=> Effective(sent'[k])
      BY <3>1, <2>1, <2>2
    <3>6. Mine(k)' <=> /\ sent'[k].id = packet'.id
                       /\ Shows(packet', sent'[k])
                       /\ packet'.state.told <=> Effective(sent'[k])
                       /\ \A j \in DOMAIN sent' : j < k => sent'[j].id = 0
                       /\ \A j \in DOMAIN sent' : sent'[j].id = packet'.id => j = k
      BY <3>1 DEF Mine, Shows, Effective, Status
    <3> QED BY <3>2, <3>3, <3>4, <3>5, <3>6
  <2>8. Written'
    BY <1>0, <1>1, <2>1, <2>2, <2>3, <2>7 DEF Written
  <2>9. OnlyWaiting'
    <3>1. Responding'
      BY <2>1 DEF Responding
    <3> QED BY <1>0, <2>1, <2>2, <2>4, <3>1 DEF OnlyWaiting
  <2>10. View'
    <3>1. CASE Effective(out)
      BY <3>1, <2>1 DEF View, Telling
    <3>2. CASE ~Effective(out)
      <4>1. UNCHANGED <<outputs, directions>>
        BY <1>5, <3>2 DEF HandlePacket, Perform, Effective, GpioCommands, gpioVars
      <4> QED BY <4>1, <1>0, <1>1, <2>1, <3>2 DEF View, Telling, Clean, Effective, Status
    <3> QED BY <3>1, <3>2
  <2> QED BY <1>2, <2>5, <2>6, <2>8, <2>9, <2>10
<1> QED BY <1>3, <1>4, <1>5

-----------------------------------------------------------------------------
LEMMA SendKeeps ==
  ASSUME IInv, NEW cmd \in DOMAIN Length, NEW form \in Forms(cmd), NEW respond \in BOOLEAN,
         Send(cmd, form[1], form[2], respond)
  PROVE  IInv'
<1> DEFINE id == IF respond THEN nextId ELSE 0
           r == Request(cmd, id, form[1], form[2])
           e == IF respond THEN r ELSE Silent
<1> USE DEF IInv
<1>0. /\ enabled /\ out = NoPacket /\ out' = r
      /\ UNCHANGED <<outputs, directions, enabled, pc, packet, report>>
  BY DEF Send, gpioVars
<1>1. nextId \in 1 .. MaxId /\ nextId # 0 /\ After(nextId) \in 1 .. MaxId
  BY AfterDiffers DEF TypeOK
<1>2. r # NoPacket /\ r.id = id
  BY IsRequest
<1>3. ~OutPending
  BY <1>0 DEF OutPending
<1>4. CASE ~Payload(r)
  <2>1. UNCHANGED <<sent, nextId>>
    BY <1>4 DEF Send
  <2>2. ~OutPending'
    BY <1>0, <1>4 DEF OutPending, Payload
  <2>3. TypeOK' /\ Session' /\ OutIsLast' /\ PacketTells' /\ OnlyWaiting' /\ View'
    BY <1>0, <1>3, <2>1, <2>2 DEF TypeOK, Session, OutIsLast, PacketTells, OnlyWaiting, View,
       Telling, Responding, Clean, Effective, Status
  <2>4. Written'
    BY <1>0, <1>3, <2>1, <2>2 DEF Written, Responding, Mine, Shows, Effective, Status
  <2> QED BY <2>1, <2>3, <2>4
<1>5. CASE Payload(r)
  <2> DEFINE n == Len(sent)
  <2>1. /\ n < MaxSent /\ sent' = Append(sent, e)
        /\ nextId' = IF respond THEN After(nextId) ELSE nextId
    BY <1>5 DEF Send
  <2>2. e \in Entries
    BY <1>1 DEF Entries
  <2>3. /\ sent' \in Seq(Entries) /\ Len(sent') = n + 1 /\ sent'[n + 1] = e
        /\ \A j \in DOMAIN sent : sent'[j] = sent[j] /\ j \in DOMAIN sent' /\ j # n + 1
        /\ \A j \in DOMAIN sent' : j \in DOMAIN sent \/ j = n + 1
        /\ n + 1 \in DOMAIN sent' /\ sent' # <<>> /\ n \in Nat
    <3> HIDE DEF e
    <3>1. n \in Nat /\ DOMAIN sent = 1 .. n
      OBVIOUS
    <3>2. sent' \in Seq(Entries) /\ Len(sent') = n + 1 /\ DOMAIN sent' = 1 .. n + 1
      BY <2>1, <2>2
    <3>3. sent'[n + 1] = e /\ \A j \in DOMAIN sent : sent'[j] = sent[j]
      BY <2>1, <3>1
    <3> QED BY <3>1, <3>2, <3>3
  <2>4. OutPending'
    BY <1>0, <1>2, <1>5 DEF OutPending, Payload
  <2>5. e.id = id /\ (~respond => e = Silent) /\ (respond => e = r)
    BY <1>2, SilentId
  <2> HIDE DEF e
  <2>6. TypeOK'
    <3>1. n + 1 <= MaxSent
      BY <2>1, <2>3, BoardAssumption
    <3> QED BY <1>0, <1>1, <2>1, <2>3, <3>1 DEF TypeOK
  <2>7. OutIsLast'
    <3>1. CASE respond
      <4>1. out'.id = nextId /\ out' = e
        BY <1>0, <1>2, <2>5, <3>1
      <4> QED BY <1>1, <2>1, <2>3, <3>1, <4>1 DEF OutIsLast, After
    <3>2. CASE ~respond
      <4>1. out'.id = 0 /\ e = Silent
        BY <1>0, <1>2, <2>5, <3>2
      <4> QED BY <2>3, <4>1 DEF OutIsLast
    <3> QED BY <3>1, <3>2
  <2>8. Session' /\ PacketTells'
    BY <1>0 DEF Session, PacketTells, Telling
  <2>9. OnlyWaiting'
    BY <1>0, <1>3, <2>3, <2>4 DEF OnlyWaiting, Responding
  <2>10. Written'
    <3> SUFFICES ASSUME Responding' PROVE Written'
      BY DEF Written
    <3>1. Responding
      BY <1>0 DEF Responding
    <3>2. /\ packet.id \in 1 .. MaxId /\ After(packet.id) = nextId
      BY <1>0, <1>3, <3>1 DEF Written
    <3>3. PICK k \in DOMAIN sent : Mine(k)
      BY <1>0, <3>1 DEF Written
    <3>4. out'.id = id /\ id # packet.id
      BY <1>0, <1>1, <1>2, <3>2, AfterDiffers
    <3>5. /\ sent'[k].id = packet'.id /\ Shows(packet', sent'[k])
          /\ packet'.state.told <=> Effective(sent'[k])
      BY <1>0, <2>3, <3>3 DEF Mine
    <3>6. \A j \in DOMAIN sent' : j < k => sent'[j].id = 0
      <4>1. k < n + 1
        BY <2>3
      <4> QED BY <2>3, <3>3, <4>1 DEF Mine
    <3>7. \A j \in DOMAIN sent' : sent'[j].id = packet'.id => j = k
      BY <1>0, <2>3, <2>5, <3>3, <3>4 DEF Mine
    <3>8. Mine(k)' <=> /\ sent'[k].id = packet'.id
                       /\ Shows(packet', sent'[k])
                       /\ packet'.state.told <=> Effective(sent'[k])
                       /\ \A j \in DOMAIN sent' : j < k => sent'[j].id = 0
                       /\ \A j \in DOMAIN sent' : sent'[j].id = packet'.id => j = k
      BY DEF Mine, Shows, Effective, Status
    <3>9. \E m \in DOMAIN sent' : Mine(m)'
      BY <2>3, <3>5, <3>6, <3>7, <3>8
    <3>10. After(packet'.id) = IF OutPending' /\ out'.id # 0 THEN out'.id ELSE nextId'
      BY <1>0, <1>1, <2>1, <2>4, <3>2, <3>4
    <3> QED BY <1>0, <3>2, <3>9, <3>10 DEF Written
  <2>11. View'
    <3> SUFFICES ASSUME \A i \in DOMAIN sent' : Clean(sent'[i]) PROVE View'
      BY DEF View, Clean, Effective, Status
    <3>1. \A i \in DOMAIN sent : Clean(sent[i])
      BY <2>3
    <3> QED BY <1>0, <3>1 DEF View, Telling
  <2> QED BY <2>3, <2>6, <2>7, <2>8, <2>9, <2>10, <2>11
<1> QED BY <1>4, <1>5

LEMMA ConfiguredKeeps ==
  ASSUME IInv, NEW b \in BOOLEAN, Configured(b)
  PROVE  IInv'
<1> USE DEF IInv, Configured
<1>0. UNCHANGED <<outputs, directions, pc, packet, nextId>> /\ enabled' = b
  BY DEF gpioVars
<1>1. CASE b
  <2>1. pc # "write" /\ UNCHANGED <<out, sent, report>>
    BY <1>1
  <2>2. TypeOK' /\ Session' /\ OutIsLast' /\ PacketTells' /\ Written' /\ OnlyWaiting' /\ View'
    BY <1>0, <1>1, <2>1 DEF TypeOK, Session, OutIsLast, PacketTells, Written, OnlyWaiting, View,
       OutPending, Responding, Telling, Clean, Effective, Status
  <2> QED BY <2>1, <2>2
<1>2. CASE ~b
  <2>1. out' = NoPacket /\ sent' = <<>> /\ ~report'.told
    BY <1>2 DEF NoState
  <2>2. sent' \in Seq(Entries) /\ Len(sent') = 0 /\ DOMAIN sent' = {}
    BY <2>1
  <2>5. Len(sent') <= MaxSent
    BY <2>2, BoardAssumption
  <2>3. TypeOK'
    BY <1>0, <2>5 DEF TypeOK
  <2>4. Session' /\ OutIsLast' /\ PacketTells' /\ Written' /\ OnlyWaiting' /\ View'
    BY <1>0, <1>2, <2>1, <2>2 DEF Session, OutIsLast, PacketTells, Written, OnlyWaiting, View,
       OutPending, Telling
  <2> QED BY <2>2, <2>3, <2>4
<1> QED BY <1>1, <1>2

(* What is left of the requests when the k-th, or all up to the k-th, are  *)
(* answered: others, in their order, the last of them still the last.      *)
Left(s, t, k) ==
  /\ t \in Seq(Entries) /\ Len(t) <= Len(s)
  /\ \A j \in DOMAIN t : \E m \in DOMAIN s : m # k /\ t[j] = s[m] /\ (m = Len(s) => j = Len(t))
  /\ k # Len(s) => t # <<>> /\ t[Len(t)] = s[Len(s)]

LEMMA LeftOfTail ==
  ASSUME NEW s \in Seq(Entries), NEW k \in DOMAIN s
  PROVE  Left(s, SubSeq(s, k + 1, Len(s)), k)
<1> DEFINE t == SubSeq(s, k + 1, Len(s))
<1>1. /\ t \in Seq(Entries) /\ Len(t) = Len(s) - k
      /\ \A j \in 1 .. Len(s) - k : t[j] = s[j + k]
  OBVIOUS
<1>2. k \in 1 .. Len(s) /\ DOMAIN t = 1 .. Len(s) - k /\ DOMAIN s = 1 .. Len(s)
  BY <1>1
<1> HIDE DEF t
<1>3. ASSUME NEW j \in DOMAIN t
      PROVE  \E m \in DOMAIN s : m # k /\ t[j] = s[m] /\ (m = Len(s) => j = Len(t))
  <2>1. j + k \in DOMAIN s /\ j + k # k /\ t[j] = s[j + k] /\ (j + k = Len(s) => j = Len(t))
    BY <1>1, <1>2
  <2> QED BY <2>1
<1>4. ASSUME k # Len(s) PROVE t # <<>> /\ t[Len(t)] = s[Len(s)]
  <2>1. Len(t) \in 1 .. Len(s) - k /\ Len(t) + k = Len(s)
    BY <1>1, <1>2, <1>4
  <2> QED BY <1>1, <2>1
<1>5. Len(t) <= Len(s)
  BY <1>1, <1>2
<1>6. Left(s, t, k)
  BY <1>1, <1>3, <1>4, <1>5 DEF Left
<1> QED BY <1>6 DEF t

LEMMA LeftOfRemove ==
  ASSUME NEW s \in Seq(Entries), NEW k \in DOMAIN s
  PROVE  /\ Left(s, RemoveAt(s, k), k)
         /\ \A m \in DOMAIN s : m # k =>
              \E j \in DOMAIN RemoveAt(s, k) : RemoveAt(s, k)[j] = s[m]
<1> DEFINE t == RemoveAt(s, k)
           a == SubSeq(s, 1, k - 1)
           b == SubSeq(s, k + 1, Len(s))
<1>0. k \in 1 .. Len(s) /\ DOMAIN s = 1 .. Len(s) /\ Len(s) \in Nat
  OBVIOUS
<1>1. a \in Seq(Entries) /\ Len(a) = k - 1 /\ \A j \in 1 .. k - 1 : a[j] = s[j]
  BY <1>0
<1>2. b \in Seq(Entries) /\ Len(b) = Len(s) - k /\ \A j \in 1 .. Len(s) - k : b[j] = s[j + k]
  BY <1>0
<1>3. t = a \o b
  BY DEF RemoveAt
<1> HIDE DEF t, a, b
<1>4a. /\ t \in Seq(Entries) /\ Len(t) = Len(a) + Len(b)
       /\ \A j \in 1 .. Len(a) + Len(b) : t[j] = IF j <= Len(a) THEN a[j] ELSE b[j - Len(a)]
  BY <1>1, <1>2, <1>3, ConcatProperties
<1>4b. Len(a) + Len(b) = Len(s) - 1 /\ Len(s) - 1 \in Nat
  BY <1>0, <1>1, <1>2
<1>4. t \in Seq(Entries) /\ Len(t) = Len(s) - 1 /\ DOMAIN t = 1 .. Len(s) - 1
  BY <1>4a, <1>4b
<1>5. ASSUME NEW j \in 1 .. k - 1 PROVE t[j] = s[j]
  <2>1. j \in 1 .. Len(a) + Len(b) /\ j <= Len(a)
    BY <1>0, <1>1, <1>4b
  <2> QED BY <1>1, <1>4a, <2>1
<1>6. \A j \in k .. Len(s) - 1 : t[j] = s[j + 1]
  <2> TAKE j \in k .. Len(s) - 1
  <2>1. t[j] = b[j - (k - 1)]
    BY <1>0, <1>1, <1>2, <1>3
  <2>2. j - (k - 1) \in 1 .. Len(s) - k /\ j - (k - 1) + k = j + 1
    BY <1>0
  <2> QED BY <1>2, <2>1, <2>2
<1>7. ASSUME NEW j \in DOMAIN t
      PROVE  \E m \in DOMAIN s : m # k /\ t[j] = s[m] /\ (m = Len(s) => j = Len(t))
  <2>1. CASE j < k
    <3>1. j \in DOMAIN s /\ j # k /\ t[j] = s[j] /\ j # Len(s)
      BY <1>0, <1>4, <1>5, <2>1
    <3> QED BY <3>1
  <2>2. CASE j >= k
    <3>1. j + 1 \in DOMAIN s /\ j + 1 # k /\ t[j] = s[j + 1] /\ (j + 1 = Len(s) => j = Len(t))
      BY <1>0, <1>4, <1>6, <2>2
    <3> QED BY <3>1
  <2> QED BY <1>0, <1>4, <2>1, <2>2
<1>8. ASSUME k # Len(s) PROVE t # <<>> /\ t[Len(t)] = s[Len(s)]
  <2>1. Len(t) \in k .. Len(s) - 1 /\ Len(t) + 1 = Len(s)
    BY <1>0, <1>4, <1>8
  <2> QED BY <1>4, <1>6, <2>1
<1>9. ASSUME NEW m \in DOMAIN s, m # k
      PROVE  \E j \in DOMAIN t : t[j] = s[m]
  <2>1. CASE m < k
    <3>1. m \in DOMAIN t /\ t[m] = s[m]
      BY <1>0, <1>4, <1>5, <2>1
    <3> QED BY <3>1
  <2>2. CASE m > k
    <3>1. m - 1 \in DOMAIN t /\ t[m - 1] = s[m]
      BY <1>0, <1>4, <1>6, <2>2
    <3> QED BY <3>1
  <2> QED BY <1>0, <1>9, <2>1, <2>2
<1>10. Len(t) <= Len(s)
  BY <1>0, <1>4
<1>11. Left(s, t, k)
  BY <1>4, <1>7, <1>8, <1>10 DEF Left
<1> QED BY <1>9, <1>11 DEF t

(* The response that is written is the answer to exactly one request, and  *)
(* not to the one that is still in EP3.                                    *)
LEMMA OneAnswered ==
  ASSUME IInv, enabled, Responding
  PROVE  \E k \in DOMAIN sent :
           /\ Mine(k) /\ \A i \in DOMAIN sent : Answers(i) <=> i = k
           /\ OutPending => k # Len(sent)
<1> USE DEF IInv
<1>1. /\ packet.id \in 1 .. MaxId
      /\ After(packet.id) = IF OutPending /\ out.id # 0 THEN out.id ELSE nextId
  BY DEF Written
<1>2. PICK k \in DOMAIN sent : Mine(k)
  BY DEF Written
<1>3. \A i \in DOMAIN sent : Answers(i) <=> i = k
  BY <1>2 DEF Mine, Answers, Responding
<1>4. ASSUME OutPending PROVE k # Len(sent)
  <2>1. sent[k].id = packet.id /\ packet.id # 0
    BY <1>1, <1>2 DEF Mine
  <2>2. CASE out.id = 0
    BY <1>4, <2>1, <2>2, SilentId DEF OutIsLast
  <2>3. CASE out.id # 0
    BY <1>1, <1>4, <2>1, <2>3, AfterDiffers DEF OutIsLast
  <2> QED BY <2>2, <2>3
<1> QED BY <1>2, <1>3, <1>4

LEMMA WriteOkKeeps == IInv /\ WriteOk => IInv'
<1> SUFFICES ASSUME IInv, WriteOk PROVE IInv'
  OBVIOUS
<1> USE DEF IInv
<1>0. /\ pc = "write" /\ enabled /\ pc' = "wait_enabled"
      /\ UNCHANGED <<outputs, directions, enabled, out, nextId>>
      /\ report' = IF packet.state.told THEN packet.state ELSE report
  BY DEF WriteOk, Take, gpioVars
<1>1. ~Responding' /\ ~Telling'
  BY <1>0 DEF Responding, Telling
<1>2. Session' /\ PacketTells' /\ Written'
  BY <1>0, <1>1 DEF Session, PacketTells, Written
<1>3. packet.state.told => report' = State(outputs', directions')
  BY <1>0 DEF PacketTells, Telling
<1>4. CASE ~Responding
  <2>1. UNCHANGED sent
    <3>1. ~\E i \in DOMAIN sent : Answers(i)
      BY <1>0, <1>4 DEF Answers, Responding
    <3> QED BY <3>1 DEF WriteOk, Take
  <2>2. TypeOK' /\ OutIsLast' /\ OnlyWaiting'
    BY <1>0, <1>1, <1>4, <2>1 DEF TypeOK, OutIsLast, OnlyWaiting, OutPending
  <2>3. View'
    <3>1. CASE packet.state.told
      BY <1>3, <3>1 DEF View
    <3>2. CASE ~packet.state.told
      BY <1>0, <2>1, <3>2 DEF View, Telling, Clean, Effective, Status
    <3> QED BY <3>1, <3>2
  <2> QED BY <1>2, <2>1, <2>2, <2>3
<1>5. CASE Responding
  <2>1. PICK k \in DOMAIN sent :
          /\ Mine(k) /\ \A i \in DOMAIN sent : Answers(i) <=> i = k
          /\ OutPending => k # Len(sent)
    BY <1>0, <1>5, OneAnswered
  <2>2. sent' = IF packet.state.told THEN SubSeq(sent, k + 1, Len(sent)) ELSE RemoveAt(sent, k)
    BY <2>1 DEF WriteOk, Take
  <2>3. Left(sent, sent', k)
    BY <2>2, LeftOfTail, LeftOfRemove
  <2>4. sent' \in Seq(Entries) /\ Len(sent') <= MaxSent
    BY <2>3, BoardAssumption DEF Left, TypeOK
  <2>5. TypeOK'
    BY <1>0, <2>4 DEF TypeOK
  <2>6. OutIsLast'
    <3> SUFFICES ASSUME OutPending' PROVE OutIsLast'
      BY DEF OutIsLast
    <3>1. OutPending
      BY <1>0 DEF OutPending, Payload
    <3>2. sent' # <<>> /\ sent'[Len(sent')] = sent[Len(sent)]
      BY <2>1, <2>3, <3>1 DEF Left
    <3> QED BY <1>0, <3>1, <3>2 DEF OutIsLast
  <2>7. OnlyWaiting'
    <3> SUFFICES ASSUME NEW j \in DOMAIN sent', sent'[j].id # 0
                 PROVE  j = Len(sent') /\ OutPending'
      BY DEF OnlyWaiting
    <3>1. PICK m \in DOMAIN sent : m # k /\ sent'[j] = sent[m] /\ (m = Len(sent) => j = Len(sent'))
      BY <2>3 DEF Left
    <3>2. sent[m].id # packet.id
      BY <2>1, <3>1 DEF Mine
    <3>3. m = Len(sent) /\ OutPending
      BY <3>1, <3>2 DEF OnlyWaiting
    <3> QED BY <1>0, <3>1, <3>3 DEF OutPending
  <2>8. View'
    <3>1. CASE packet.state.told
      BY <1>3, <3>1 DEF View
    <3>2. CASE ~packet.state.told
      <4> SUFFICES ASSUME report'.told, \A i \in DOMAIN sent' : Clean(sent'[i])
                   PROVE  report' = State(outputs', directions')
        BY DEF View, Clean, Effective, Status
      <4>1. Clean(sent[k])
        BY <1>5, <2>1, <3>2, <1>0 DEF Mine, Clean, Written
      <4>2. ASSUME NEW m \in DOMAIN sent, m # k PROVE Clean(sent[m])
        <5>1. PICK j \in DOMAIN sent' : sent'[j] = sent[m]
          BY <2>2, <3>2, <4>2, LeftOfRemove
        <5> QED BY <5>1
      <4>3. \A i \in DOMAIN sent : Clean(sent[i])
        BY <4>1, <4>2
      <4> QED BY <1>0, <3>2, <4>3 DEF View, Telling
    <3> QED BY <3>1, <3>2
  <2> QED BY <1>2, <2>4, <2>5, <2>6, <2>7, <2>8
<1> QED BY <1>4, <1>5

LEMMA NextKeeps == IInv /\ [Next]_vars => IInv'
<1> SUFFICES ASSUME IInv, [Next]_vars PROVE IInv'
  OBVIOUS
<1>1. ASSUME Host PROVE IInv'
  <2>1. ASSUME NEW cmd \in DOMAIN Length, NEW respond \in BOOLEAN, NEW form \in Forms(cmd),
               Send(cmd, form[1], form[2], respond)
        PROVE  IInv'
    BY <2>1, SendKeeps
  <2>2. ASSUME NEW b \in BOOLEAN, Configured(b) PROVE IInv'
    BY <2>2, ConfiguredKeeps
  <2> QED BY <1>1, <2>1, <2>2 DEF Host
<1>2. CASE Tick \/ UNCHANGED vars
  <2>1. UNCHANGED <<outputs, directions, enabled, out, pc, packet, nextId, sent, report>>
    BY <1>2 DEF Tick, GpioTick, vars, hostVars, gpioVars
  <2>2. /\ TypeOK' /\ sent' \in Seq(Entries) /\ Session' /\ OutIsLast' /\ PacketTells'
        /\ OnlyWaiting' /\ View'
    BY <2>1 DEF IInv, TypeOK, Session, OutIsLast, PacketTells, OnlyWaiting, View,
       OutPending, Responding, Telling, Clean, Effective, Status
  <2>3. Written'
    BY <2>1 DEF IInv, Written, OutPending, Responding, Mine, Shows, Effective, Status
  <2> QED BY <2>2, <2>3 DEF IInv
<1>3. CASE EndpointsEnabled \/ ReadErr \/ WriteErr
  <2>1. /\ pc # "write" \/ ~enabled
        /\ UNCHANGED <<outputs, directions, enabled, out, nextId, sent, report>>
        /\ pc' \in {"wait_enabled", "select4"}
    BY <1>3 DEF EndpointsEnabled, ReadErr, WriteErr, gpioVars, hostVars
  <2> QED BY <2>1, QuietKeeps
<1>4. CASE FinishPulse
  <2>1. /\ pc = "select4" /\ pc' = "write" /\ UNCHANGED <<enabled, out, nextId, sent, report>>
        /\ packet'.kind # "response" /\ packet'.id = 0
        /\ packet'.state = State(outputs', directions')
    BY <1>4 DEF FinishPulse, WritePacket, Packet, hostVars
  <2> QED BY <2>1, EventKeeps
<1>5. CASE FlushUart
  <2>1. /\ pc = "select4" /\ pc' = "write" /\ UNCHANGED <<enabled, out, nextId, sent, report>>
        /\ packet'.kind # "response" /\ packet'.id = 0
        /\ ~packet'.state.told /\ UNCHANGED <<outputs, directions>>
    BY <1>5 DEF FlushUart, WritePacket, Packet, NoState, hostVars, gpioVars
  <2> QED BY <2>1, EventKeeps
<1>6. CASE HandlePacket
  BY <1>6, HandleKeeps
<1>7. CASE WriteOk
  BY <1>7, WriteOkKeeps
<1> QED BY <1>1, <1>2, <1>3, <1>4, <1>5, <1>6, <1>7 DEF Next

(* The inductive invariant. *)
THEOREM IInvHolds == Spec => []IInv
BY InitHolds, NextKeeps, PTL DEF Spec

(* Responses have ids and events have none.                                *)
THEOREM TypeCorrect == Spec => []TypeOK
<1>1. IInv => TypeOK
  BY DEF IInv
<1> QED BY IInvHolds, <1>1, PTL

(* The host's picture of the pins is true whenever nothing is under way.   *)
THEOREM ViewCorrect == Spec => []ViewIsCurrent
<1>1. IInv => ViewIsCurrent
  <2> SUFFICES ASSUME IInv, report.told, sent = <<>>, pc # "write"
               PROVE  report = State(outputs, directions)
    BY DEF ViewIsCurrent
  <2>1. DOMAIN sent = {}
    OBVIOUS
  <2> QED BY <2>1 DEF IInv, View, Telling
<1> QED BY IInvHolds, <1>1, PTL

(* A request with an id is in EP3, or its response is on its way, or it is *)
(* answered.                                                               *)
THEOREM AllAnswered == Spec => []NoneUnanswered
<1>1. IInv => NoneUnanswered
  BY DEF IInv, NoneUnanswered, OnlyWaiting, OutPending, Responding
<1> QED BY IInvHolds, <1>1, PTL

(* Responses come in the order of the requests and show what they did.     *)
THEOREM AnswersCorrect == Spec => AnswersMatch
<1>1. ASSUME IInv, WriteOk, packet.kind = "response"
      PROVE  \E i \in DOMAIN sent : /\ Answers(i) /\ Shows(packet, sent[i])
                                   /\ \A j \in 1 .. i - 1 : sent[j].id = 0
  <2>1. enabled /\ Responding
    BY <1>1 DEF WriteOk, Responding
  <2>2. PICK k \in DOMAIN sent : Mine(k) /\ Answers(k)
    BY <1>1, <2>1, OneAnswered
  <2>3. \A j \in 1 .. k - 1 : j \in DOMAIN sent /\ j < k
    BY <1>1, <2>2 DEF IInv
  <2> QED BY <2>2, <2>3 DEF Mine
<1>2. IInv => [WriteOk /\ packet.kind = "response" =>
                 \E i \in DOMAIN sent : /\ Answers(i) /\ Shows(packet, sent[i])
                                       /\ \A j \in 1 .. i - 1 : sent[j].id = 0]_vars
  BY <1>1
<1> QED BY IInvHolds, <1>2, PTL DEF AnswersMatch

-----------------------------------------------------------------------------
(* The pins under the packet loop.                                         *)

(* A packet of the host has masks and a duration, whatever its size.       *)
OutTyped ==
  out # NoPacket => out.mask \in SUBSET Bits /\ out.bits \in SUBSET Bits /\ out.duration \in Nat

LEMMA FormsTyped ==
  ASSUME NEW cmd \in DOMAIN Length, NEW form \in Forms(cmd)
  PROVE  form[2][1] \in SUBSET Bits /\ form[2][2] \in SUBSET Bits /\ form[2][3] \in Nat
<1>1. \A m \in Masks : m \in SUBSET Bits
  BY MasksAssumption
<1>2. \A args \in Arguments(cmd) :
        args[1] \in SUBSET Bits /\ args[2] \in SUBSET Bits /\ args[3] \in Nat
  <2> TAKE args \in Arguments(cmd)
  <2>1. CASE cmd \in {"set_direction", "set_output"}
    BY <1>1, <2>1 DEF Arguments
  <2>2. CASE cmd = "pulse_low"
    <3>1. args \in Masks \X {{}} \X Durations
      BY <2>2 DEF Arguments
    <3>2. args[1] \in Masks /\ args[2] = {} /\ args[3] \in Durations
      BY <3>1
    <3> QED BY <1>1, <3>2, DurationsAssumption
  <2>3. CASE cmd \notin {"set_direction", "set_output", "pulse_low"}
    BY <2>3 DEF Arguments
  <2> QED BY <2>1, <2>2, <2>3
<1>3. form[2] \in Arguments(cmd) \/ form[2] = <<Bits, {}, 0>>
  BY DEF Forms
<1> QED BY <1>2, <1>3

LEMMA OutTypedHolds == OutTyped /\ [Next]_vars => OutTyped'
<1> SUFFICES ASSUME OutTyped, [Next]_vars PROVE OutTyped'
  OBVIOUS
<1>1. ASSUME NEW cmd \in DOMAIN Length, NEW respond \in BOOLEAN, NEW form \in Forms(cmd),
             Send(cmd, form[1], form[2], respond)
      PROVE  OutTyped'
  <2>1. /\ out'.mask = form[2][1] /\ out'.bits = form[2][2] /\ out'.duration = form[2][3]
    BY <1>1 DEF Send, Request
  <2> QED BY <2>1, FormsTyped DEF OutTyped
<1>2. ASSUME out' \in {out, NoPacket} PROVE OutTyped'
  BY <1>2 DEF OutTyped
<1>3. ASSUME NEW b \in BOOLEAN, Configured(b) PROVE out' \in {out, NoPacket}
  BY <1>3 DEF Configured
<1>4. CASE Tick \/ UNCHANGED vars
  BY <1>2, <1>4 DEF Tick, vars
<1>5. CASE EndpointsEnabled \/ HandlePacket \/ ReadErr \/ FinishPulse \/ FlushUart
  BY <1>2, <1>5 DEF EndpointsEnabled, HandlePacket, ReadErr, FinishPulse, FlushUart
<1>6. CASE WriteOk \/ WriteErr
  BY <1>2, <1>6 DEF WriteOk, WriteErr
<1> QED BY <1>1, <1>2, <1>3, <1>4, <1>5, <1>6 DEF Next, Host

(* A step of the packet loop is a step of BoardGpio or leaves it alone.    *)
LEMMA LoopSteps == OutTyped /\ [Next]_vars => [PinStep]_gpioVars
<1> SUFFICES ASSUME OutTyped, [Next]_vars, ~UNCHANGED gpioVars PROVE PinStep
  OBVIOUS
<1>1. CASE Host
  BY <1>1 DEF Host, Send, Configured
<1>2. CASE Tick
  BY <1>2 DEF Tick, PinStep
<1>3. CASE EndpointsEnabled \/ ReadErr \/ FlushUart \/ WriteOk \/ WriteErr
  BY <1>3 DEF EndpointsEnabled, ReadErr, FlushUart, WriteOk, WriteErr
<1>4. CASE FinishPulse
  BY <1>4 DEF FinishPulse, PinStep
<1>5. CASE HandlePacket
  <2>1. out # NoPacket /\ Perform(out)
    BY <1>5 DEF HandlePacket
  <2>2. out.mask \in SUBSET Bits /\ out.bits \in SUBSET Bits /\ out.duration \in Nat
    BY <2>1 DEF OutTyped
  <2>3. \/ SetDirection(out.mask, out.bits) \/ SetOutput(out.mask, out.bits)
        \/ StartPulseLow(out.mask, out.duration)
    BY <2>1 DEF Perform
  <2> QED BY <2>2, <2>3 DEF PinStep
<1>6. CASE UNCHANGED vars
  BY <1>6 DEF vars
<1> QED BY <1>1, <1>2, <1>3, <1>4, <1>5, <1>6 DEF Next

(* The pins keep their types under the packet loop too.                    *)
THEOREM PinsTypeCorrect == Spec => []GpioTypeOK
<1>1. Init => GpioIInv /\ OutTyped
  BY GpioInitially DEF Init, OutTyped
<1>2. GpioIInv => GpioTypeOK
  BY DEF GpioIInv
<1> QED BY <1>1, <1>2, OutTypedHolds, LoopSteps, GpioInductive, PTL DEF Spec

(* Whatever packets come, in whatever sizes, and however the host comes    *)
(* and goes, the pins are those of PinOverlay: the packet loop calls       *)
(* BoardGpio with nothing that its promise does not cover.                 *)
THEOREM BoardImplementsOverlay == Spec => OverlaySpec
<1>1. Init => GpioIInv /\ OutTyped /\ Overlay!Init
  BY GpioInitially, GpioInitRefines DEF Init, OutTyped
<1> QED BY <1>1, OutTypedHolds, LoopSteps, GpioInductive, GpioStepRefines, PTL
        DEF Spec, OverlaySpec, Overlay!Spec
=============================================================================
