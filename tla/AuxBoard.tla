------------------------------ MODULE AuxBoard -------------------------------
(***************************************************************************)
(* The GPIO commands of the auxiliary interface from the packet of the     *)
(* host to the report it gets: the framing (aux_protocol.rs), the part of  *)
(* aux_task that serves them (aux_usb.rs), the pins (BoardGpio), and what  *)
(* the host (external) makes of the reports.                               *)
(*                                                                         *)
(* AuxTask has the UART: here its packets only come in between.  Of a      *)
(* report the inputs are left out, which are the board's at the moment.    *)
(***************************************************************************)
EXTENDS BoardGpio, SequencesExt

CONSTANTS
  Masks,        \* the masks and values of a request
  MaxId,        \* the request ids, 1 ..  255, which the host uses in turn
  MaxSent       \* bound: the requests the host sends without an answer

ASSUME MasksAssumption == Masks \subseteq SUBSET Bits
ASSUME BoardAssumption == MaxId \in Nat \ {0, 1} /\ MaxSent \in Nat

VARIABLES
  enabled,    \* the host has configured the device
  out,        \* the packet in EP3, or NoPacket
  pc,         \* aux_task: at "wait_enabled", in "select4" or in a "write" to EP4
  packet,     \* what it writes
  nextId,     \* the host: the id of its next request
  sent,       \* the requests not known to be done, oldest first
  report      \* the state it was told last in this session

hostVars == <<nextId, sent, report>>
vars == <<gpioVars, enabled, out, pc, packet, hostVars>>

NoPacket == [cmd |-> "none"]
NoState == [outputs |-> {}, directions |-> {}, told |-> FALSE]

(* state(). *)
State(o, d) == [outputs |-> o, directions |-> d, told |-> TRUE]

(* The payload a command wants.  Any command of the UART is "uart", and    *)
(* its answer "ok": AuxTask has its lengths, and tells ok from busy.       *)
Length == [get_state |-> 0, set_direction |-> 2, set_output |-> 2, pulse_low |-> 3,
           unknown |-> 0, uart |-> 0]
GpioCommands == {"get_state", "set_direction", "set_output", "pulse_low"}

(* The requests: promised is the length in the header, carried the bytes   *)
(* that follow the header, and either may be one too few or too many.      *)
Size(promised, carried) == [promised |-> promised, carried |-> carried]

WrongSizes(n) ==
  {Size(n, n + 1), Size(n + 1, n + 1)}
  \cup IF n > 0 THEN {Size(n, n - 1), Size(n - 1, n - 1)} ELSE {}

Arguments(cmd) ==
  IF cmd \in {"set_direction", "set_output"} THEN Masks \X Masks \X {0}
  ELSE IF cmd = "pulse_low" THEN Masks \X {{}} \X Durations
  ELSE {<<{}, {}, 0>>}

Forms(cmd) ==
  {Size(Length[cmd], Length[cmd])} \X Arguments(cmd)
  \cup IF cmd = "uart" THEN {} ELSE WrongSizes(Length[cmd]) \X {<<Bits, {}, 0>>}

Request(cmd, id, size, args) ==
  [cmd |-> cmd, id |-> id, promised |-> size.promised, carried |-> size.carried,
   mask |-> args[1], bits |-> args[2], duration |-> args[3]]

(* A request without an id: the host remembers only that it sent it.       *)
Silent == [id |-> 0]

Init ==
  /\ GpioInit
  /\ enabled = FALSE /\ out = NoPacket /\ pc = "wait_enabled" /\ packet = NoPacket
  /\ nextId = 1 /\ sent = <<>> /\ report = NoState

-----------------------------------------------------------------------------
(* The device.                                                             *)

(* payload(): not more is promised than carried; what follows is ignored.  *)
Payload(r) == r.promised <= r.carried

(* What handle_packet makes of a command.                                  *)
Status(r) ==
  IF r.cmd = "unknown" \/ r.promised # Length[r.cmd] THEN "invalid" ELSE "ok"

(* The call of BoardGpio, if the request is valid.                         *)
Perform(r) ==
  IF Status(r) = "ok" /\ r.cmd = "set_direction" THEN SetDirection(r.mask, r.bits)
  ELSE IF Status(r) = "ok" /\ r.cmd = "set_output" THEN SetOutput(r.mask, r.bits)
  ELSE IF Status(r) = "ok" /\ r.cmd = "pulse_low" THEN StartPulseLow(r.mask, r.duration)
  ELSE UNCHANGED gpioVars

(* write_packet begins.                                                    *)
WritePacket(p) == pc' = "write" /\ packet' = p

Packet(kind, id, cmd, status, state) ==
  [kind |-> kind, id |-> id, cmd |-> cmd, status |-> status, state |-> state]

(* Mutants: only what was done is answered; the state before it is told.   *)
RespondIfOk(r) ==
  IF r.id # 0 /\ Status(r) = "ok"
  THEN WritePacket(Packet("response", r.id, r.cmd, Status(r), State(outputs', directions')))
  ELSE pc' = "wait_enabled" /\ UNCHANGED packet

RespondEarly(r) ==
  IF r.id # 0
  THEN WritePacket(Packet("response", r.id, r.cmd, Status(r),
         IF r.cmd \in GpioCommands /\ Status(r) = "ok" THEN State(outputs, directions)
         ELSE NoState))
  ELSE pc' = "wait_enabled" /\ UNCHANGED packet

(* write_response, with the state after a GPIO command that was done.      *)
Respond(r) ==
  IF r.id # 0
  THEN WritePacket(Packet("response", r.id, r.cmd, Status(r),
         IF r.cmd \in GpioCommands /\ Status(r) = "ok" THEN State(outputs', directions')
         ELSE NoState))
  ELSE pc' = "wait_enabled" /\ UNCHANGED packet

EndpointsEnabled ==
  /\ pc = "wait_enabled" /\ enabled
  /\ pc' = "select4"
  /\ UNCHANGED <<gpioVars, enabled, out, packet, hostVars>>

(* handle_packet.                                                          *)
HandlePacket ==
  /\ pc = "select4" /\ out # NoPacket
  /\ out' = NoPacket
  /\ IF Payload(out) THEN Perform(out) /\ Respond(out)
     ELSE pc' = "wait_enabled" /\ UNCHANGED <<gpioVars, packet>>
  /\ UNCHANGED <<enabled, hostVars>>

ReadErr ==
  /\ pc = "select4" /\ ~enabled
  /\ pc' = "wait_enabled"
  /\ UNCHANGED <<gpioVars, enabled, out, packet, hostVars>>

(* Mutant: the host is not told.                                           *)
FinishPulseSilently ==
  /\ pc = "select4" /\ out = NoPacket /\ enabled
  /\ FinishPulseIfDue
  /\ pc' = "wait_enabled"
  /\ UNCHANGED <<enabled, out, packet, hostVars>>

(* The pulse is due and nothing is to be read: the event EVT_GPIO_STATE.   *)
FinishPulse ==
  /\ pc = "select4" /\ out = NoPacket /\ enabled
  /\ FinishPulseIfDue
  /\ WritePacket(Packet("gpio_state", 0, "none", "ok", State(outputs', directions')))
  /\ UNCHANGED <<enabled, out, hostVars>>

(* A batch of UART bytes, when no pulse is due. *)
FlushUart ==
  /\ pc = "select4" /\ out = NoPacket /\ enabled /\ ~Due
  /\ WritePacket(Packet("uart_data", 0, "none", "ok", NoState))
  /\ UNCHANGED <<gpioVars, enabled, out, hostVars>>

-----------------------------------------------------------------------------
(* The host, the bus, and time.                                            *)

After(id) == IF id = MaxId THEN 1 ELSE id + 1

Send(cmd, size, args, respond) ==
  LET r == Request(cmd, IF respond THEN nextId ELSE 0, size, args)
  IN  /\ enabled /\ out = NoPacket
      /\ out' = r
      /\ IF Payload(r)
         THEN /\ Len(sent) < MaxSent
              /\ sent' = Append(sent, IF respond THEN r ELSE Silent)
              /\ nextId' = IF respond THEN After(nextId) ELSE nextId
         ELSE UNCHANGED <<sent, nextId>>
      /\ UNCHANGED <<gpioVars, enabled, pc, packet, report>>

(* A reset of the bus: the host starts over and EP3 is empty.  A write to  *)
(* EP4 has failed before the host configures the device again.             *)
Configured(b) ==
  /\ b => pc # "write"
  /\ enabled' = b
  /\ IF b THEN UNCHANGED <<out, sent, report>>
     ELSE out' = NoPacket /\ sent' = <<>> /\ report' = NoState
  /\ UNCHANGED <<gpioVars, pc, packet, nextId>>

(* A state is the last the host was told.  A response ends the wait for    *)
(* its request, and one with a state also for all before it.               *)
Answers(i) == packet.kind = "response" /\ sent[i].id = packet.id

Take ==
  /\ report' = IF packet.state.told THEN packet.state ELSE report
  /\ IF \E i \in DOMAIN sent : Answers(i)
     THEN \E i \in DOMAIN sent :
            /\ Answers(i)
            /\ sent' = IF packet.state.told THEN SubSeq(sent, i + 1, Len(sent))
                       ELSE RemoveAt(sent, i)
     ELSE UNCHANGED sent

WriteOk ==
  /\ pc = "write" /\ enabled
  /\ Take
  /\ pc' = "wait_enabled" /\ packet' = NoPacket
  /\ UNCHANGED <<gpioVars, enabled, out, nextId>>

WriteErr ==
  /\ pc = "write" /\ ~enabled
  /\ pc' = "wait_enabled" /\ packet' = NoPacket
  /\ UNCHANGED <<gpioVars, enabled, out, hostVars>>

Tick == GpioTick /\ UNCHANGED <<enabled, out, pc, packet, hostVars>>

Host ==
  \/ \E cmd \in DOMAIN Length, respond \in BOOLEAN :
       \E form \in Forms(cmd) : Send(cmd, form[1], form[2], respond)
  \/ \E b \in BOOLEAN : Configured(b)

Next ==
  \/ Host \/ Tick
  \/ EndpointsEnabled \/ HandlePacket \/ ReadErr \/ FinishPulse \/ FlushUart
  \/ WriteOk \/ WriteErr

Spec == Init /\ [][Next]_vars

-----------------------------------------------------------------------------
(* The type invariant: a response is written for a request with an id, an  *)
(* event has none.                                                         *)
TypeOK ==
  /\ enabled \in BOOLEAN
  /\ pc \in {"wait_enabled", "select4", "write"}
  /\ nextId \in 1 .. MaxId /\ Len(sent) <= MaxSent
  /\ pc = "write" => (packet.kind = "response" <=> packet.id # 0)

(* The host's picture of outputs and directions is true whenever nothing   *)
(* is under way: each change since the last reset is in a response or, at  *)
(* the end of a pulse, in an event (aux_usb.rs:71-75 and 152-173), also if *)
(* a request without a response, a failed write or a reset came between.   *)
ViewIsCurrent ==
  report.told /\ sent = <<>> /\ pc # "write" => report = State(outputs, directions)

(* No request with an id is left without its response, except one whose    *)
(* header promises more than it carries.                                   *)
NoneUnanswered ==
  pc # "write" /\ out = NoPacket => \A i \in DOMAIN sent : sent[i].id = 0

(* What the host reads off the answer p to its request r.                  *)
Shows(p, r) ==
  /\ p.cmd = r.cmd
  /\ (p.status = "ok") <=> (r.cmd # "unknown" /\ r.promised = Length[r.cmd])
  /\ p.status = "ok" =>
       CASE r.cmd = "set_direction" -> p.state.directions \cap r.mask = r.bits \cap r.mask
         [] r.cmd = "set_output" -> p.state.outputs \cap r.mask = r.bits \cap r.mask
         [] r.cmd = "pulse_low" ->
              r.mask \cap SwitchPins \subseteq p.state.directions \ p.state.outputs
         [] OTHER -> TRUE

(* A response is the answer to the oldest request that waits for one, and  *)
(* shows what it did.                                                      *)
AnswersMatch ==
  [][WriteOk /\ packet.kind = "response" =>
       \E i \in DOMAIN sent : /\ Answers(i) /\ Shows(packet, sent[i])
                             /\ \A j \in 1 .. i - 1 : sent[j].id = 0]_vars
=============================================================================
