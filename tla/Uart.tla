--------------------------------- MODULE Uart ---------------------------------
(***************************************************************************)
(* The serial port of src/uart_emul.c, as the PCI device of pci_uart.c     *)
(* wires it to an interrupt pin: the receive fifo, the interrupt reason    *)
(* and the registers that change it, under the lock of the port.  Input    *)
(* from the terminal comes through the event loop of module Mevent: the    *)
(* port turns its event off while the fifo is full, and on again when      *)
(* there is room.                                                          *)
(***************************************************************************)
EXTENDS Mevent

CONSTANTS FIFOSZ,       \* size of the fifo when it is enabled
          Tty,          \* the event of the terminal
          MaxInput,     \* bound: characters that are typed
          Iers,         \* values of IER that the guest writes
          Mcrs,         \* values of MCR that it writes: [loopback, rts]
          EarlyGuest    \* the guest may run before the loop's first round

VARIABLES uart,         \* struct uart_softc and its pin
          uartTyped,    \* characters typed so far
          uartWaiting,  \* characters in the terminal's buffer
          uartRx        \* history: the characters in the fifo, oldest first

uartVars == <<mev, uart, uartTyped, uartWaiting, uartRx>>

Blank == 0

UartTypeOK ==
  /\ MevTypeOK
  /\ uart.size \in {1, FIFOSZ}
  /\ uart.num \in 0 .. uart.size
  /\ uart.rindex \in 0 .. uart.size - 1 /\ uart.windex \in 0 .. uart.size - 1
  /\ DOMAIN uart.buf = 0 .. FIFOSZ - 1
  /\ uart.ier \subseteq {"ERLS", "ERXRDY", "ETXRDY", "EMSC"}
  /\ uart.loopback \in BOOLEAN /\ uart.rts \in BOOLEAN
  /\ uart.oe \in BOOLEAN /\ uart.delta \in BOOLEAN /\ uart.thre \in BOOLEAN
  /\ uart.line \in BOOLEAN
  /\ uartTyped \in 0 .. MaxInput

empty(size) == [buf |-> [i \in 0 .. FIFOSZ - 1 |-> Blank], rindex |-> 0, windex |-> 0,
                num |-> 0, size |-> size]

\* uart_init, uart_set_backend and uart_opentty
UartInit ==
  /\ mev = [mevent_add(MevZero, Tty) EXCEPT !.pipe = 0]
  /\ uart = empty(1) @@ [ier |-> {}, loopback |-> FALSE, rts |-> FALSE, oe |-> FALSE,
                         delta |-> FALSE, thre |-> FALSE, line |-> FALSE]
  /\ uartTyped = 0 /\ uartWaiting = <<>> /\ uartRx = <<>>

-----------------------------------------------------------------------------
rxfifo_available(u) == u.num < u.size

\* [u, m]: the port and the event loop's state after a call
rxfifo_reset(u, m, size) == [u |-> empty(size) @@ u, m |-> mevent_enable(m, Tty)]

\* mutant: the fifo takes one character more than it has room for
rxfifo_putchar_over(u, m, ch) ==
  IF u.num > u.size THEN [u |-> u, m |-> m]
  ELSE [u |-> [u EXCEPT !.buf[u.windex] = ch, !.windex = (@ + 1) % u.size, !.num = @ + 1],
        m |-> IF u.num + 1 >= u.size THEN mevent_disable(m, Tty) ELSE m]

\* nothing if the fifo is full
rxfifo_putchar(u, m, ch) ==
  LET v == [u EXCEPT !.buf[u.windex] = ch, !.windex = (@ + 1) % u.size, !.num = @ + 1]
  IN  IF ~rxfifo_available(u) THEN [u |-> u, m |-> m]
      ELSE [u |-> v, m |-> IF rxfifo_available(v) THEN m ELSE mevent_disable(m, Tty)]

\* mutant: the event stays off once the fifo was full
rxfifo_getchar_off(u, m) ==
  IF u.num = 0 THEN [u |-> u, m |-> m]
  ELSE [u |-> [u EXCEPT !.rindex = (@ + 1) % u.size, !.num = @ - 1], m |-> m]

rxfifo_getchar(u, m) ==
  IF u.num = 0 THEN [u |-> u, m |-> m]
  ELSE [u |-> [u EXCEPT !.rindex = (@ + 1) % u.size, !.num = @ - 1],
        m |-> IF rxfifo_available(u) THEN m ELSE mevent_enable(m, Tty)]

uart_intr_reason(u) ==
  CASE u.oe /\ "ERLS" \in u.ier -> "RLS"
    [] u.num > 0 /\ "ERXRDY" \in u.ier -> "RXTOUT"
    [] u.thre /\ "ETXRDY" \in u.ier -> "TXRDY"
    [] u.delta /\ "EMSC" \in u.ier -> "MLSC"
    [] OTHER -> "NOPEND"

uart_toggle_intr(u) == [u EXCEPT !.line = uart_intr_reason(u) # "NOPEND"]

\* the guest runs once the loop has taken the event of the terminal
GuestMayRun == EarlyGuest \/ mev.kq[Tty] # None

\* the end of uart_write and uart_read
uart_done(r) ==
  /\ uart' = uart_toggle_intr(r.u)
  /\ mev' = r.m
  /\ UNCHANGED uartTyped

unqueue(s) == IF s = <<>> THEN s ELSE Tail(s)

-----------------------------------------------------------------------------
(* The guest's accesses.                                                   *)

\* in loopback the character comes back, or is lost with an overrun
uart_write_data ==
  LET ch == MaxInput + 1
      put == rxfifo_putchar(uart, mev, ch)
      r == IF uart.loopback THEN put ELSE [u |-> uart, m |-> mev]
      lost == uart.loopback /\ ~rxfifo_available(uart)
  IN  /\ GuestMayRun
      /\ uart_done([r EXCEPT !.u.thre = TRUE, !.u.oe = @ \/ lost])
      /\ uartRx' = IF uart.loopback /\ ~lost THEN Append(uartRx, ch) ELSE uartRx
      /\ UNCHANGED uartWaiting

uart_write_ier(S) ==
  /\ GuestMayRun
  /\ S # uart.ier
  /\ uart_done([u |-> [uart EXCEPT !.ier = S], m |-> mev])
  /\ UNCHANGED <<uartWaiting, uartRx>>

\* a change of mode, or a reset of the receiver, throws the input away,
\* in the fifo and in the terminal
uart_write_fcr(enable, rcv_rst) ==
  /\ GuestMayRun
  /\ IF enable # (uart.size = FIFOSZ) \/ (enable /\ rcv_rst)
     THEN /\ uart_done(rxfifo_reset(uart, mev, IF enable THEN FIFOSZ ELSE 1))
          /\ uartWaiting' = <<>> /\ uartRx' = <<>>
     ELSE uart_done([u |-> uart, m |-> mev]) /\ UNCHANGED <<uartWaiting, uartRx>>

\* in loopback RTS shows as CTS; a change of CTS is latched
uart_write_mcr(loopback, rts) ==
  LET cts == loopback /\ rts
      was == uart.loopback /\ uart.rts
  IN  /\ GuestMayRun
      /\ uart_done([u |-> [uart EXCEPT !.loopback = loopback, !.rts = rts,
                                       !.delta = @ \/ cts # was], m |-> mev])
      /\ UNCHANGED <<uartWaiting, uartRx>>

uart_read_data ==
  /\ GuestMayRun
  /\ uart_done(rxfifo_getchar(uart, mev))
  /\ uartRx' = unqueue(uartRx)
  /\ UNCHANGED uartWaiting

\* reading IIR takes a transmit interrupt, LSR an overrun, MSR a change
uart_read_iir ==
  /\ GuestMayRun
  /\ uart_done([u |-> [uart EXCEPT !.thre = @ /\ uart_intr_reason(uart) # "TXRDY"], m |-> mev])
  /\ UNCHANGED <<uartWaiting, uartRx>>

uart_read_lsr ==
  /\ GuestMayRun
  /\ uart_done([u |-> [uart EXCEPT !.oe = FALSE], m |-> mev])
  /\ UNCHANGED <<uartWaiting, uartRx>>

uart_read_msr ==
  /\ GuestMayRun
  /\ uart_done([u |-> [uart EXCEPT !.delta = FALSE], m |-> mev])
  /\ UNCHANGED <<uartWaiting, uartRx>>

-----------------------------------------------------------------------------
(* The terminal and the loop.                                              *)

Type ==
  /\ uartTyped < MaxInput
  /\ uartTyped' = uartTyped + 1
  /\ uartWaiting' = Append(uartWaiting, uartTyped + 1)
  /\ UNCHANGED <<mev, uart, uartRx>>

\* mutant: the pin is not brought up to date
uart_drain_silent ==
  LET ok == rxfifo_available(uart) /\ uartWaiting # <<>>
      r == IF ok THEN rxfifo_putchar(uart, mev, Head(uartWaiting)) ELSE [u |-> uart, m |-> mev]
  IN  /\ mevent_handle(Tty, r.m)
      /\ uart' = r.u
      /\ uartWaiting' = IF ok THEN Tail(uartWaiting) ELSE uartWaiting
      /\ uartRx' = IF ok THEN Append(uartRx, Head(uartWaiting)) ELSE uartRx
      /\ UNCHANGED uartTyped

\* in loopback one character is thrown away; otherwise as many as have room
\* are taken
uart_drain ==
  LET room == uart.size - uart.num
      n == CHOOSE k \in {Len(uartWaiting), IF uart.loopback THEN 1 ELSE room} :
             k <= Len(uartWaiting) /\ k <= (IF uart.loopback THEN 1 ELSE room)
      taken == IF uart.loopback THEN <<>> ELSE SubSeq(uartWaiting, 1, n)
      r == FoldLeft(LAMBDA x, ch : rxfifo_putchar(x.u, x.m, ch), [u |-> uart, m |-> mev], taken)
  IN  /\ mevent_handle(Tty, r.m)
      /\ uart' = IF uart.loopback THEN uart ELSE uart_toggle_intr(r.u)
      /\ uartWaiting' = SubSeq(uartWaiting, n + 1, Len(uartWaiting))
      /\ uartRx' = uartRx \o taken
      /\ UNCHANGED uartTyped

UartNext ==
  \/ uart_write_data
  \/ \E S \in Iers : uart_write_ier(S)
  \/ \E enable, rcv_rst \in BOOLEAN : uart_write_fcr(enable, rcv_rst)
  \/ \E m \in Mcrs : uart_write_mcr(m.loopback, m.rts)
  \/ uart_read_data \/ uart_read_iir \/ uart_read_lsr \/ uart_read_msr
  \/ Type
  \/ uart_drain
  \/ MevLoop /\ UNCHANGED <<uart, uartTyped, uartWaiting, uartRx>>
  \/ kevent_wait(IF uartWaiting # <<>> THEN {Tty} ELSE {}) /\ UNCHANGED <<uart, uartTyped, uartWaiting, uartRx>>

UartSpec == UartInit /\ [][UartNext]_uartVars

-----------------------------------------------------------------------------
(***************************************************************************)
(* The ring of the fifo is a queue: what is between the read and the write *)
(* index are the characters put in and not yet taken out, in order, also   *)
(* when the fifo is full, is resized or is fed from two sides.             *)
(***************************************************************************)
FifoInOrder ==
  /\ uart.num = Len(uartRx)
  /\ \A i \in 1 .. uart.num : uart.buf[(uart.rindex + i - 1) % uart.size] = uartRx[i]

(***************************************************************************)
(* The pin of the port is asserted just while there is a reason for an     *)
(* interrupt, whichever of the guest and the event loop came last.         *)
(***************************************************************************)
PinFollowsReason == uart.line = (uart_intr_reason(uart) # "NOPEND")

(***************************************************************************)
(* Input does not stall: the event of the terminal is asked for just while *)
(* the fifo has room, and when the loop has nothing left to apply it is on *)
(* in the kernel's queue.                                                  *)
(***************************************************************************)
InputHeard ==
  /\ rxfifo_available(uart) = (mev.state[Tty] # "DISABLE")
  /\ QueueMatches
=============================================================================
