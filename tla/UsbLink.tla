------------------------------- MODULE UsbLink -------------------------------
(***************************************************************************)
(* The USB device between main, which sends a packet of telemetry at every *)
(* turn (usb_vcp_send_data), the USB interrupt, and a host that resets,    *)
(* addresses and configures the device and does so again when a request    *)
(* fails.  A handler is one step; main is cut where the handler may change *)
(* what usbd_ept_send goes on to use.                                      *)
(***************************************************************************)
States == {"DEFAULT", "ADDRESSED", "CONFIGURED", "SUSPENDED"}
TxStates == {"off", "nak", "valid", "stall"}
SendSteps == {"test", "size", "write", "arm"}
HostSteps == {"reset", "address", "config", "up"}

VARIABLES
    conn,    \* conn_state
    old,     \* old_conn_state
    opened,  \* endpoint 1 has its address and maxpacket
    tx,      \* status of endpoint 1 IN
    table,   \* the addresses of endpoint 0 in the packet memory are there
    txDone,  \* g_tx_completed
    rest,    \* total_len of endpoint 1: what usbd_ept_send has left over
    sendPc,  \* where main is in usb_vcp_send_data
    polled,  \* main has been through usb_vcp_send_data since the last request
    host,    \* what the host does next
    plain    \* this host neither halts endpoint 1, nor clears a halt, nor configures twice

devVars  == <<conn, old>>
eptVars  == <<opened, tx, table>>
sendVars == <<txDone, rest, sendPc>>
usbVars  == <<devVars, eptVars, sendVars, polled, host, plain>>

UsbTypeOK ==
    /\ conn \in States /\ old \in States \ {"SUSPENDED"}
    /\ opened \in BOOLEAN /\ tx \in TxStates /\ table \in BOOLEAN
    /\ txDone \in BOOLEAN /\ rest \in BOOLEAN /\ sendPc \in SendSteps
    /\ polled \in BOOLEAN /\ host \in HostSteps /\ plain \in BOOLEAN

\* usbd_core_init.
UsbInit ==
    /\ conn = "DEFAULT" /\ old = "DEFAULT"
    /\ opened = FALSE /\ tx = "off" /\ table = FALSE
    /\ txDone = FALSE /\ rest = FALSE /\ sendPc = "test" /\ polled = FALSE
    /\ host = "reset" /\ plain \in BOOLEAN

-----------------------------------------------------------------------------
(***************************************************************************)
(* Main: usb_vcp_send_data and usbd_ept_send                               *)
(***************************************************************************)

MainGoes(from, to) ==
    /\ sendPc = from /\ sendPc' = to
    /\ UNCHANGED <<devVars, opened, host, plain>>

\* Mutant: the flag is not cleared.
TestsKeepsFlag ==
    /\ MainGoes("test", IF txDone THEN "size" ELSE "test")
    /\ txDone' = txDone /\ polled' = (polled \/ ~txDone)
    /\ UNCHANGED <<tx, table, rest>>

\* Test and clear are one step: what sets the flag between them is overwritten
\* just as if it had come before.
Tests ==
    /\ MainGoes("test", IF txDone THEN "size" ELSE "test")
    /\ txDone' = FALSE /\ polled' = (polled \/ ~txDone)
    /\ UNCHANGED <<tx, table, rest>>

\* With a maxpacket of 0 nothing goes into the packet.
Sizes ==
    /\ MainGoes("size", "write")
    /\ rest' = ~opened
    /\ UNCHANGED <<tx, table, txDone, polled>>

\* Without an address for endpoint 1 the packet goes over the table at 0.
Writes ==
    /\ MainGoes("write", "arm")
    /\ table' = (table /\ (rest \/ opened))
    /\ UNCHANGED <<tx, txDone, rest, polled>>

Arms ==
    /\ MainGoes("arm", "test")
    /\ tx' = "valid" /\ polled' = TRUE
    /\ UNCHANGED <<table, txDone, rest>>

Sends == Tests \/ Sizes \/ Writes \/ Arms

-----------------------------------------------------------------------------
(***************************************************************************)
(* The bus and the USB interrupt                                           *)
(***************************************************************************)

\* The host has fetched the packet: the rest is sent, or class_in_handler called.
In ==
    /\ host = "up" /\ conn # "SUSPENDED" /\ tx = "valid"
    /\ tx' = IF rest THEN "valid" ELSE "nak"
    /\ txDone' = (txDone \/ (~rest /\ conn = "CONFIGURED"))
    /\ rest' = FALSE
    /\ UNCHANGED <<devVars, opened, table, sendPc, polled, host, plain>>

\* Requests are milliseconds apart and main is round its loop in between.
Request == polled /\ polled' = FALSE /\ plain' = plain

\* usbd_reset_handler.  The registers of the endpoints are cleared by the bus.
ResetHandled ==
    /\ Request /\ host = "reset" /\ host' = "address"
    /\ opened' = FALSE /\ tx' = "off" /\ table' = TRUE
    /\ UNCHANGED <<old, sendVars>>

Reset == ResetHandled /\ conn' = "DEFAULT"

\* A reset wakes a suspended device: when its flag is up before the handler is
\* there, usbd_irq_handler calls usbd_wakeup_handler after usbd_reset_handler.
ResetAndWakeup == conn = "SUSPENDED" /\ ResetHandled /\ conn' = old

\* Mutant: a failed request does not make the host go on from the start.
FailsOnce == host' = host

\* A request that is stalled or not answered: the host starts again.
Fails == host' = "reset"

\* usbd_set_address.
SetAddress ==
    /\ Request /\ host = "address"
    /\ IF table /\ conn # "CONFIGURED"
       THEN conn' = "ADDRESSED" /\ host' = "config"
       ELSE conn' = conn /\ Fails
    /\ UNCHANGED <<old, eptVars, sendVars>>

\* class_init_handler, and class_clear_handler before it.
ClassInit == opened' = TRUE /\ tx' = "nak" /\ txDone' = TRUE

\* usbd_set_configuration: the first, the same once more, and none.
SetConfiguration ==
    /\ Request /\ host = "config"
    /\ IF table /\ conn = "ADDRESSED"
       THEN conn' = "CONFIGURED" /\ ClassInit /\ host' = "up"
       ELSE Fails /\ UNCHANGED <<conn, opened, tx, txDone>>
    /\ UNCHANGED <<old, table, rest, sendPc>>

Reconfigure ==
    /\ ~plain
    /\ Request /\ host = "up" /\ table /\ conn = "CONFIGURED"
    /\ ClassInit
    /\ UNCHANGED <<devVars, table, rest, sendPc, host>>

Deconfigure ==
    /\ Request /\ host = "up" /\ table /\ conn = "CONFIGURED"
    /\ conn' = "ADDRESSED" /\ tx' = "off" /\ host' = "config"
    /\ UNCHANGED <<old, opened, table, sendVars>>

\* usbd_set_stall for endpoint 1.
Halt ==
    /\ ~plain
    /\ Request /\ host = "up" /\ table /\ conn = "CONFIGURED"
    /\ tx' = "stall"
    /\ UNCHANGED <<devVars, opened, table, sendVars, host>>

\* usbd_clear_stall: halted or not, the endpoint is armed with its last packet.
ClearHalt ==
    /\ ~plain
    /\ Request /\ host = "up" /\ table /\ conn = "CONFIGURED"
    /\ tx' = "valid"
    /\ UNCHANGED <<devVars, opened, table, sendVars, host>>

\* Mutant: the state is not saved.
SuspendForgets ==
    /\ Request /\ host \in {"reset", "up"} /\ conn # "SUSPENDED"
    /\ conn' = "SUSPENDED"
    /\ UNCHANGED <<old, eptVars, sendVars, host>>

\* The bus is idle: usbd_suspend_handler; it is not: usbd_wakeup_handler.
Suspend ==
    /\ Request /\ host \in {"reset", "up"} /\ conn # "SUSPENDED"
    /\ old' = conn /\ conn' = "SUSPENDED"
    /\ UNCHANGED <<eptVars, sendVars, host>>

Wakeup ==
    /\ Request /\ host = "up" /\ conn = "SUSPENDED"
    /\ conn' = old
    /\ UNCHANGED <<old, eptVars, sendVars, host>>

\* The host is restarted, or the cable pulled and put back.
StartsAgain ==
    /\ host # "reset" /\ host' = "reset"
    /\ UNCHANGED <<devVars, eptVars, sendVars, polled, plain>>

Bus == \/ In \/ Reset \/ ResetAndWakeup \/ SetAddress \/ SetConfiguration
       \/ Reconfigure \/ Deconfigure \/ Halt \/ ClearHalt \/ Suspend \/ Wakeup
       \/ StartsAgain

UsbNext == Sends \/ Bus
UsbSpec == UsbInit /\ [][UsbNext]_usbVars

-----------------------------------------------------------------------------
(***************************************************************************)
(* Properties                                                              *)
(***************************************************************************)

\* Main never writes into a packet that is on its way: whatever resets, suspends
\* and configurations came, and wherever they met main, the flag is set only
\* while endpoint 1 has nothing to send and main is not sending.  A host that halts
\* the endpoint, clears a halt, be there one or not, or configures the device again
\* is excepted: then the interrupt arms what main is about to write, or sends the
\* last packet once more, or sets the flag under it.
OnePacketInFlight == plain /\ txDone => tx # "valid" /\ sendPc = "test"

\* A host that has configured the device finds it configured, with its endpoint
\* open, once it is awake: suspending it and the reset seen too late change that
\* only until the host enumerates again.
HostAndDeviceAgree ==
    host = "up" => /\ conn = "CONFIGURED" \/ (conn = "SUSPENDED" /\ old = "CONFIGURED")
                   /\ opened

\* A host that goes on trying gets its telemetry, packet after packet: although
\* a reset may meet main in a packet and have it overwrite the endpoint table, or
\* be undone by the wake-up that comes with it, the link comes up; and no packet
\* lost to a reset, a suspend or a halt leaves the flag down for good.
TelemetryFlows ==
    <>[][~StartsAgain /\ ~Deconfigure]_usbVars => []<>(host = "up" /\ txDone)

=============================================================================
