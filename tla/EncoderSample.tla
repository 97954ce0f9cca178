--------------------------- MODULE EncoderSample ---------------------------
(***************************************************************************)
(* Encoder_Sample (MT6816): three SPI transfers inside the ADC handler,    *)
(* each with a wait for the transmit buffer and a wait for the answer that *)
(* share one count of polls, and a TIMEOUT exit.  The peripheral goes on   *)
(* by itself between the polls.                                            *)
(*                                                                         *)
(* The SPI is as the code uses it: one transmit buffer, one shift register *)
(* and one receive buffer SPI1->dt, whose flag RDBF stays up until dt is   *)
(* read.  A frame shifted in while dt is full is lost.  Of an answer only  *)
(* its origin is kept: the command it answers, whether this sample or an   *)
(* earlier one sent it, and whether the chip select stayed low for it.     *)
(***************************************************************************)
EXTENDS Integers

CONSTANTS
    PollMax,    \* timeout_cnt_max
    RxErrMax    \* the largest u8_RxErrCnt

ASSUME SampleParameters == PollMax \in Nat /\ RxErrMax \in Nat

Commands == {"0x83", "0x84", "0x85"}
Command(k) == CASE k = 1 -> "0x83" [] k = 2 -> "0x84" [] k = 3 -> "0x85"
Frames == [cmd : Commands, own : BOOLEAN, clean : BOOLEAN]
None == [cmd |-> "none", own |-> FALSE, clean |-> FALSE]

VARIABLES
    transfer,          \* the transfer Encoder_Sample is in, 0 outside
    wait,              \* which of its flags it polls: "TDBE" or "RDBF"
    polls,             \* timeout_cnt
    ncs,               \* the chip select, TRUE when released
    spiTx, shift, dt,  \* the SPI: transmit buffer, shift register, receive buffer
    data,              \* data[], what the transfers of this sample have read
    rxErr,             \* MT6816.u8_RxErrCnt
    \* History, not in the program:
    gaveUp             \* a wait for an answer has ever given up

codeVars   == <<transfer, wait, polls, ncs, data, rxErr, gaveUp>>
sampleVars == <<codeVars, spiTx, shift, dt>>

SampleTypeOK ==
    /\ transfer \in 0..3 /\ wait \in {"TDBE", "RDBF"}
    /\ polls \in 0 .. PollMax + 1
    /\ ncs \in BOOLEAN /\ gaveUp \in BOOLEAN
    /\ spiTx \in Frames \cup {None} /\ shift \in Frames \cup {None}
    /\ dt \in Frames \cup {None}
    /\ data \in [1..3 -> Frames \cup {None}]
    /\ rxErr \in 0..RxErrMax

SampleInit ==
    /\ transfer = 0 /\ wait = "TDBE" /\ polls = 0 /\ ncs = TRUE
    /\ spiTx = None /\ shift = None /\ dt = None
    /\ data = [k \in 1..3 |-> None]
    /\ rxErr = 0 /\ gaveUp = FALSE

-----------------------------------------------------------------------------
(***************************************************************************)
(* The peripheral                                                          *)
(***************************************************************************)

FrameBegins ==
    /\ shift = None /\ spiTx # None
    /\ shift' = [spiTx EXCEPT !.clean = ~ncs] /\ spiTx' = None
    /\ UNCHANGED <<codeVars, dt>>

\* A poll takes a fraction of a frame: an answer that is waited for is read
\* before the next frame ends.
FrameEnds ==
    /\ shift # None
    /\ ~(transfer # 0 /\ wait = "RDBF" /\ dt # None)
    /\ shift' = None
    /\ dt' = IF dt = None THEN shift ELSE dt
    /\ UNCHANGED <<codeVars, spiTx>>

SpiGoes == FrameBegins \/ FrameEnds

-----------------------------------------------------------------------------
(***************************************************************************)
(* Encoder_Sample                                                          *)
(***************************************************************************)

Foreign(frame) == [frame EXCEPT !.own = FALSE]
Spoiled(frame) == [frame EXCEPT !.clean = FALSE]

\* A frame takes about 1 us and a sample comes every 50 us: the SPI is quiet.
SampleBegins ==
    /\ transfer = 0
    /\ spiTx = None /\ shift = None
    /\ transfer' = 1 /\ wait' = "TDBE" /\ polls' = 0
    /\ ncs' = FALSE
    /\ dt' = Foreign(dt)
    /\ data' = [k \in 1..3 |-> None]
    /\ UNCHANGED <<spiTx, shift, rxErr, gaveUp>>

\* Mutant: the busy flag for RDBF.
FlagSetEarly == IF wait = "TDBE" THEN spiTx = None ELSE shift # None

FlagSet == IF wait = "TDBE" THEN spiTx = None ELSE dt # None

\* Mutant: the count is not advanced.
PollsForEver ==
    /\ transfer # 0 /\ ~FlagSet
    /\ ~(polls > PollMax)
    /\ UNCHANGED sampleVars

\* One turn of a while loop ...
Polls ==
    /\ transfer # 0 /\ ~FlagSet
    /\ ~(polls > PollMax)
    /\ polls' = polls + 1
    /\ UNCHANGED <<transfer, wait, ncs, spiTx, shift, dt, data, rxErr, gaveUp>>

\* ... until the count is over: TIMEOUT.  The answer is not waited for, and
\* nothing reads it.
GivesUp ==
    /\ transfer # 0 /\ ~FlagSet
    /\ polls > PollMax
    /\ ncs' = TRUE /\ shift' = Spoiled(shift)
    /\ rxErr' = IF rxErr < RxErrMax THEN rxErr + 1 ELSE rxErr
    /\ gaveUp' = (gaveUp \/ wait = "RDBF")
    /\ transfer' = 0
    /\ UNCHANGED <<wait, polls, spiTx, dt, data>>

SendsCommand ==
    /\ transfer # 0 /\ wait = "TDBE" /\ FlagSet
    /\ spiTx' = [cmd |-> Command(transfer), own |-> TRUE, clean |-> TRUE]
    /\ wait' = "RDBF"
    /\ UNCHANGED <<transfer, polls, ncs, shift, dt, data, rxErr, gaveUp>>

\* NCS_SET, and for the next transfer NCS_RESET: a frame under way is spoiled.
ReadsAnswer ==
    /\ transfer # 0 /\ wait = "RDBF" /\ FlagSet
    /\ data' = [data EXCEPT ![transfer] = dt] /\ dt' = None
    /\ shift' = Spoiled(shift)
    /\ wait' = "TDBE" /\ polls' = 0
    /\ IF transfer = 3
       THEN transfer' = 0 /\ ncs' = TRUE
       ELSE transfer' = transfer + 1 /\ ncs' = FALSE
    /\ UNCHANGED <<spiTx, rxErr, gaveUp>>

EncoderSample == SampleBegins \/ Polls \/ GivesUp \/ SendsCommand \/ ReadsAnswer

SampleNext == EncoderSample \/ SpiGoes

SampleSpec == SampleInit /\ [][SampleNext]_sampleVars

-----------------------------------------------------------------------------
(***************************************************************************)
(* Properties                                                              *)
(***************************************************************************)

\* What Encoder_Sample returns TRUE with: answers of this sample to its own
\* commands, shifted in under an unbroken chip select.
Whole(answers) ==
    \A k \in 1..3 : answers[k] = [cmd |-> Command(k), own |-> TRUE, clean |-> TRUE]

\* A time-out costs more than its sample.  The answer it did not wait for stays
\* in SPI1->dt and every later sample takes each answer one transfer late, also
\* after more time-outs: Encoder_Sample returns TRUE with an angle put together
\* from its own answers exactly as long as no wait has ever given up.
WholeUntilGivenUp ==
    [][transfer = 3 /\ ReadsAnswer => (Whole(data') <=> ~gaveUp)]_sampleVars

=============================================================================
