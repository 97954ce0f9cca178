---------------------------- MODULE MCComponents ----------------------------
(***************************************************************************)
(* The components beside the drive, for TLC.  They share no variable, so   *)
(* what is true of each does not depend on where the others stand: a       *)
(* behaviour here is one of a single component, the one `at' names, and    *)
(* the others are left at their initial states.                            *)
(***************************************************************************)
EXTENDS EncoderCount, EncoderSample, SpeedCommand, OffsetCheck, UsbLink,
        MoveFilter, Hfi, BaseTimer, Svpwm, CalibrationSeq

VARIABLE at  \* the component explored

vars == <<at, countVars, sampleVars, speedVars, offsetVars, usbVars, filterVars,
          calibVars, hfiVars, timerVars, pwmVars>>

\* Every int32_t, the smallest and 0 and those below the minimum among them, and
\* estimates of either sign and above the maximum.
AllRpms   == Int32
Estimates == {-3, 0, 6}

-----------------------------------------------------------------------------
\* The components in which something has to come to an end, and the others.
Lively == {"speed", "offset", "usb", "spi", "calib", "hfi", "timer"}
Places == Lively \cup {"count", "filter", "pwm"}

AllInit ==
    /\ CountInit /\ SpeedInit /\ OffsetInit /\ UsbInit /\ (at # "usb" => plain)
    /\ SampleInit /\ FilterInit /\ CalibInit /\ HfiInit /\ TimerInit /\ PwmInit

Init       == at \in Places /\ AllInit
LivelyInit == at \in Lively /\ AllInit

Next ==
    /\ UNCHANGED at
    /\ IF at = "count"  THEN CountNext   ELSE UNCHANGED countVars
    /\ IF at = "speed"  THEN SpeedNext   ELSE UNCHANGED speedVars
    /\ IF at = "offset" THEN OffsetNext  ELSE UNCHANGED offsetVars
    /\ IF at = "usb"    THEN UsbNext     ELSE UNCHANGED usbVars
    /\ IF at = "spi"    THEN SampleNext  ELSE UNCHANGED sampleVars
    /\ IF at = "filter" THEN FilterNext  ELSE UNCHANGED filterVars
    /\ IF at = "calib"  THEN CalibNext   ELSE UNCHANGED calibVars
    /\ IF at = "hfi"    THEN HfiNext     ELSE UNCHANGED hfiVars
    /\ IF at = "timer"  THEN TimerNext   ELSE UNCHANGED timerVars
    /\ IF at = "pwm"    THEN PwmNext     ELSE UNCHANGED pwmVars

Spec == Init /\ [][Next]_vars

\* Main goes round its loop, TMR3 ticks and the conversion interrupt keeps coming;
\* no fault is assumed to stop the drive.  A handler that has begun is not
\* preempted.  The host polls endpoint 1, wakes the device, clears its halts and
\* goes on with its enumeration; a reset is not for ever seen too late.
FairSpec ==
    /\ LivelyInit /\ [][Next]_vars
    /\ \/ /\ at = "usb"
          /\ WF_usbVars(Sends) /\ SF_usbVars(In)
          /\ SF_usbVars(Reset) /\ SF_usbVars(SetAddress) /\ SF_usbVars(SetConfiguration)
          /\ SF_usbVars(Wakeup) /\ SF_usbVars(tx = "stall" /\ ClearHalt)
       \/ /\ at # "usb"
          /\ WF_speedVars(Loads \/ Stores \/ Stops \/ Starts) /\ WF_speedVars(Tmr3)
          /\ WF_offsetVars(at = "offset" /\ CheckOffset)
          /\ WF_sampleVars(transfer # 0 /\ EncoderSample)
          /\ WF_calibVars(at = "calib" /\ CalibrationLoop)
          /\ WF_hfiVars(RunSample)
          /\ WF_timerVars(at = "timer" /\ OneMsDefine)
          /\ WF_timerVars(at = "timer" /\ TimerIrq)

-----------------------------------------------------------------------------
(***************************************************************************)
(* Properties: those of the modules, where each component is explored      *)
(***************************************************************************)

\* Every variable of every component keeps its type: among them the counters and
\* indices that the handlers compare and wrap.
TypesOK ==
    /\ at \in Places
    /\ CountTypeOK /\ SpeedTypeOK /\ OffsetTypeOK /\ UsbTypeOK
    /\ SampleTypeOK /\ FilterTypeOK /\ CalibTypeOK
    /\ HfiTypeOK /\ TimerTypeOK /\ PwmTypeOK

\* The host that goes on trying gets its telemetry.
TelemetryComes == at = "usb" => TelemetryFlows

\* A sample in its SPI transfers, a run whose polarity is not known, a drive whose
\* offsets are not, main before its loop, a calibration in one of its steps.
Waiting ==
    CASE at = "spi"    -> transfer # 0
      [] at = "hfi"    -> status = "DRV_RUN" /\ ~(nsdFlag = 1 /\ nsdOut = 0)
      [] at = "offset" -> ~(ready \/ fault)
      [] at = "timer"  -> waitAt # "loop"
      [] at = "calib"  -> calibrating /\ step \notin {"R_START", "NULL"}
      [] OTHER -> FALSE

\* None of these lasts for ever: the ADC handler does not hang on the SPI whatever
\* the peripheral does, the polarity is found and used unless the run is broken
\* off, the offset check gives a verdict, OneMs_Define returns, and no current,
\* angle or voltage left over keeps a calibration in a loop.
EveryWaitEnds == Waiting ~> ~Waiting

=============================================================================
