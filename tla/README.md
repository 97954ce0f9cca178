# Verification of the AT32F403A / FD6288Q motor drive firmware

The firmware (in `src/`) drives a three-phase motor by field-oriented control.
This directory holds TLA+ modules translated from it, TLC configurations that
check them on small instances and proofs that TLAPS checks for all instances.

    tlc -config MCMotorDrive_drive.cfg MCMotorDrive     # and the other .cfg files
    tlapm MotorDriveProofs.tla                          # and the other ...Proofs modules

## The system

### Execution contexts

There is no operating system and no critical section. Four contexts share the
global structures of `Foc/mc_type.h`. Priorities are set in `Bsp/init_mcu.c`
and `Sys/config.c`.

| context | entry | preempted by |
|---|---|---|
| main loop | `main` polls `Speed_CmdSpdSet` (`Sys/main.c`) | every interrupt |
| TMR3, 4 kHz | `Motor_SysTickerIsrHandler` (`Foc/motor_control.c`) | ADC, USB |
| ADC, 20 kHz | `Adc_CheckOffset` until ready, then `Motor_MainIsrHandler` | nothing |
| USB | `usbd_irq_handler`, and from it `parse_frame` (`Bsp/usb.c`) | nothing |

### Components

| component | state | operations | what makes it correct |
|---|---|---|---|
| Drive control `motor_control.c`, `isr.c` | `MotorRunPara` (status, fault word, loop flags, direction), TMR1 outputs and compare registers, `MotorSvpwm` | `MotorSW_Init`, `Motor_MainIsrHandler`, `Motor_SysTickerIsrHandler`, `Motor_FastStop` | a fault or a stop takes the bridge off; no old vector reaches an enabled bridge; a run goes through its stages in order |
| Start-up `startup.c` | `MotorStartup.status`, its counters and forced currents | `Startup_Init`, `Startup_Control` | each loop is closed at its step, the ramps meet their targets |
| Stop `stop_control.c` | `MotorStopCtrl.Status` | `Stop_Init`, `Stop_Control` | every path ends in `Motor_FastStop` |
| Speed command `speed_set.c` | `MotorCmdSpdSet`, `MotorSpdCtrl` | `Speed_CmdSpdSet`, `Speed_TgtSpdTraj` | a stop and a reversal are carried out; the target stays within its limits |
| Calibration `calibration.c` | `MotorCalibCtrl` | `Calibration_Start`, `Calibration_Loop` | it is powered while it lasts, and it ends |
| Protection `protection.c` | three voltage counters, one current counter, the fault word | `Prot_MonitorVbus`, `Prot_MotorOverCurrent` | a bit follows its sustained condition although two interrupts rewrite the word |
| Current offsets `adc_sample.c` | accumulated offsets, `bAdcRdy` | `Adc_CheckOffset`, `Adc_Sample` | the drive is ready only with offsets in bounds |
| Host commands `usb.c` | the receive buffer; writes `MotorCmdSpdSet` and starts calibrations | `parse_frame` | no frame leaves the shared state inconsistent |
| Main loop `main.c` | print selection | polling, telemetry | commands are taken up |
| PI controllers `pi_calc.c` | integrals | `PID_PosPid`, `PID_IncPid` | outputs stay clamped |
| Observers `smo.c`, `flux.c`, `hfi.c` | estimates; the enable and polarity state of HFI | `*_Calc`, `HFI_Calculate` | convergence (numeric); the polarity is decided on whole windows, once |
| Encoder `encoder.c`, `spix.c` | raw angle, count, shadow count, velocity; the SPI registers | `Encoder_Init`, `Encoder_Sample`, `Encoder_Loop` | the shadow count follows the rotor; an angle is made of its own answers; no wait hangs the handler |
| Modulation `svpwm.c`, `transform.c`, `vf_control.c` | on-times | `SVPWM_Calc` | the legs make the vector requested and leave the sampling window |
| Filters `filter.c` | ring buffer | `MoveFilter_Init`, `MoveFilter_Fill`, `MoveFilter_Calc` | the average is that of the latest values |
| Time base `timer.c` | software timers | `BTimer_IRQHandler`, `OneMs_Define` | no tick is lost at a carry, a millisecond is measured, the wait ends |
| USB stack `usbd_int.c`, `usbd_core.c`, `usbd_sdr.c`, `cdc_class.c` | connection state, endpoint 1, `g_tx_completed` | bus events, standard requests, `usb_vcp_send_data` | host and device agree; one packet at a time; the telemetry goes on |
| Peripheral set-up `init_mcu.c`, configuration `urs_config.c` | registers, `MotorCfg` | executed once | each time is taken from its own setting |

The build (`ATF403A_FD6288_FPU.uvprojx`) compiles the `Foc`, `Bsp`, `Sys`
directories, the vendor library in `Lib` and the USB stack. `motor_vesc`,
lwIP and FatFs are in the tree and not in the build.

### How they interact, and what is hard

The status word `u32MotorStatus` is written by all four contexts, always with
a plain store after a separate test: main (`speed_set.c:53, 81, 88, 92`), TMR3
(`speed_set.c:107`), ADC (`Motor_FastStop`, the end of a calibration) and USB
(`Calibration_Start`). A store can therefore overwrite what the test never saw.
`MotorSW_Init` re-initialises everything with interrupts enabled. The fault
word is a read-modify-write of two contexts of different priority. The same
pattern returns below the drive: main clears and sets up the encoder count, the
flux filter and the HFI state while the ADC handler uses them, and begins USB
packets on an endpoint the interrupt may close. `PROJECT.json` lists these
hazards at their lines.

## The modules

| module | what it is |
|---|---|
| `MotorDrive` | the drive core: the four contexts, the bridge, the loops, the sequencers |
| `RunSession` | abstract specification of one run of the motor, which `MotorDrive` implements |
| `TripLockout` | `MotorDrive` with the exact over-current counter: how long a trip keeps the motor off |
| `Protection` | the two protections with exact counters and a split fault-word update |
| `Startup` | the start-up with its counters, ramps, references and encoder offset; each sample a step of `MotorDrive!StartupControl` |
| `CalibrationSeq` | the calibration with its counters and vectors; each sample a step of `MotorDrive!CalibrationLoop` |
| `SpeedCommand` | the command words with the width of an `int32_t`, up to the ramp |
| `OffsetCheck` | `Adc_CheckOffset` with its delay, sums and verdict |
| `EncoderSample` | the three SPI transfers of a reading against the peripheral |
| `EncoderCount` | the count arithmetic of `Encoder_Loop` against the rotor and `Encoder_Init` |
| `MoveFilter` | the moving average of the flux observer, shared by three contexts |
| `Hfi` | the polarity search of high-frequency injection |
| `UsbLink` | the USB device between the telemetry of main and the host |
| `BaseTimer` | the software timers and the wait of `OneMs_Define` |
| `Svpwm` | `SVPWM_Calc` over exact fractions |
| `MCMotorDrive`, `MCTripLockout`, `MCStartup`, `MCComponents` | instances for TLC |
| `MotorDriveProofs`, `TripLockoutProofs`, `ProtectionProofs`, `StartupProofs` | theorems about the module of that name |
| `EncoderProofs` | theorems about `EncoderSample` and `EncoderCount` |
| `ObserverProofs` | theorems about `Hfi` and `MoveFilter` |
| `PowerStageProofs` | theorems about `OffsetCheck`, `CalibrationSeq` and `Svpwm` |
| `ComponentsProofs` | theorems about `SpeedCommand`, `BaseTimer` and `UsbLink`, and about `MCComponents` |

`TripLockout` composes `Protection`'s counter with the whole drive by EXTENDS;
`Startup` and `CalibrationSeq` are tied to `MotorDrive` by `INSTANCE ... WITH`.
The modules from `SpeedCommand` to `Svpwm` are components that share no variable
with each other, and so does `CalibrationSeq`. `MCComponents` puts them side by
side by EXTENDS and explores one at a time, the one its variable `at` names, with
the others at their initial states; what is true of one there is true of it alone.

### MotorDrive

*State.* One variable per shared word, named after it: `status`
(`u32MotorStatus`), `fault` (`u32FaultCode` as a set of bits), `pwmOn` (the
channel enables of TMR1), `duty` (its compare registers), `svpwm` (what
`MotorSvpwm` holds), the three loop flags, `startup`, `stopSt`, `calib` and
`outType`, the target direction and speed, the four command words, `adcRdy`, and
the program counters and registers of main (`mpc`, `mreg`) and TMR3
(`tpc`, `ti`, `treg`). The comment of each variable names its C counterpart.

*Actions.* The ADC and USB handlers cannot be preempted, so a whole handler is
one action, one per path: `AdcOffset`, `AdcTrip`, `AdcIdle`, `AdcCalibrate`,
`AdcRun`, `AdcStop`, `AdcSpurious`; `HostSetsSpeed`, `HostReverses`,
`HostCalibration`. TMR3 and main are cut at each access to a word a handler of
higher priority reads or writes; a store that depends on an earlier test is an
action of its own (`MainAct` then `MainStop`, `TmrRampedDown` then `TmrStop`,
`TmrCheckLoads` then `TmrCheckStores`). Main moves only while TMR3 is idle,
since TMR3 returns before main goes on.

*Abstraction.* A PWM vector is `"zero"` or `"vec"`: one that a control loop or
a calibration has computed counts as `"vec"` even when it happens to be zero.
Counters that only delay the end of a step (offset, Align, ForceDrive,
calibration, the voltage times) become a choice of when it ends; `Protection`
and `Startup` keep theirs exactly. Speeds are integers in command units.
The unreachable start-up steps are left out, and `Stop_Control` has
`bEnBrakeStop` FALSE, which nothing in the build sets.

*Timing assumption.* `sampled` says that between the return of one tick and the
beginning of the next at least one conversion interrupt runs: TMR3 ticks at
4 kHz, the conversion is triggered at 20 kHz and has the higher priority. So
`TmrTick` needs `sampled`. It is what makes `Motor_FastStop` run between a
fault that TMR3 sets in one tick and the ramp of the next.

### Protection

The three checks of `Prot_MonitorVbus` run in order; a check either moves its
counter (`TmrCounts`) or, at the end of it, loads the fault word (`TmrLoads`)
and stores it (`TmrStores`), and `Prot_MotorOverCurrent` (`SampleOver`,
`SampleCalm`) may run between the two. The level is one of five, the ranges the
thresholds 6, 8, 26 and 28 V of `urs_config.c` cut. `CheckTime` computes the
times as `MotorSW_Init` does. `hit` is a second timing assumption: the
load-store windows of one tick are microseconds apart and conversions 50 us, so
at most one conversion falls into the windows of a tick. `over`, `calm`,
`above` and `below` are histories: how many samples or ticks in a row a
condition has held or not.

The fault word holds two more bits in `MotorDrive` that `Protection` leaves
out, AD_OFFSET (set before the drive is ready) and UNDEF_INT.

### Startup

One ADC sample in DRV_RUN is one step: `Encoder_Loop` reads the rotor (any
angle) and `Startup_Control` takes the case of its step, `Initialize`,
`BscCharge`, `StateDetect`, `Align`, `ForceDrive`, `CLStart` or `Finish`. The
state is `MotorStartup` (`status`, `align`, the three times `left` counted down
in place, `forceIq`, `forceWr`), the references `IqdRef`, `Encoder.f32_Offset`,
the loop flags and the outputs. Around it: `Start` (the part of `MotorSW_Init`
a run depends on), `Leave` (a store of another status, anywhere), `Halt`
(`Motor_FastStop`, which every sample outside a run calls) and the speed
regulation of TMR3, cut between its test of `bEnSpdPid` and its store of
`IqdRef`. So a run is broken off at every sample, a reference may be stored
after the stop, and the next run begins with what is left.

Currents, speeds and times are integers. `f32_AlignDIq = f32_AlignIq / time` is
a constant of its own, such that `time` steps of it miss the target by less
than `time` units either way, as a rounded division may. The encoder's phase is
the rotor less the offset modulo `Turn`. The assumptions have the aligning
current not above the starting current (`urs_config.c:103, 126`: 1.5 A and
1 A). `rotor` and `held` are not in the program: the angle just read, the
samples held in this run.

`Drive == INSTANCE MotorDrive WITH ...` maps this state to that of `MotorDrive`
(constants stand for what `StartupControl` does not touch), and
`IsStartupControl` says that each sample is a step of its `StartupControl`: the
choices `MotorDrive` makes there cover what the counters do.

`CLStart` also stores half the forced current in `MotorSpdCtrl.f32_Output` and
`f32_WrISum`. No code reads them, since the speed controller is `MotorWrPid`,
whose integral starts from zero, so they are left out.

### TripLockout

Every step is one of `MotorDrive`; `CountsOver` and `CountsCalm` say what
`Prot_MotorOverCurrent` does with its counter and fix the choice that
`OverCurrent` leaves open there. `trip` is a history: "locked" from a trip to its
release, then "released" until main has taken a new command of the host, and
"erased" once TMR3 has stored a word it had loaded before the trip. Timing
assumption: the release takes 5 s (`urs_config.c`), so main has begun two polls
since the trip (`passes = 2`), the second of them with the bit in view.

### CalibrationSeq

One ADC sample in CALIBRATE is one step, `RStart` to `PPEnd`. Of a voltage only
its origin is kept: zero, this calibration, or an earlier run or calibration.
Around the sequence are `CalibrationStart` at any moment (the host), `Halts`
(`Motor_FastStop`), `CalibrationInit` (`MotorSW_Init`) and `MotorRuns`. Whether
the resistance loop has found its current is a choice, as the measured values
are left out.

### SpeedCommand

`cmd`, `pre`, `cmdDir` and `cmdWr` are the words of `Speed_CmdSpdSet`; `Loads`
and `Stores` are its two accesses to `i32CmdRpm`. Integers are `Int32` of any
width, with `Neg` of the smallest one being itself, as the compiled code has it.
The stop and the start-up are cut to `Stops` and `Starts`, which `MotorDrive` has
in full.

### OffsetCheck

`Wait`, `Accumulate` and `Check` are the three stages of `Adc_CheckOffset`. A
failed check divides the offsets again at every later sample: `off / den` keeps
the fraction exactly, up to `DenMax`, above which the value has become 0, as a
`float32_t` does in the end. A reading has 12 bits and 1000 of them are divided, so
a value divided twice is below the bounds (`OffsetAssumption`).

### EncoderSample and EncoderCount

`EncoderSample` is `Encoder_Sample` for the MT6816, the encoder that is built:
three transfers, each waiting for the transmit buffer and for the answer with
one count of polls. The SPI is external and modelled by what the code uses of it: a
transmit buffer, a shift register and the receive register `dt`, whose flag stays
up until it is read. Of an answer it is kept which command it belongs to, which
sample sent that and whether the chip select stayed low. Timing assumptions: the
SPI is quiet when a sample begins (a frame takes 1 us of the 50), and a poll is
shorter than a frame.

`WholeUntilGivenUp` says both directions: readings are whole before the first
answer that was given up, and never after it, since nothing empties the receive
register. That is a stale angle, one transfer late, for the rest of the session;
no line of the repository promises a recovery.

`EncoderCount` begins where the angle is known: mirrored for CW, wrapped into a
turn, its difference unwrapped into the shadow count. `RotorMoves` is the motor,
below half a turn between two readings. The stores of `Encoder_Init` are steps of
their own, since the ADC handler may run between them; `torn` is a history of
that. The `> ENCODER_CPR` of the wrap leaves a count of `Cpr` for the mirrored
angle 0: it stands for 0 and loses nothing, as the proof shows.

### MoveFilter

`Fill` (ADC), `CalcLoads`, `CalcSums`, `CalcReturns` (TMR3, which the ADC handler
preempts between its loads) and the five statements of `FluxObserver_Init` (main)
share one ring. A `Fill` inside the initialisation can happen, after a trip, when
TMR3 ends the reversal of a stopped drive; it may write through the null pointer,
and `tornInit` excuses what it leaves behind. At most one conversion falls into a
`Calc`.

### Hfi

`Searches` is the polarity search with the counts of its windows, `Tracks` what
follows, `Injects` the sign of the voltage. `RunSample` does them with the start-up
in the order of `Motor_MainIsrHandler`. The response of the current is one of a
few numbers. `HFI_Init` is a memset in two parts, and at most one sample falls
between them. The first branch of `HFI2Observer_Calculate` is the only one: it
decides on `MotorHFI.f32_WrF`, which nothing writes after the memset.

### UsbLink

The USB interrupt is one step per event: a reset, with or without the wake-up
that comes in the same interrupt, the requests that set address and
configuration, halts, suspend and wake-up, and an IN packet fetched. Main's
`usb_vcp_send_data` is cut into `Tests`, `Sizes`, `Writes` and `Arms`, at what the
interrupt may change under it: `Writes` without an open endpoint goes over the
packet-memory table of endpoint 0. The host is external: it enumerates, starts
again when a request fails, and may be restarted at any time. `polled` says that
main goes once through its call between two requests, which are milliseconds
apart. `plain` hosts neither halt endpoint 1, nor clear a halt, nor set the
configuration twice; others do all three, and `OnePacketInFlight` does not hold for
them. Clearing a halt arms the endpoint whether it was halted or not
(`usbd_clear_stall`), so that the last packet may be sent once more.

### BaseTimer, Svpwm

`BaseTimer` has the four counters of `BTimer_IRQHandler` and main in
`OneMs_Define`. The flag is read anew at every turn of the wait: it is not
`volatile`, and the project file builds without optimisation. `Svpwm` computes
the on-times from two line voltages with exact fractions, truncated where the
code converts to `uint16_t`.

## What the runs check

| run | instance | shows |
|---|---|---|
| `drive` (554k states) | SMO, reversal by a stop of main (`i32BreakEnable`), two speeds below and above the step, all ADC faults, one voltage check | `TypeOK`, `PwmOffImpliesZero`, `LoopsFollowStartup`, and that every behaviour is a `RunSession` |
| `cold` (649k) | SMO, over-current and its release, no calibration, `ColdSpec` | `ColdStart`, `PhaseOrderChangesOnlyWhenOff` |
| `calib` (239k) | encoder, calibration at any moment, spurious interrupts that stop the drive, fair | `CalibrationPowered`, `CalibrationEnds` |
| `live` (115k) | SMO, reversal by ramping down as shipped (`i32BreakEnable` FALSE), voltage faults, all commands, fair | `FaultShutsBridge`, `StopHonoured`, `ReversalCompletes` |
| `lockout` (1.1M) | HFI with SMO and its short start-up, 2 samples to trip and 2 to release, one voltage check | `TripLocksOut`, `ReleasedAfterCalm` |
| `protection` | 4 kHz, times of 2, 1 and 1 ticks, 3 samples to trip and 4 to release | the counters and the fault-word race |
| `ovtime` | the shipped times | the first finding below |
| `startup` | SMO, align times of 4, 3 and 2 samples, ramp steps that do not divide their targets, fair | `NoCurrentKick`, `OvershootBelowOneStep`, `StartupFinishes`, `IsStartupControl` |
| `startupEncoder` | encoder, align times of 2, 0 and -1 samples, a turn of three angles | `OffsetIsRotorAngle`, and `AlignLastsItsTime` where a time is 0 or less |
| `components` (407k) | the ten components of `MCComponents`, the calibration that of an encoder motor with all its steps | thirteen safety properties, below |
| `componentsLive` (53k) | those of them in which something has to end, fair | `SettlesAtCommand`, `TelemetryComes`, `EveryWaitEnds` |
| `hfiPulse` | HFI with SMO | the second finding below |

`components`: `TypesOK`; `ShadowTracksRotor` and `WholeUntilGivenUp` (encoder);
`CommandAgrees` (speed command over every value of a small integer);
`OffsetFaultIsFinal`; `HostAndDeviceAgree` and `OnePacketInFlight` (USB);
`AverageIsOfRecentValues` (filter); `CalibrationIsComplete` and
`IsCalibrationLoop`; `PolarityIsDecidedOnce` (HFI); `KeepsTime` (time base);
`VectorInWindow` (modulation). `EveryWaitEnds` covers the SPI waits, the polarity
search, the offset check, the wait of `OneMs_Define` and the calibration steps.

*Bounds.* The state of `MotorDrive` is finite once the speeds are: `HostRpms`,
`WrEstimates` and `MaxWr` bound them. Reversal (`HostReverses`) makes the
negative speeds. The minimum speed is 2 in `drive`, so the command 1 is raised
and written back changed; the ramp step is 2 of 3, so a ramp takes more than
one tick and is clipped at its end; an estimate on each side of the step enters
the ramp both ways. One voltage check is enough where only the split update
matters; the order of the three is `Protection`'s. In `Protection` the times
are the smallest that tell the checks apart, that let TMR3's store fall before,
at and after the trip, and that let a release begin again; the histories stop
one past the time they are compared with (`Bump`). In `Startup` everything
is finite without a bound: the times run down, the ramps end. In `startup` the
targets are no multiples of the steps, so a ramp passes its target and is set
back to it; the outputs of the speed controller have either sign and exceed a
step, so one left over would be seen.

`i32BreakEnable` is FALSE, as shipped, in every run but `drive`, where main stops a
reversal; `ReversalDescends` and the theorems about the safety properties hold for
both.

`cold`, `calib`, `live` and `lockout` split the fault sources where both at once
multiply states and not behaviours, and say which by `IsrFaults` and
`VbusChecks`. In `lockout` the times are the shortest for which a trip and a
release are counts and not single samples; only their ends are compared.

In `components` the numbers are the smallest that keep the cases apart: a turn of
4 counts with the rotor going up to 3 either way and one garbled angle above a
turn, which the wrap takes off more than once; integers of -8 to 7 (in
`componentsLive` -6 to 5), with the smallest, 0 and speeds below the minimum among
the commands; readings in bounds, at the bounds and out of both; two polls before
an SPI wait gives up; a ring of three values; an even and an odd number of samples
in the inductance loop; windows of the polarity search of 5, 3, 2 and 2 samples;
line voltages up to three times the largest the legs can make; 60 ticks, two
seconds and a half of the small time base. Two bounds cut a counter that runs on
in the code: `MaxTicks` (`BaseTimer`) and `MaxPos` (`EncoderCount`, where a
garbled angle is taken only while the shadow count is within it).

*Why `cold` has a specification of its own.* `ColdStart` and
`PhaseOrderChangesOnlyWhenOff` are true under two conditions, and TLC shows the
runs that break them without each. A fault may clear itself at the wrong moment:
main sees it (`speed_set.c:49`), the ADC handler clears it, and the forced IDLE of
`speed_set.c:53` lands on a drive that is still on; the next poll starts a new run
with the bridge on and, if the command was for the other direction, with the phase
order swapped under power. `ColdSpec` takes out exactly that store
(`MainForceIdle => fault # {}`): faults may come, clear themselves and come again
everywhere else. And a calibration ends in IDLE with the bridge on, so main may
start the motor before the next sample calls `Motor_FastStop`; there is none in
`cold` (`HostCalibrates = FALSE`). Nothing in the repository promises otherwise, so
these are hazards and not findings. `RunSession`, whose `Begin` does not ask for a
bridge that is off, is what holds always.

*Lost updates.* A fault bit set by the ADC handler between TMR3's load and
store is lost. For over-current the handler counts again and
`SustainedOvercurrentTrips` bounds the loss: the trip comes one sample later.
A bit cleared in the window comes back with its counter at 0, the next calm
sample takes it to -1, and the test `<= 0` releases it. UNDEF_INT is set once,
so when it is lost it is lost for good; the bridge has been stopped, and main
restarts the motor. A host command stored between main's load and write-back is
lost as well; `StopHonoured` names this in its excuse `cmdRpm # 0`.

### The findings

`motor_control.c:87` computes `MotorProtectVbus.i32OvpTime` from
`i32PeakOverCurrTimeUs`. The configuration has a setting of its own for it,
`urs_config.c:144-146` (`// Over voltage (V)`, `i32OverVoltageTimeUs = 1000`),
which no code reads. In run `ovtime` an over-voltage trips at 2 ticks, not 4.

`hfi.c:63` says that stage 1 of the polarity search applies a positive current
pulse of 5 A. `HFI_Calculate` stores the pulse in `MotorHFI.f32_IdRef`, which no
code reads; the d reference of the current loop is `IqdRef.f32_D`, and that is 0
(`startup.c:133`, `motor_control.c:244`). Run `hfiPulse` reaches stage 1 with the
loop closed and the reference 0. The two sums the verdict compares are therefore
not the answers to two pulses. (The wait before it is 10400 calls,
`hfi.c:59`, where the comment of line 60 says about 400.)

### Fairness

`FairSpec` assumes no more than the hardware and the scheduling give.

- `WF(AdcIsr)`, `WF(Tmr3)`: the two timers run for ever once started, and a
  handler that has begun goes on.
- `WF(AdcOffset /\ ...)`, `WF(AdcRun /\ startup' # startup)`,
  `WF(AdcCalibrate /\ calib' # calib)`: the counters these steps wait for only
  move one way while the step is selected, so the step ends.
- `WF(StartupControl /\ status # "Finish")` in `Startup`: the conversion
  interrupt keeps coming. `StartupFinishes`, checked there from the counters, is
  what the assumption on `AdcRun` above takes for granted in `MotorDrive`.
- `SF(TmrRamp \/ TmrRampedDown)`: speed regulation is due every
  `i32SpdRegTime` ticks. Weak fairness would not do: between ticks it is not
  enabled.
- `SF(Main)`: main is preempted again and again and never starved; the handlers
  take a fraction of their period.

- `MCComponents!FairSpec`: TMR3 ticks, the conversion interrupt keeps coming, a
  handler that has begun goes on and main goes round its loop (weak, as each stays
  enabled until it is taken). The USB host is the exception to the rule below:
  that it polls endpoint 1 and goes on with its enumeration is assumed
  (`In`, `Reset`, `SetAddress`, `SetConfiguration`, `Wakeup`, and `ClearHalt` of an
  endpoint that is halted, strong since a suspend may interrupt them), and so is
  that a reset is not seen together with its wake-up for ever. `TelemetryComes` also
  asks that the host is not restarted without end, `SettlesAtCommand` that commands
  and faults cease.

Otherwise nothing is assumed of the host, and no fault has to occur. A calibration is
assumed to be started finitely often only where a property says so (its excuse).

## What is proved

All theorems hold for every value of the constants under the assumptions named
in the modules: the numbers are natural, a time to trip is at least 1 and not
longer than the time to release, and the fault sources are those of the code.

`MotorDriveProofs`:

- `TypeCorrect`: `Spec => []TypeOK`.
- `OutputsOffZero`, `LoopsCorrect`, `CalibrationIsPowered`:
  `Spec => []PwmOffImpliesZero`, `[]LoopsFollowStartup`, `[]CalibrationPowered`.
- `SessionRefinement`: `Spec => SessionSpec`.

`LoopsFollowStartup` is not inductive: it speaks of DRV_RUN and main stores
DRV_RUN without looking. The strengthening `StartPrepared` says what main has
already done at each point of `MotorSW_Init`, and that no handler undoes it:
from `initCalib` on the loops are open, from `dir` on the start-up is at
Initialize. It needs in turn that during `MotorSW_Init` the status is not
DRV_RUN, which holds because only main stores it. The action lemmas go context
by context, one step per action. The refinement then maps each action to the
step of `RunSession` it takes, or to a stutter.

`ProtectionProofs`:

- `TypeCorrect`, with `ocpCnt \in -1 .. ErrClrTime`: the counter never goes
  below -1.
- `SustainedTrips`, `ReleasedOnlyAfterCalm`: the two properties of the
  over-current protection, from `CurrentInv`. With the bit set the counter and
  the calm samples make up the release time, with it clear the counter lags the
  samples by at most one. The invariant has to speak of the word TMR3 is about
  to store (`treg`), since the bit that counts is the one that word will bring
  back or erase, and of `hit`, since two samples in one window would let the
  counter run further.
- `VbusFollows`: `Spec => []VbusFollowsSustainedLevel`, from `VbusInv`, which
  relates each counter to its history and the loaded word to the fault word on
  the bits TMR3 owns.

`StartupProofs` (assuming `AlignIq <= ForceMaxIq`, positive steps, any align
times and any observer):

- `TypeCorrect`, `OvershootBounded`: `[]TypeOK`, `[]OvershootBelowOneStep`.
- `NoKick`: `Spec => NoCurrentKick`, from `ReferenceInv`: while the start-up is
  not finished TMR3 is not regulating and `bEnSpdPid` is clear, before Align the
  current loop is open and the ramp at 0, in Align and ForceDrive the reference
  is the ramp. The overshoot bound is needed at the hand-over, where the ramp
  of Align may be above the target of ForceDrive by less than a step.
- `AlignHeld`: `Spec => AlignLastsItsTime`, from `AlignInv`: the samples held and
  those still in the counter at work make up the times begun so far, and the
  counters not yet at work are as `Startup_Init` left them.
- `OffsetIsAngle`: `Spec => OffsetIsRotorAngle`, from `OffsetInv`: from the end of
  the first align time to the latch the offset is 0.
- `ImplementsStartupControl`: `Spec => IsStartupControl`; `StartupDescends`, below.

`TripLockoutProofs`:

- `IsDrive`: `LockSpec => Spec`, so every theorem of `MotorDriveProofs` holds with
  the counter in place.
- `LockTypeCorrect`; `CalmBeforeRelease`: `LockSpec => ReleasedAfterCalm`, from
  `Counting`: with the bit set the counter and the calm samples make up the
  release time, whatever TMR3 erases or brings back.
- `LockedOut`: `LockSpec => []TripLocksOut` for a host that does not calibrate
  (`Calibration_Start` takes the bridge in any state). The invariant `Lockout`
  follows main through a whole poll and through `MotorSW_Init`: until its first
  poll after the trip a start it had already decided on may still be stored, which
  the next sample stops; after the second the command is cleared.

`MotorDriveProofs`, without calibrations: `ColdStarts` and `PhaseOrderHeld`,
`ColdSpec => []ColdStart` and `ColdSpec => PhaseOrderChangesOnlyWhenOff`, from
`PoweredRun`: where the bridge is on, the drive is in a run past its arming or
about to be stopped by the next sample, and main is at no point of `MotorSW_Init`.

`EncoderProofs`:

- `CountTypeCorrect`, `CountsAgree`, `ShadowFollows` (every even resolution). The
  invariant has three parts: `Congruent`, the shadow count and the count differ by
  whole turns; `Near`, the rotor is less than half a turn from the last reading;
  `Tracked`, the count is the angle last read, up to whole turns. The unwrapped
  difference is then the one of its class that is less than half a turn.
- `SampleTypeCorrect`, `OwnAnswers`: `SampleSpec => WholeUntilGivenUp` for any
  number of polls, from `SampleInv`: before a wait has given up the peripheral is
  in step with the transfer at work (`InStep`); afterwards there is one frame more
  in the peripheral than the code knows of, at every statement (`OneTooMany`),
  and no sample gets rid of it.

`ObserverProofs`:

- `HfiTypeCorrect`, `PolarityDecided`: `HfiSpec => PolarityIsDecidedOnce` for all
  lengths of the phases, from `HfiInv`: the reference and how long it has been
  held are functions of the count (`References`), the windows hold what has been
  taken at that count (`Samples`) unless a memset has been cut in two, and the
  verdict is still to be applied or has been, never both (`Verdict`).
- `FilterTypeCorrect`, `NeverDividesByZero`, `AverageOfRecent`:
  `FilterSpec => []AverageIsOfRecentValues` for every size of the ring, from
  `FilterInv`: the ring holds the latest values in the order of the write index
  (`Ring`), and what the interrupted `Calc` has loaded lags them by at most one
  value (`CalcProgress`). The sum of a sequence is a recursive function; that it
  is defined, and how it changes when a value is appended or dropped, is proved by
  induction over a set (`InductionInSet`: a set of naturals without a least
  element is empty), as the induction theorems of the library take an operator.

`PowerStageProofs`:

- `OffsetTypeCorrect`; `MeasuredAlways`, the invariant (what is divided is the sum
  of exactly `DetectTime` readings, or below the bounds for good), and from it
  `ReadyMeans` and `FaultFinal`. Arithmetic on products, step by step.
- `CalibTypeCorrect`, `CalibrationComplete` and `ImplementsCalibrationLoop`, for
  all lengths of the loops and both kinds of motor (TLC runs the encoder's, which
  has all the steps), from `CalibInv`: in each loop
  the count the code compares and the samples spent there move together
  (`Progress`), and a step that does not store a vector of its own has the output
  off or this calibration's vector in it (`OwnVector`). A calibration begun
  anywhere resets what the first needs; the second needs only that `R_LOOP` and
  `PP_START` store before they drive.
- `PwmTypeCorrect`, `VectorKept`: `PwmSpec => []VectorInWindow` for every peak,
  limit and bus voltage. `OneOfSix` gives the sector of a vector with the line
  voltages between its legs; `TimesUncut` and `TimesCut` bound the three times by
  the quotients they are cut from (`TimesFit`); six line voltages follow from three
  by `MakesOpposite`.

`ComponentsProofs`:

- `SpeedTypeCorrect`, `CommandsAgree`: for integers of any width, from the same
  statement about the command between `Loads` and `Stores`.
- `TimerTypeCorrect`, `TimeKept`: `TimerSpec => KeepsTime` for all radices, from
  `TimerInv`: in a wait, the milliseconds since it began are the flags still up.
- `UsbTypeCorrect`; `DeviceFollowsHost` from `Followed`, which adds that a host
  about to configure the device has it awake; `OnePacket` from `OneInHand`: at most
  one of the flag, main and the endpoint holds the packet, and a request of the
  enumeration finds main waiting for the flag.
- `ImplementsComponents`: a behaviour of `MCComponents` is one of each of its ten
  components. From it `ComponentsTypeCorrect`, `Spec => []TypesOK`, and
  `ComponentsKeepPromises`, every other property of its run, for all constants.

The descent theorems are the part of the liveness properties that is about the
code: what is waited for gets nearer with every step of whoever is to bring it. They
give the steps still needed as a natural number (`ReversalDescends` as two, a phase
and what is left of it; `RampDescends` as a distance), and prove which steps lower it
and that, but for a new beginning, no other step raises it.

| Theorem | steps | what is counted down |
|---|---|---|
| `StartupDescends` | samples of a run | align times, forced speed and single steps up to Finish (`Remaining`), at any align time and after a run broken off anywhere |
| `CalibrationDescends` | samples in CALIBRATE | the four loops and the steps between them (`SamplesLeft`), never above `MostSamples`; the last sample gives the drive back |
| `VerdictDescends` | conversions | exactly `DelayTime + DetectTime + 1` to the verdict on the offsets |
| `SampleDescends` | steps of `Encoder_Sample` | the polls the two waits of a transfer share, and the transfers left: at most `3 * (PollMax + 3)`, whatever the SPI does |
| `SearchDescends` | samples of a run with HFI | the search and the sample that uses its verdict |
| `FlagDescends` | TMR3 interrupts | those of the millisecond `OneMs_Define` waits for |
| `StopDescends` | steps of main | those until there is no run and none about to begin: at most 11, when the zero finds main past its test of the command with a whole `MotorSW_Init` before it; with none left the next conversion turns the bridge off |
| `ReversalDescends` | the step waited for: of main, TMR3 or the ADC handler | 30 phases from a start-up in the wrong direction to the store of DRV_RUN in the right one (`CommandPhase`), and in a phase main's steps or the speed that has to go (`LeftInPhase`); a cold start is its last phases |
| `TelemetryDescends` | steps of main and of a host that goes on | requests of the enumeration, packets main has in hand before it and may spoil it with, and main's steps to the flag: at most 123 |
| `RampDescends` | TMR3 ticks | the distance of the target speed from the command, by whole steps, never past it; against a new direction the speed itself, down to the stop |

`StopDescends` holds over every interleaving of the four contexts: that nobody but
main stores DRV_RUN is what makes its count fall. `ReversalDescends` has to count a
late store twice over: main may be about to store DRV_STOP or DRV_IDLE over what the
ADC handler has done since (`MainStores`), and TMR3 about to stop a run (`tpc`). Its
invariant `DirectionTaken` says that at the store of DRV_RUN the target direction is
still that of the command. In `TelemetryDescends` the packet main has in hand when the
bus is reset counts for more than a whole enumeration, since writing it may overwrite
the endpoint table; `PacketSomewhere`, that flag, main and endpoint are never all
empty-handed, is what keeps a step to wait for.

What remains with TLC is that the steps come: fairness. A new beginning is a new run
for the start-up, a new `Calibration_Start` for the calibration, `HFI_Init` for the
search, the flag that main clears for the time base, a new command, calibration or
fault for the stop and the reversal, and for the telemetry a host that starts again,
deconfigures, suspends or halts the device, or a reset that the wake-up undoes. A
calibration whose step is NULL while the status is CALIBRATE, which `MotorSW_Init`
can leave behind, is outside `CalibrationDescends`: `Idles` has nothing to count.

Each of these invariants and counts was checked by TLC before it was proved: the
counts of `StopDescends` and `ReversalDescends` on three instances (SMO with and
without brake, encoder with calibration), that of `TelemetryDescends` on the instance
of the runs, where its awaited step was also enabled in every state. With the proofs
every invariant and action property of a passing run is a theorem.

Only model-checked: the liveness properties (`FaultShutsBridge`, `StopHonoured`,
`ReversalCompletes`, `CalibrationEnds`, `StartupFinishes`, `SettlesAtCommand`,
`TelemetryComes`, `EveryWaitEnds`), since the provers have no rule for fairness and
ENABLED. The descent theorems above are what they rest on; `FaultShutsBridge` rests
on a single step, the sample of `AdcTrip`. The two findings are counterexamples.

## What is not modelled, and why

- The floating-point laws: PI controllers, estimators (SMO, flux, the PLLs of HFI
  and encoder), transforms, low-pass. The drive uses of them an estimated speed when
  the loop closes (`WrEstimates`).
- Measured values: resistance, inductance, pole pairs, the numbers of the
  telemetry, the response to the HFI pulses. Their sequences are modelled.
- The angle `f32_DrvAngle` of the start-up, and start-up steps nothing enters.
- The second and third branch of `HFI2Observer_Calculate`, which nothing can reach
  (`f32_WrF` is never written), `MotorFlux_OnlineCalib`, `vf_control.c`, `svm()` and
  `PeriodAvg`, which nothing calls, and encoders the build does not select.
- `spix.c`, `init_mcu.c`, `system_*.c`, the vendor library: register access,
  modelled only as what `EncoderSample` and `UsbLink` use of it.
- Of the USB stack: the data stages of control transfers, descriptors, and the
  OUT endpoint up to `parse_frame`, which is one step of `MotorDrive`.
- `motor_vesc`, lwIP and FatFs are the largest part of the tree and not part of the
  firmware: `ATF403A_FD6288_FPU.uvprojx` does not compile them, nothing compiled
  calls them, and a model of them would say nothing about this program. This is
  why the mapped share of the tree's lines is small.
- A conversion that never completes hangs TMR3 (`init_mcu.c:352`): a hardware
  failure, outside the model. The offset of phase W is never compared
  (`adc_sample.c:71`); `OffsetCheck` has it so, and nothing in the repository says
  what it should be.

## Plan

Done: the drive core, the protections, the start-up, the trip lockout, and the
components of `MCComponents`. What is left, in the order of what matters to the
drive:

1. `MotorDrive` and `Startup` with `bEnBrakeStop` and the other stop modes, should
   the firmware come to set it.
2. The frame parser over the bytes of a frame and the OUT endpoint before it.
3. The PI controllers over fixed-point numbers: clamping and windup.
