# TLA+ models of the TGU Robocore auto-aim pipeline

This directory holds the specifications kept beside the code: TLA+ modules of
the parts of the program whose correctness lies in their control flow, the TLC
runs that check them on small instances, and TLAPS proofs of the facts that
should hold for every configuration. Paths are relative to the repository.

## 1. The system

The program is a RoboMaster vision stack: a camera frame goes through a
detector, a PnP solver, a tracker with a Kalman filter, an aimer that picks the
armor plate to aim at and an aiming time, and a shooter that decides whether to
fire; a serial library exchanges packets with the gimbal controller; a logger
and a Foxglove server serve everybody. At this commit there is no main loop yet
(`task/sentry.cpp` and `app/auto_aim/auto_aim.cpp` are commented out): the
callers are the test programs under `task/test/`, and the pipeline is meant to
run in one thread.

| Component | State it keeps | Operations | Uses |
|---|---|---|---|
| `app/auto_aim/tracker` | `state_`, `detect_count_`, `temp_lost_count_`, `target_`, `last_timestamp_` | `track` (filter, sort, `set_target` or `update_target`, `state_machine`, divergence tests) | Solver, Target |
| `app/auto_aim/target` | kind, `jumped`, `last_id`, `update_count_`, `is_converged_`, filter | constructor, `predict`, `update`, `diverged`, `convergened` | EKF |
| `tools/extended_kalman_filter` | `x`, `P`, the window of chi-square results and its counter | `predict`, `update` | |
| `app/auto_aim/aimer` | `lock_id_`, `debug_aim_point` | `aim` (two overloads), `choose_aim_point` | Target, Trajectory |
| `app/auto_aim/shooter` | `last_command_` | `shoot` | Aimer's `debug_aim_point` |
| `app/auto_aim/detector` | thresholds; per frame lists of lightbars and armors | `detect` (whole frame, and inside one armor's region), `check_*`, `get_*`, `save` | Classifier |
| `app/auto_aim/armor` | value types | constructors | |
| `app/auto_aim/voter` | a table of counts | `vote`, `count` | |
| `app/auto_aim/solver` | calibration, `R_gimbal2world_` | `solve`, `optimize_yaw`, reprojection | OpenCV |
| `app/auto_aim/classifier` | the network | `classify`, `ovclassify` | OpenCV, OpenVINO |
| `io/serial` `RingBuffer`, `StructParser` | buffer indices and size; frame head; output | `push`, `pop`, `at`, `input` | |
| `io/serial` `Serial` | port, `is_open_`, callbacks | `open`, `close`, `write`, `spin_once`, `recv` | Boost.Asio |
| `tools/logger` | level, file stream, mutex | `init`, `log` | |
| `tools/foxglove_comm` | server, host and port | `create_server`, `reset`, ... | Foxglove SDK, Logger |
| `tools/crc`, `math_tools`, `trajectory` | none | pure functions | |

How they interact: by calls in one thread, with three exceptions worth a
model. The tracker's `Target` is copied into the list `track` returns, and the
aimer advances that copy; the shooter reads the aimer's `debug_aim_point`, a
public field that the last *successful* call left behind; and all serial
callbacks for one packet type share one static parser, so bytes of different
ports meet in one buffer. The logger is the only part with a lock, and every
`FoxGloveComm` that is created configures it once more.

## 2. What is hard, and what would be correct

* **Tracker.** Long sequences of sightings, misses, time gaps, divergences and
  failed chi-square tests. Correct: it engages a robot only after the
  configured number of consecutive sightings of that robot, keeps it through a
  bounded number of misses, never passes from one robot to another without
  starting over, returns only targets that pass both tests, and lets nothing of
  one target's filter reach the next.
* **Aimer and shooter.** State left by one call and read by the next
  (`lock_id_`, `debug_aim_point`, `last_command_`). Correct: the plate aimed at
  is one that faces the shooter, the choice does not oscillate, and a shot is
  fired only on a command issued for the present target.
* **Solver.** The candidates for the yaw of an armor cross the direction where
  angles jump by a turn, and their errors may be equal or no numbers. Correct: the
  first candidate with the least error wins, and it is near where the gimbal faces.
* **Serial link.** Frames cut anywhere, noise, payloads that contain the frame
  head, a capacity limit, reopening, a read without a timeout. Correct: an
  aligned stream is delivered exactly; after noise the parser finds the frames
  again; the buffer never underflows or overflows; the program and its peer do
  not end up waiting for each other.
* **Checksums.** Two tables of 256 numbers. Correct: they belong to the
  polynomials the other side uses, and damage of a frame shows.
* **Detector.** Conflicts between armors that share lightbars are resolved by
  pairwise marking. Correct: no two armors that remain share a lightbar, and a
  conflict does not delete all of its parties.
* **Logger, Foxglove server.** Initialisation twice, a level read outside the
  lock; a server replaced, moved and destroyed while others compete for its
  address. Correct: a message goes where configured, and `ok()` is the truth.

`PROJECT.json` lists each hazard at its line with the properties that cover it,
or the reason why none does.

## 3. Modules, and how they correspond to the code

| Module | Models | Composes with |
|---|---|---|
| `Target` | `Target` and the window of `ExtendedKalmanFilter`, as operators on a record | used by `Tracker` |
| `TrackingContract` | what `track` promises, frame by frame | implemented by `Tracker` |
| `Tracker` | `Tracker::track` and the functions it calls | |
| `Detector` | `Detector::detect` on a whole image | |
| `AimContract` | what the callers of `aim` see | implemented by `Aimer`, used by `Shooter` |
| `Aimer` | `Aimer::aim`, `choose_aim_point` | |
| `Shooter` | `Shooter::shoot`, in a loop of frames with `aim` | instantiates `AimContract` |
| `RingBuffer`, `StructParser` | the classes of the same names | used by `Framing` |
| `Framing` | one sender, one line with faults, one parser | |
| `Serial` | ports, callbacks and the parser they share | |
| `SerialLoop` | the loop of `test_serial.cpp` and the peer of its port | extends `Serial` |
| `Solver` | `Solver::solve`, `optimize_yaw`, `limit_rad` | |
| `Logger` | `Logger::init`, `log`, as operators | used by `FoxGloveComm` |
| `FoxGloveComm` | objects that own servers, threads that log | |
| `Crc` | both checksums, a sender, a line with a burst, a check | |
| `MC*` | small instances of the above | |
| `*Proofs` | the theorems | |

Operators that end in a description of what they get wrong and are marked
*faulty variant* (`OpenKeepingFlag`, `LosersOfAll`, ...) are no part of the
models. Each is the definition after it with a plausible mistake, and
`PROJECT.json` pairs it with the property that finds the mistake.

### Target and Tracker

The target keeps its kind (name and type), `jumped`, the index `last_id`, the
number of updates, the window of chi-square results with the counter kept
beside it, and, for the 11 numbers of the filter, one of three values: the radii
are in range, out of range, or not a number. That is all of the filter's state
that control flow reads (`diverged`). The filter itself is a free choice:
an update may come out any way, except that a state that is not a number stays so.

A call of `track` is a sequence of steps, as the loop of `update_target` may
update the filter several times: `Track` (the gap test, `remove_if`, the two
stable sorts), `SetTarget` or `UpdateTarget`, `UpdateArmor` for each armor, and
`Finish` (the state machine and both tests that give a target up). `pc` is the
position in the code. The order of the armors matters since `set_target` takes
the first. `priority` is read by the second sort and written by nobody, so it
has any value.

### Detector

What the pixels say is chosen freely: the lightbars and their colours, and for
each pair the verdict on its shape, its ratio, name, confidence and the area of
its pattern. The control is all there: the loop over pairs, the tests in their
order, what is saved, and the pairwise removal. `duplicated` is not read by the
loops that set it, so the two loops are the set of armors that some pair marks
(`Duplicated`). The other `detect`, which refines the corners of one armor of a
YOLO detector, is not modelled: it has no caller and only compares distances.

### Aimer and Shooter

Angles are integers on a circle; a target is the angle of its plate 0 as seen
from the shooter, a spin, the number of plates, whether it has jumped and
whether it is the outpost. `Aim` is `aim` up to its loop: prediction to the time of fire,
first choice, first trajectory. `Iterate` is one turn of the loop. Trajectories
are times of flight chosen freely from a set, which includes times no real shot
has, so all that is shown holds for real ones. Lock mode is used for every robot
but the outpost, because the code's other condition tests `x[8]`, a radius,
against 2 (section 7). `KeepsItsPlate` says what "stable" means: a plate chosen
from two is not left while it is in the window, from one choice to the next,
whether the choices belong to one call or two and whether or not there was a
trajectory. Once the window has held no plate or one alone, the next choice
between two is free to take the nearer.

`Shooter` composes `shoot` with what `AimContract` says of `aim`; it does not
repeat the aimer: `Compute` and `Command` are `Aimer::aim` with any command
and any validity the contract allows. Its definitions have names of their own (`ShooterNext`,
`stage`, `commanded`), as one module holds the theorems about both. `Command` includes the shift of the yaw by a shoot mode's
offset, which the second overload of `aim` makes also without control.

### Serial

`RingBuffer` has the array and the three counters, `StructParser` the loop of
`input`. `Framing` puts a sender of frames before them, and a line that inserts
bytes (`Noise`) and loses any number of them (`Lose`). A byte that is changed on
the way is one lost and one inserted.

`Serial` is a level above: the parser is the list of bytes in it. That it may be
seen so is theorem `InputContent`. It has the flag `is_open_` and, separately,
whether the device is held (`handle`), since they differ after a failed option
and after a failed read. Bytes are pairs of a port and a number, so that a
property can say where a packet's bytes came from; heads are recognised by
position, that is, payloads without the head, as `ResyncWithinTwoFrames` needs.
A callback that throws does so at any packet. A port may have several
callbacks, each of which is handed every chunk; `Copies` is what the
parser then sees. `Feed` is the parser's loop as a recursive function of the
number of bytes, which the proofs follow byte by byte.

`SerialLoop` puts a caller before it. The caller "any" makes every call in any
order (`Next` of `Serial`); the caller "main" is the `while (true)` of
`task/test/test_serial.cpp`: `open`, `recv`, then `spin_once` and `send` for
ever. `spin_once` blocks in `read_some`, so `MainReads` is possible only while
bytes are on the line. The peer sends by itself ("streams"), or answers each frame
with one, after a first of its own ("greets") or not ("answers"). What main
sends always reaches the peer; what the peer sends may be lost when the port is
opened, also when it was open before: `open` closes the device first, and a driver
need not keep what waited there (`Kept`). `lost` notes this for `LastFrameArrives`
alone, whose hypothesis has the port left alone while the two frames come; no
guard reads it.

### Solver

Angles are integers and half a turn is `Half`; PnP gives any yaw and the
reprojection any error, either of which may be no number. `limit_rad` is its two
loops, one turn a step (`Lower`, `Raise`), because what is to be shown of it is
that it ends and where. `Begin`, `Candidate`, `Compare` and `Return` are the loop of
`optimize_yaw`. `tried` remembers the errors for the properties and is read by no
guard. An error of a yaw that is no number is none either.

### Logger and FoxGloveComm

`Logger` has the operators `init`, `Enter` and `Write`. `init` and the writing
half of `log` run under the mutex, each a step; the level is compared before it
is locked, so a call of `log` is `Enter`, then `Write`, with any `init` between.
`stream` is "bad" when an `ofstream` that is open was opened again: the standard
sets its fail bit and keeps the old file. `wanted` and `asked` remember for the
properties what the inits asked for.

`FoxGloveComm` has objects with an `Impl` ("live"), without one after a move
("moved"), or not alive. `Construct` and `Reset` run to the start of the server;
`Started` and `NotStarted` are the rest of `create_server`, so that other
processes can take an address in between. A server owns its address from its
start to its destruction; that is all that is assumed of the SDK.

### Crc

The tables are the code's, entry by entry. `Hit` flips the bits of one burst at
any place of a sealed frame, the checksum included, and `Check` is the test of the callback
in `test_serial.cpp`. `Divide` is the reference: the remainder bit by bit.
A number is the word of its bits, so that shifts and exclusive
ors are functions on eight or sixteen places and the proofs need no arithmetic on
numbers. What the two tables have to do with their polynomials is the
assumption `TableAssumption`: each of the 256 entries is eight shifts of its index. It is a
statement about 512 written-out numbers, so TLC decides it, in every run of
the module. (The same test program never
fills in `crc16` of what it sends; the model's sender is the controller.)

## 4. Plan

Done, in this order: Tracker and Target with their contract and proofs; the
parser and the framing; Aimer, Shooter and the contract between them; Serial;
Detector; Logger and FoxGloveComm; the loop over Serial; Solver; Crc.

Left:

1. `AutoAim`: detector, tracker, aimer and shooter in one loop of frames. At
   this commit nothing in the sources calls them one after another
   (`auto_aim.cpp` is commented out), so there is no code to be faithful to. When
   there is, it composes `TrackingContract` and `AimContract`, and the property to
   aim for is that a shot is fired only while the tracker is engaged with the
   robot aimed at.
2. The safe halves of liveness: for `EveryAimReturns` and `EverySolveReturns` a
   measure in the natural numbers that each step of a call
   lowers, as a theorem. What then remains to TLC is that a fair step is taken.

## 5. Runs

| Run | What it asks | Bounds |
|---|---|---|
| `tracker` | the counter kept twice, soundness of what is returned, evidence behind tracking, nothing left of the last target, the contract; a steady view is tracked, an absent target is dropped | two robots (one with two plates), two armors a frame, two priorities and distances, window 5 |
| `detector` | no shared lightbar, no removal without rival, no two-armor robot | four lightbars, one name, two confidences above the minimum, two areas |
| `aim_shoot` | aimer: facing plates, stable lock, the contract, calls return; shooter: shots on a valid aim and near the present command, steady aims fire | 18 degrees a unit, three iterations, spins -2, 0, 2, flights of 1 and 2; yaws -2..3, two tolerances, two offsets |
| `framing` | the ring never fills, resynchronisation | frames of 4 in a ring of 5, payloads of two values |
| `serial` | flag and device, order of bytes, arrival of the last frame; main and a peer that spoke first never both wait | one port, three frames of 3, up to two callbacks, all faults, both callers, three peers |
| `solver` | the least error wins, near where the gimbal faces; calls return | half a turn is 7, candidates 3 apart in a range of 10, two errors below the limit, one at it, NaN |
| `services` | `ok()` is the truth, one owner per address; the files lines go to | two objects, two addresses, two threads, two files, three configurations |
| `crc` | tables and polynomials, intact frames pass, bursts are caught | packets of one and two bytes, all bursts of 8 bits, some up to 16, every place |

`aim_shoot` has the two sides of `AimContract` in one module, `MCAimShoot`, but not
at once: a behaviour is one of the aimer, with the shooter at rest, or one of
the shooter, with the aimer at rest, so its states are the sum of both and not
the product. They meet in the contract, which the aimer is shown to implement in
the same run and the shooter is built on.

The type invariants are all proved for every value of the constants; runs check
those of `Solver` (the type says that `limit_rad` leaves no angle out of
(-pi, pi]) and of `SerialLoop` (the parser holds less than a packet) as well, and
not the others.

Why the bounds are enough. *Tracker*: a window of 5 has its limit at two
failures, so it is reached, passed and left again by eviction; three sightings and
two frames of patience make each boundary differ from its neighbours; two armors
give every order, and several updates in one call. The window of 100 and
other counts are covered by the proofs. *Detector*: with four lightbars two
armors can share one in each way and also share none; the removal looks at pairs
only. *Aimer*: 18 degrees are fine enough for two plates of four to be within
the 60 degrees of lock mode at once, which is where the lock matters, and three iterations
show the first, a middle and the last (the code has 10; the proofs leave the
number open). *Framing*: the ring is one byte longer than a frame, so indices
wrap at ever different places; a payload byte may equal the second byte of the
head. *Serial*: three frames are one the parser may hold a part of and two to
get in step again; a second callback lets a chunk reach the parser twice. *Solver*: the range is no multiple of the step, as
truncation matters, and from some directions the candidates cross the back; the
proofs leave all of that open. *Services*: a move needs two objects, competition
for an address two owners, the unlocked test of the level two threads; a second
`init` may ask for the same file, another, or none. *Crc*: whether a burst is
caught rests on its bits and its place alone, not on the data (the checksum is
linear), and the damaged frames take both checksums through all 256 entries;
bursts of 16 bits are a sample, as all of them are 32768 at each place.

`MaxSent`, `MaxCallbacks`, `UpdateCap`, `MaxArmors` and `MaxBars` are the bounds
of the models; `UpdateCap` saturates a counter of which only small values are
compared, as does `asked` of `Logger`. `CHECK_DEADLOCK FALSE` in `serial` is for the bound on
bytes sent and because main may really wait for ever for a peer that waits to
be asked; in `crc` because a checked packet is the end.

Fairness. One thread runs everything, so a call that was entered goes on
(`WF_vars(Next)` in `Tracker`, `WF_vars(Iterate)` in `Aimer`, `WF_vars(Optimize)`
in `Solver`), and the callers are endless loops that hand over one frame after another (`Tracker`,
`Shooter`) or call `spin_once` (`LoopFairSpec`; `task/test/test_serial.cpp`).
A peer that owes bytes sends them in the end (`WF_allvars(PeerSends)`), and a
read of main returns when there are bytes. Nothing is assumed of faults, nor of
what the images show, except in the hypotheses of the properties. In
`framing_head` only the sender is fair.

## 6. Proofs

All by TLAPS, for every value of the constants that the named assumptions
allow; these ask for types and, in five cases, for more: a window of
at least one test, the no-robot name not among the names, a frame no longer
than the ring (`ParserAssumption`; a longer struct is never delivered, and the
repository has none), a range of the solver with a whole half
(`SolverAssumption`; the code halves a real number), and angles in which a quarter turn is exact and more than
the window of lock mode (`AimerAssumption`; the window is 60 degrees), and
the tables of the checksums (`TableAssumption`, above, which has no constant in
it: it is true or false once and for all).

* **`TrackerProofs`.** `IInv` joins the type, `NisCountExact` and
  `AnswerIsSound` with what they need: where the loop stands in each part of the
  call (`LoopAtStart`), that a target exists whenever the state is not "lost"
  (`TargetIsSet`), and ranges of the two counters by state (`CountsInRange`).
  The contract's `Confirm` is max(2, `min_detect_count`) and its `Patience`
  max(1, `max_temp_lost_count`): the first sighting never confirms
  and the first miss never loses, whatever is configured. `Refinement` maps
  each step before `Finish` to a stutter, except that a gap is `GiveUp` and a
  first sighting shows when `Finish` returns. `EvidenceHolds` and
  `AcquiredIsFresh` have invariants of their own (`EvidenceInv`, `FreshInv`) that
  follow the update count and the window through a call.
* **`DetectorProofs`.** `AnswersAreDisjoint` rests on one fact, `OneIsMarked`: of two
  candidates with a lightbar in common the loops mark one. `NoBalanceAnswered`
  is strengthened to the candidates (`BalanceInv`). It is why the read past
  the end of a list in `Target::update` (section 7) does not happen behind this detector.
  `RemovedOnlyForRival`: a pair marks one of its two only if they have a lightbar
  in common (`MarkedHasRival`).
* **`AimerProofs`.** `IInv` adds to the type that a valid point is a plate of
  the view it was chosen from; that in lock mode the plate chosen last, with or
  without a trajectory, is in the window, and locked unless it is alone there
  (`Locked`, on which `LockIsStable` rests); and that a call in its loop has a valid point. The arithmetic is
  in lemmas about `limit_rad` (`AtMostTwo`: at most two plates are within the window).
  `AimImplementsContract` is the refinement `Shooter` builds on, and the theorems
  about `Shooter` are in this module too. `ShotsAreNear` is the triangle inequality
  behind a comparison with a remembered command: three tolerances, not one; with
  it goes that the shot's frame had targets, control and a valid aim point.
* **`SolverProofs`.** Angles that differ by whole turns are `Congruent`, and
  the lemmas about this relation hold all of the modular arithmetic. `IInv` says of
  a call that is in `limit_rad` that its angle is congruent to the argument, and of the
  search that `best_yaw` and `min_error` belong to the first least error among
  those tried. `LeastErrorAlwaysWins` and `YawFacesGimbal` are read off at `Return`.
* **`FoxGloveCommProofs`.** All that the program does to the logger is a
  `LoggerStep`, so the two theorems on lines hold of any number of threads and
  any sequence of `init`. `LoggerInv` ties the state of the stream to the number of
  inits that asked for a file: after one it is good or the file is off, after a
  second it is bad for ever. `CommInv` is `TypeOK`, `OkMeansServing`, `OneOwner`
  and that an object in `create_server` has no server yet, without which a start
  could leave a second server behind.
* **`SerialProofs`.** `OpenIsHeld` is inductive with the types of its two
  flags. `MainIsACaller` shows that the loop makes only calls `Serial` allows.
  `NobodyWaitsForEver` rests on two inequalities (`LinkInv`): the peer has sent at
  most a frame more than it was asked for, and of those bytes all but a frame for
  each time main asked are still on the line when main waits; so if the line is
  empty, the peer owes a frame. Where reads cut a frame does not enter.
  `LoopTypeCorrect` has a similar count: each read of main takes a byte that was
  sent, and main asks at most once after each read (`LoopInv`).
  `BytesStayInOrder` is about the way of a port's bytes: the packets delivered,
  then the parser, then the line, read as one sequence (`Pipe`), have them in
  the order in which they were sent. This is inductive (`StreamInv`)
  for every port with at most one callback, whatever the other ports do with
  the parser: faults take bytes out, a chunk moves from the line to the parser, and
  `Feed` moves heads of the parser to the packets or drops them (`FeedCourse`,
  by induction over the bytes of a chunk). The bytes of other ports in
  between do not enter. A second callback of the same port breaks it,
  which is why the property excludes it.
* **`FramingProofs`**, which begins with the ring (`PushAppends`, `PopDrops`).
  `Content` reads the ring as a sequence; modular arithmetic stays in these lemmas.
  `InputContent` then says what `input` does without mention of the ring. `NeverFills`
  and the type are inductive together (`BufferInv`). `CleanDelivery`: without
  faults the ring holds exactly the unfinished part of the current frame
  (`CleanInv`), so each frame is delivered at its last byte, *whatever its
  payload*. `Resynchronises` needs that the head's first byte occurs in no
  payload; `ResyncInv` counts from the last fault: one frame later the ring ends
  in the current frame or holds no head, and from then on the parser is in step.

* **`CrcProofs`.** The four properties hold of frames of every length and of every
  burst up to the checksum's width. `CrcInv` says how the frame came about. The
  checksum of a frame is a run of a register, one bit of the frame
  a step; `Table8IsDivision` and `Table16IsDivision` show that a step of the loop
  in the code is eight of those, from `TableAssumption`, because a step commutes
  with exclusive or (`StepXor`). In a frame that
  passes, the last bits are what the register held before them
  (`Passed8IsClosed`, `Passed16IsClosed`), so it ends with zeros
  (`RunDrains`). If a damaged frame passed too, the two runs would be equal up to
  the burst, and after it as well, since a step is one-to-one and can be followed
  backwards (`StepInjective`, `RunBack`); but runs that are equal at both ends of no more bits
  than the register has have read the same bits (`RunWindow`), so nothing was
  damaged (`BurstShows`, `BurstOpens`).
  The module begins with induction over the natural numbers, for sets (a
  set without a least number is empty), as the library's
  theorem takes an operator, which the provers cannot use; from it,
  `InductionUpTo` and `RecursionUpTo` say that a recursive function on 0 .. n has the
  equations it is defined by. `SerialProofs` uses them too.

Model-checked only: all liveness (`SteadyViewIsTracked`,
`AbsentTargetIsDropped`, `EveryAimReturns`, `SteadyAimFires`,
`LastFrameArrives`, `ExchangeGoesOn`, `EverySolveReturns`), which is out of the
prover's reach. Every invariant and every action property of a passing run is proved.
`CleanDelivery` is proved and has no run of its own.

## 7. Where documents and code disagree

Each of these runs ends in a counterexample.

* `tracker_match`: `Target::update` looks at three armors also of a robot that has two, past
  the end of the list. The tracker accepts such robots (`set_target` has a
  branch for them); the detector of this commit never reports one (`NoBalanceArmor`).
* `aimer_spin`: lock mode is chosen by `|x[8]| <= 2`. `x[8]` is the radius; the
  speed is `x[7]`. So no robot but the outpost is ever led by its spin.
* `framing_head`: payloads that contain the head can keep the parser out of step
  for ever on a line without further faults. A checksum in the callback, which
  the README of the library recommends, detects this but does not end it.
* `logger_file`: a second `Logger::init` that names a file opens a stream that is
  open (`logger.cpp:33`). That marks it as bad, file logging is on, and all later
  lines for a file are lost without a word. `tools/README.md:30` says of `file_path`
  that it takes effect when `enable_file=true` ("enable_file=true 时生效").

Met on the way and not given a run:

* `log` reads `level_` before it locks the mutex (`logger.cpp:45`), a data race with
  `init`; a line that passed the level of one configuration is written to the
  places of the next, whose level may be higher. `tools/README.md:19` calls the
  logger safe for several threads. The model takes the comparison as one that
  sees the old level or the new one.
* `update_target` updates the filter with every armor that matches, where
  `05-03-PLAN.md:28` has it stop at the first (`tracker.cpp:174`).
* Two callbacks for one packet type feed the same bytes to the same parser
  twice, and two ports feed one parser (`serial.hpp:142`); `io/serial/README.md:6`
  promises several of each.
* A `FoxGloveComm` configures the logger anew, so a level or a file the program
  had set is gone (`CONCERNS.md:62` knows).
* `07-02-PLAN.md:165` expects `limit_rad(pi) = -pi`; the code and its test have
  the half-open turn the other way, (-pi, pi].
* Main and a peer that waits to be asked wait for each other at once, as
  `spin_once` comes before `send` and has no timeout (`serial.cpp:71`); so do they
  when the whole of the peer's first frame is lost.
* The 40% limit of failed tests is one of the full window, so it is laxer while
  the window fills (`tracker.cpp:69`); a test that is not a number counts as passed
  (`extended_kalman_filter.cpp:73`).
* The outpost's angles come from the configuration, where the plan says hardcoded
  (`aimer.cpp:178`); the delay is chosen by a speed with its sign (`aimer.cpp:45`);
  the command remembered by `shoot` may be of long ago (`shooter.cpp:24`).
* Patterns are saved whether or not the detector is in debug mode
  (`detector.cpp:307`), and candidates of one image can remove each other in a
  circle until none is left (`detector.cpp:81`).

## 8. What is not modelled

The arithmetic of filter, PnP, reprojection, trajectory and network: real
numbers, whose results the models choose freely. Timing other than the gap of
0.1 s. The contents of images, files and log lines. `Voter`, a table of counters
without a caller; the classifier; `Trajectory`, two formulas; the camera, which is
an empty file; the main loop, which is commented out; drawing.

More than nine tenths of the lines under the repository's `tools/` are toml++ and the
Foxglove SDK, vendored. They are third-party code with specifications of their
own; the models have of them what the program's own code uses (a server holds its
address; a table gives a value or fails). Of the program's own code most that
keeps state is modelled, so the share of all lines that any module stands
for stays small.
