------------------------------- MODULE Timing -------------------------------
(***************************************************************************)
(* Waiting and telling the time: the poll loop of select, nanosleep, and   *)
(* the clocks that gettimeofday, clock_gettime and /proc read.             *)
(*                                                                         *)
(* GetTickCount is a DWORD of milliseconds that wraps.  Sleep and waits    *)
(* last at least what was asked and at most Late longer; a poll takes no   *)
(* time.  A second has PerSec milliseconds here and NsPerSec nanoseconds.  *)
(***************************************************************************)
EXTENDS Integers

CONSTANTS
    Ticks,      \* values of GetTickCount
    Poll,       \* select's Sleep(50)
    Late,       \* how much longer than asked a sleep may last
    Waits,      \* timeouts programs ask for
    PerSec, NsPerSec,
    Freq,       \* QueryPerformanceFrequency: counts in PerSec milliseconds
    MaxTime     \* bound: milliseconds of a behaviour

\* Timeouts are DWORDs, a poll is shorter than the tick count's period, and a
\* behaviour may start at any tick.
ASSUME TimingConstants ==
    /\ Ticks \in Nat \ {0} /\ Poll \in 0..Ticks /\ Late \in Nat
    /\ Waits \subseteq 0..(Ticks - 1)
    /\ {PerSec, NsPerSec, Freq} \subseteq Nat \ {0}
    /\ MaxTime \in Nat /\ MaxTime >= Ticks - 1

INFINITE == Ticks - 1

VARIABLES
    now,        \* milliseconds since the machine started
    place,      \* "idle"; select's "poll" and "sleep"; "nanosleep"
    wait,       \* dwWait, or nanosleep's msec
    start,      \* now when the call began
    dwEnd,      \* select's dwEnd
    slept,      \* milliseconds of the sleep so far
    ready,      \* some descriptor that select was asked about is ready
    ret,        \* history: what the last wait returned, and when it began
    clock       \* history: the last clock read since a wait, and when

tvars == <<now, place, wait, start, dwEnd, slept, ready, ret, clock>>

GetTickCount(t) == t % Ticks
NoRet == [op |-> "none", wait |-> 0, start |-> 0, took |-> 0, rem |-> 0]
NoClock == [id |-> "none", at |-> 0]

TimingInit ==
    /\ now \in 0..(Ticks - 1)
    /\ place = "idle" /\ ready = FALSE
    /\ wait = 0 /\ start = 0 /\ dwEnd = 0 /\ slept = 0
    /\ ret = NoRet /\ clock = NoClock

\* Nothing sleeps longer than it asked for plus Late.
Asked == IF place = "sleep" THEN Poll ELSE wait

Tick ==
    /\ now < MaxTime
    /\ place # "poll"
    /\ place \in {"sleep", "nanosleep"} => slept < Asked + Late
    /\ now' = now + 1
    /\ slept' = IF place = "idle" THEN 0 ELSE slept + 1
    /\ ret' = NoRet
    /\ UNCHANGED <<place, wait, start, dwEnd, ready, clock>>

Ready ==
    /\ ready' = ~ready
    /\ ret' = NoRet
    /\ UNCHANGED <<now, place, wait, start, dwEnd, slept, clock>>

-----------------------------------------------------------------------------
(* select                                                                  *)

\* dwEnd, "wrap around will cause a quick return".
Deadline(w) == (GetTickCount(now) + w) % Ticks

\* No timeout is INFINITE; its dwEnd is the tick before this one.
Select(w) ==
    /\ place = "idle"
    /\ place' = "poll" /\ wait' = w /\ start' = now /\ slept' = 0
    /\ dwEnd' = Deadline(w)
    /\ ret' = NoRet /\ clock' = NoClock
    /\ UNCHANGED <<now, ready>>

\* The call is over, and its locals with it.
Idle ==
    /\ place' = "idle"
    /\ wait' = 0 /\ start' = 0 /\ dwEnd' = 0 /\ slept' = 0

EndWait(op) ==
    /\ Idle
    /\ ret' = [op |-> op, wait |-> wait, start |-> start, took |-> now - start,
               rem |-> 0]

\* One round of the loop over the descriptors.
SelectPoll ==
    /\ place = "poll"
    /\ \/ ready /\ EndWait("found")
       \/ ~ready /\ wait = 0 /\ EndWait("timeout")
       \/ /\ ~ready /\ wait # 0
          /\ place' = "sleep" /\ slept' = 0 /\ ret' = NoRet
          /\ UNCHANGED <<wait, start, dwEnd>>
    /\ UNCHANGED <<now, ready, clock>>

\* Mutant of GoOn: the last round is skipped.
GoOnEarly == dwEnd > GetTickCount(now) + 1

\* while(dwEnd > GetTickCount())
GoOn == dwEnd > GetTickCount(now)

SelectWake ==
    /\ place = "sleep" /\ slept >= Poll
    /\ \/ /\ GoOn
          /\ place' = "poll" /\ slept' = 0 /\ ret' = NoRet
          /\ UNCHANGED <<wait, start, dwEnd>>
       \/ ~GoOn /\ EndWait("timeout")
    /\ UNCHANGED <<now, ready, clock>>

-----------------------------------------------------------------------------
(* nanosleep                                                               *)

Nanosleep(msec) ==
    /\ place = "idle"
    /\ place' = "nanosleep" /\ wait' = msec /\ start' = now /\ slept' = 0
    /\ ret' = NoRet /\ clock' = NoClock
    /\ UNCHANGED <<now, dwEnd, ready>>

\* end-start, after "tick count wrapped!" has moved both by end+1.
Elapsed(first, last) ==
    IF last < first
    THEN ((Ticks - 1) - ((first - (last + 1)) % Ticks)) % Ticks
    ELSE last - first

\* The event that SendSignal sets, or the time is over; what remains is
\* stored in both cases, as an unsigned number.
NanosleepEnd ==
    /\ place = "nanosleep"
    /\ \E op \in {"EINTR", "slept"} :
          /\ op = "slept" => slept >= wait
          /\ ret' = [op |-> op, wait |-> wait, start |-> start,
                     took |-> now - start,
                     rem |-> (wait - Elapsed(GetTickCount(start),
                                             GetTickCount(now))) % Ticks]
    /\ Idle
    /\ UNCHANGED <<now, ready, clock>>

-----------------------------------------------------------------------------
(* Clocks: seconds and the fraction that goes with them                    *)

NsPerMs == NsPerSec \div PerSec
SystemTime(t) == <<t \div PerSec, t % PerSec>>

\* Mutant of ClockValue: the fraction is of a later reading.
ClockValueTwice(id, t) ==
    CASE id \in {"gettimeofday", "time"} -> SystemTime(t)
      [] id \in {"REALTIME", "MONOTONIC_RAW"} ->
            <<SystemTime(t)[1], SystemTime(t + 1)[2] * NsPerMs>>
      [] id = "MONOTONIC" -> <<GetTickCount(t) \div PerSec, 0>>

\* sys_clock_gettime; gettimeofday stores the milliseconds as tv_usec.
ClockValue(id, t) ==
    CASE id = "gettimeofday" -> SystemTime(t)
      [] id = "REALTIME" -> <<SystemTime(t)[1], SystemTime(t)[2] * NsPerMs>>
      [] id = "MONOTONIC" -> <<GetTickCount(t) \div PerSec,
                               (GetTickCount(t) % PerSec) * NsPerMs>>
      [] id = "MONOTONIC_RAW" ->
            LET counter == (t * Freq) \div PerSec
            IN  <<counter \div Freq, (counter % Freq) * (NsPerSec \div Freq)>>
      [] id = "time" -> <<SystemTime(t)[1], 0>>

ClockId == {"gettimeofday", "REALTIME", "MONOTONIC", "MONOTONIC_RAW", "time"}

ReadClock(id) ==
    /\ place = "idle"
    /\ clock' = [id |-> id, at |-> now]
    /\ ret' = NoRet
    /\ UNCHANGED <<now, place, wait, start, dwEnd, slept, ready>>

TimingNext ==
    \/ Tick \/ Ready \/ SelectPoll \/ SelectWake \/ NanosleepEnd
    \/ \E w \in Waits : Select(w) \/ Nanosleep(w)
    \/ Select(INFINITE)
    \/ \E id \in ClockId : ReadClock(id)

TimingSpec == TimingInit /\ [][TimingNext]_tvars

-----------------------------------------------------------------------------
(* Properties                                                              *)

\* Times and ticks are in range.
TimingTypeOK ==
    /\ now \in 0..MaxTime /\ start \in 0..MaxTime
    /\ place \in {"idle", "poll", "sleep", "nanosleep"}
    /\ wait \in Waits \union {0, INFINITE} /\ dwEnd \in 0..(Ticks - 1)
    /\ slept \in 0..(Ticks + Late) /\ ready \in BOOLEAN
    /\ ret.took \in 0..MaxTime /\ ret.rem \in 0..(Ticks - 1)
    /\ clock.id \in ClockId \union {"none"}

\* The tick count wraps between two times.
Wraps(from, to) == from \div Ticks # to \div Ticks

\* select does not report a timeout before the time is over, unless the tick
\* count wraps before its deadline ("wrap around will cause a quick return").
SelectNotEarly ==
    ret.op = "timeout" /\ ~Wraps(ret.start, ret.start + ret.wait)
        => ret.took >= ret.wait

\* select without data returns at the latest one poll after its deadline,
\* unless the tick count wraps before then: a wake-up that comes just after
\* the wrap sees a small tick and goes on polling.
SelectOnTime ==
    place \in {"poll", "sleep"} /\ ~Wraps(start, start + wait + Poll + Late)
        => now - start <= wait + Poll + Late

\* A nanosleep that a signal interrupts tells what is left of its time, also
\* when the tick count wrapped meanwhile ("tick count wrapped!").
RemExact ==
    ret.op = "EINTR" /\ ret.took <= ret.wait => ret.rem = ret.wait - ret.took

\* What select and nanosleep return agrees with the time that has passed.
WaitsTold == SelectNotEarly /\ SelectOnTime /\ RemExact

Before(u, v) == u[1] < v[1] \/ (u[1] = v[1] /\ u[2] <= v[2])

\* Two reads of one clock never go back, except that CLOCK_MONOTONIC starts
\* again when the tick count wraps.
ClockOrdered ==
    [][clock'.id = clock.id /\ clock.id # "none"
          /\ (clock.id = "MONOTONIC" => ~Wraps(clock.at, clock'.at))
          => Before(ClockValue(clock.id, clock.at),
                    ClockValue(clock.id, clock'.at))]_tvars

\* select without a timeout waits until there is data ("new_select wait
\* forever").
WaitsForever == ret.wait = INFINITE => ret.op # "timeout"
=============================================================================
