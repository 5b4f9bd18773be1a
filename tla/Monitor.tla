------------------------------- MODULE Monitor --------------------------------
(***************************************************************************)
(* What watches processes in muduo: the example procmon, which samples      *)
(* /proc/<pid>/stat, shows it over HTTP and draws a chart; dummyload, which *)
(* gives it something to draw; and what the inspectors read from /proc.     *)
(* First procmon. Time is in seconds, the CPU time of a process in clock    *)
(* ticks. A pid may be used again by a later process.                       *)
(***************************************************************************)
EXTENDS Integers, SequencesExt, FiniteSetsExt

CONSTANTS kPeriod, kClockTicksPerSecond,
          Samples,      \* the capacity of cpu_usage_: 600 / kPeriod
          Cpus, BootTime,
          ChartWidth, ChartHeight, LeftMargin, RightMargin, MarginY,
          LastMoment    \* bound: the time

ASSUME PeriodsGiven == kPeriod \in Nat \ {0} /\ kClockTicksPerSecond \in Nat \ {0} /\ Samples \in Nat \ {0}

VARIABLES moment,       \* the time since boot
          proc,         \* what the kernel knows of the pid: [there, utime, starttime]
          procDue, ticks,
          lastStat,     \* lastStatData_
          cpuUsage      \* cpu_usage_

procmonVars == <<moment, proc, procDue, ticks, lastStat, cpuUsage>>
NoProcess == [there |-> FALSE]
Spawned == [there |-> TRUE, utime |-> 0, starttime |-> moment * kClockTicksPerSecond]

\* Code that takes the difference as it is, and the code.
AsItIs(d) == d
NotNegative(d) == Max({0, d})

\* tick(): nothing if there is no such process; a sample from the second time on.
ProcmonTick ==
    /\ procDue /\ procDue' = FALSE
    /\ IF proc.there
         THEN /\ cpuUsage' = IF ticks = 0 THEN cpuUsage
                             ELSE LET all == Append(cpuUsage, NotNegative(proc.utime - lastStat.utime))
                                  IN  SubSeq(all, Max({1, Len(all) - Samples + 1}), Len(all))
              /\ lastStat' = proc /\ ticks' = ticks + 1
         ELSE UNCHANGED <<cpuUsage, lastStat, ticks>>
    /\ UNCHANGED <<moment, proc>>

\* A process runs for no more than all CPUs give.
MonitorSecond ==
    /\ ~procDue /\ moment < LastMoment /\ moment' = moment + 1
    /\ procDue' = (moment' % kPeriod = 0)
    /\ \E run \in {0, kClockTicksPerSecond * Cpus} :
          proc' = IF proc.there THEN [proc EXCEPT !.utime = @ + run] ELSE proc
    /\ UNCHANGED <<ticks, lastStat, cpuUsage>>

ProcessEnds ==
    /\ proc.there /\ proc' = NoProcess
    /\ UNCHANGED <<moment, procDue, ticks, lastStat, cpuUsage>>

PidIsReused ==
    /\ ~proc.there /\ proc' = Spawned
    /\ UNCHANGED <<moment, procDue, ticks, lastStat, cpuUsage>>

\* getStartTime and getSeconds, in clock ticks; wall is the time since the epoch.
WallTicks(t) == (BootTime + t) * kClockTicksPerSecond
StartTime(starttime) == BootTime * kClockTicksPerSecond + starttime

\* fillOverview: read anew, apart from what the title has of the start of procmon.
Overview ==
    IF ~proc.there THEN [status |-> 200, shown |-> "PID doesn't exist"]
    ELSE [status |-> 200, shown |-> "table", started |-> StartTime(proc.starttime),
          uptime |-> WallTicks(moment) - StartTime(proc.starttime), utime |-> proc.utime]

\* onRequest: a file of a process that has gone is empty.
Page(path) ==
    CASE path = "/" -> Overview
      [] path \in {"/cmdline", "/threads"} -> [status |-> 200, shown |-> path]
      [] path = "/cpu.png" -> [status |-> 200, shown |-> "chart"]
      [] path \in {"/environ", "/io", "/limits", "/maps", "/smaps", "/status"} ->
            [status |-> 200, shown |-> IF proc.there THEN path ELSE ""]
      [] OTHER -> [status |-> 404, shown |-> "", close |-> TRUE]

\* main: the process must exist; start() ticks at once.
ProcmonInit ==
    /\ moment = 0 /\ proc = Spawned /\ procDue = TRUE /\ ticks = 0
    /\ lastStat = NoProcess /\ cpuUsage = <<>>

ProcmonNext == ProcmonTick \/ MonitorSecond \/ ProcessEnds \/ PidIsReused

-----------------------------------------------------------------------------
(* The chart: samples at the right, the latest last, under a rounded maximum. *)

Inner == ChartWidth - LeftMargin - RightMargin
RoundedUp(n, unit) == ((n + unit - 1) \div unit) * unit

\* A usage in thousandths; whole numbers from 10 on, else tenths, and at least 0.1.
Usage(sample) == (1000 * sample) \div (kClockTicksPerSecond * kPeriod)
ChartMax(data) ==
    LET max == Max(ToSet(data))
    IN  IF max >= 10000 THEN RoundedUp(max, 1000) ELSE Max({100, RoundedUp(max, 100)})

\* getX and getY, rounded to the next pixel.
GetX(i, total) == (2 * (Inner * Samples + (i - total) * Inner) + Samples) \div (2 * Samples) + LeftMargin
GetY(value, max) == (2 * (max - value) * (ChartHeight - 2 * MarginY) + max) \div (2 * max) + MarginY

\* plotCpu: a line from each sample to the next.
Points(data) ==
    IF Len(data) < 2 THEN <<>>
    ELSE [i \in DOMAIN data |-> [x |-> GetX(i - 1, Len(data)), y |-> GetY(data[i], ChartMax(data))]]

\* No sample is below 0 or above what the CPUs can do in a period, also when the pid is
\* used again or was not there for a time; the chart has as many as fit, in order and
\* inside its frame; and the page says of a process only what may be true of it.
ProcmonRight ==
    LET points == Points([i \in DOMAIN cpuUsage |-> Usage(cpuUsage[i])])
    IN  /\ \A i \in DOMAIN cpuUsage : cpuUsage[i] \in 0 .. Cpus * kPeriod * kClockTicksPerSecond
        /\ Len(cpuUsage) = Min({Samples, Max({0, ticks - 1})})
        /\ \A i \in DOMAIN points : /\ points[i].x \in LeftMargin .. ChartWidth - RightMargin
                                    /\ points[i].y \in MarginY .. ChartHeight - MarginY
                                    /\ i > 1 => points[i - 1].x < points[i].x
        /\ proc.there => /\ Page("/").uptime >= 0
                         /\ Page("/").utime <= Page("/").uptime * Cpus

-----------------------------------------------------------------------------
(***************************************************************************)
(* dummyload: of every hundred slots a percentage is busy, spread evenly;   *)
(* threads wait in the others. Only a form it does not know comes to an end.*)
(***************************************************************************)
CONSTANTS Slots,         \* 100
          Percent,       \* g_percent
          LoadThread

VARIABLES loadForm,      \* "fixed" | "cosine" | "sawtooth" | "other"
          percent, slot, error, busySlots,
          gBusy, gDone,
          loader         \* of each thread "test" | "lock" | "waiting" | "busy" | "exited"

dummyVars == <<loadForm, percent, slot, error, busySlots, gBusy, gDone, loader>>
Within(p) == Max({0, Min({Slots, p})})

\* What load() is called with: rounded values between 0 and g_percent.
LoadsOf(form) == IF form = "fixed" THEN {Percent} ELSE 0 .. Percent

\* Code that begins without the half step, and the code.
FromZero(p) == 0
HalfStep(p) == 2 * p - Slots

LoadBegins(p) == /\ percent' = p /\ slot' = 0 /\ busySlots' = 0 /\ error' = HalfStep(p)

Notified == [t \in LoadThread |-> IF loader[t] = "waiting" THEN "lock" ELSE loader[t]]

NextSlot ==
    /\ loadForm # "other" /\ slot < Slots /\ slot' = slot + 1
    /\ gBusy' = (error > 0)
    /\ error' = IF error > 0 THEN error + 2 * (percent - Slots) ELSE error + 2 * percent
    /\ busySlots' = IF error > 0 THEN busySlots + 1 ELSE busySlots
    /\ loader' = Notified
    /\ UNCHANGED <<loadForm, percent, gDone>>

NextLoad ==
    /\ loadForm # "other" /\ slot = Slots
    /\ \E p \in LoadsOf(loadForm) : LoadBegins(Within(p))
    /\ UNCHANGED <<loadForm, gBusy, gDone, loader>>

\* The end of main: g_done, then g_busy under the lock.
SetDone ==
    /\ loadForm = "other" /\ ~gDone /\ gDone' = TRUE
    /\ UNCHANGED <<loadForm, percent, slot, error, busySlots, gBusy, loader>>

\* Code that forgets those who wait, and the code.
WakesNobody == gBusy
WakesAll == TRUE

WakeAll ==
    /\ gDone /\ ~gBusy /\ gBusy' = WakesAll
    /\ loader' = IF gBusy' THEN Notified ELSE loader
    /\ UNCHANGED <<loadForm, percent, slot, error, busySlots, gDone>>

\* threadFunc
LoaderStep(t) ==
    /\ loader[t] \in {"test", "lock", "busy"}
    /\ loader' = [loader EXCEPT ![t] = CASE @ = "test" -> IF gDone THEN "exited" ELSE "lock"
                                         [] @ = "lock" -> IF gBusy THEN "busy" ELSE "waiting"
                                         [] @ = "busy" -> "test"]
    /\ UNCHANGED <<loadForm, percent, slot, error, busySlots, gBusy, gDone>>

DummyInit ==
    /\ loadForm \in {"fixed", "cosine", "sawtooth", "other"}
    /\ percent = Within(Percent) /\ slot = 0 /\ busySlots = 0 /\ error = HalfStep(percent)
    /\ gBusy = FALSE /\ gDone = FALSE /\ loader = [t \in LoadThread |-> "test"]

DummyNext == NextSlot \/ NextLoad \/ SetDone \/ WakeAll \/ \E t \in LoadThread : LoaderStep(t)
DummyGoesOn == SetDone \/ WakeAll

\* After any number of slots the busy ones are the percentage of them to within half a
\* slot, and of all of them exactly.
DummyRight ==
    /\ 2 * busySlots * Slots - 2 * slot * percent \in -Slots .. Slots
    /\ slot = Slots => busySlots = percent

\* All threads exit in the end.
DummyEnds == [asked |-> gDone, kept |-> \A t \in LoadThread : loader[t] = "exited"]

-----------------------------------------------------------------------------
(***************************************************************************)
(* What is read from /proc. The file stat has the pid, the name of the      *)
(* process between parentheses, its state, and numbers; the name may have   *)
(* spaces and parentheses. A number is taken as one character.              *)
(***************************************************************************)
CONSTANTS NameChars, MaxName,   \* bound: the length of a name
          Tid,                  \* the threads of a process, in order
          MicroSeconds, Ages    \* microseconds in a second, ages of a process

VARIABLES statFile,     \* [name, text]
          liveTids,       \* the threads that live
          listing, listed

procfsVars == <<statFile, liveTids, listing, listed>>
Space == " "
Field(k) == <<ToString(k)>>
Spaced(k) == <<Space>> \o Field(k)
StatText(name) ==
    Field(1) \o <<Space, "(">> \o name \o <<")", Space, "S">>
    \o FlattenSeq([k \in 1 .. 23 |-> Spaced(k + 3)])   \* the fields 4 to 26

\* Code that takes the first closing parenthesis, and the code, which takes the last.
FirstClosing(text) == Min({i \in DOMAIN text : text[i] = ")"})
Closing(text) == Max({i \in DOMAIN text : text[i] = ")"})

Opening(text) == Min({i \in DOMAIN text : text[i] = "("})

\* ProcessInfo::procname
ProcName(text) == SubSeq(text, Opening(text) + 1, Closing(text) - 1)

\* StatData::parse, from behind the name: state, and the numbers by their places.
NotSpace(c) == c # Space
Words(text) == SelectSeq(SubSeq(text, Closing(text) + 1, Len(text)), NotSpace)
Parsed(text) == LET w == Words(text)
                IN  [state |-> w[1], utime |-> w[12], stime |-> w[13], threads |-> w[18], starttime |-> w[20]]

\* getCpuTime: the tenth blank behind the state's, and the next.
RECURSIVE AfterBlanks(_, _)
AfterBlanks(text, n) ==
    IF n = 0 THEN text
    ELSE LET sp == Min({i \in DOMAIN text : text[i] = Space})
         IN  AfterBlanks(SubSeq(text, sp + 1, Len(text)), n - 1)
CpuTime(text) ==
    LET data == SubSeq(text, Closing(text) + 4, Len(text))
    IN  [utime |-> AfterBlanks(data, 10)[1], stime |-> AfterBlanks(data, 11)[1]]

\* Lines of /proc/self/status and /proc/meminfo: a name, of which a key may be the end,
\* and a number. getLong has the number behind the first place where the key occurs.
ProcLine(name, value) == [name |-> name, value |-> value]
ProcLines(name) == <<ProcLine(<<"Name:">>, name), ProcLine(<<"VmSize:">>, 5), ProcLine(<<"VmRSS:">>, 4),
                     ProcLine(<<"Threads:">>, Cardinality(Tid))>>
Meminfo == <<ProcLine(<<"MemTotal:">>, 90), ProcLine(<<"MemFree:">>, 20), ProcLine(<<"Buffers:">>, 7),
             ProcLine(<<"Cached:">>, 30), ProcLine(<<"Swap", "Cached:">>, 1)>>
GetLong(lines, key) ==
    LET at == {i \in DOMAIN lines : IsSuffix(<<key>>, lines[i].name)}
    IN  IF at = {} THEN 0 ELSE lines[Min(at)].value

\* The overviews of the process and of the system.
ProcessShown(name) ==
    LET status == ProcLines(name)
    IN  [name |-> GetLong(status, "Name:"), threads |-> GetLong(status, "Threads:"),
         size |-> GetLong(status, "VmSize:"), rss |-> GetLong(status, "VmRSS:")]
MemoryShown ==
    LET spare == GetLong(Meminfo, "MemFree:") + GetLong(Meminfo, "Buffers:") + GetLong(Meminfo, "Cached:")
    IN  [used |-> GetLong(Meminfo, "MemTotal:") - spare, free |-> spare]

\* uptime: an age in microseconds as days, hours, minutes and seconds.
Uptime(age) ==
    LET seconds == age \div MicroSeconds
    IN  [days |-> seconds \div 86400, hours |-> (seconds % 86400) \div 3600,
         minutes |-> (seconds % 3600) \div 60, seconds |-> seconds % 60]

\* ProcessInspector::threads: a thread of the directory may have ended when it is read.
ListThread ==
    /\ listing # <<>> /\ listing' = Tail(listing)
    /\ listed' = IF Head(listing) \in liveTids THEN Append(listed, Head(listing)) ELSE listed
    /\ UNCHANGED <<statFile, liveTids>>

ThreadEnds ==
    /\ \E t \in liveTids : liveTids' = liveTids \ {t}
    /\ UNCHANGED <<statFile, listing, listed>>

ProcfsInit ==
    /\ \E name \in BoundedSeq(NameChars, MaxName) : statFile = [name |-> name, text |-> StatText(name)]
    /\ liveTids = Tid /\ listing = SetToSortSeq(Tid, <) /\ listed = <<>>

ProcfsNext == ListThread \/ ThreadEnds

\* Whatever its name, a process has the name, state and times that stat has at their
\* places by proc(5); the threads that live are listed, in order; of keys of which one is
\* the end of the other, the right one is found; and a longer age is not shown as less.
ProcfsRight ==
    LET text == statFile.text
    IN  /\ ProcName(text) = statFile.name
        /\ Parsed(text).state = "S" /\ Parsed(text).utime = "14" /\ Parsed(text).stime = "15"
        /\ Parsed(text).threads = "20" /\ Parsed(text).starttime = "22"
        /\ CpuTime(text) = [utime |-> "14", stime |-> "15"]
        /\ ProcessShown(statFile.name) = [name |-> statFile.name, threads |-> Cardinality(Tid), size |-> 5, rss |-> 4]
        /\ MemoryShown = [used |-> 33, free |-> 57]
        /\ \A age \in Ages : LET u == Uptime(age)
                             IN  /\ ((u.days * 24 + u.hours) * 60 + u.minutes) * 60 + u.seconds = age \div MicroSeconds
                                 /\ u.hours < 24 /\ u.minutes < 60
        /\ liveTids \subseteq ToSet(listed \o listing)
        /\ \A i, j \in DOMAIN listed : i < j => listed[i] < listed[j]
=============================================================================
