----------------------------- MODULE MCRuntime ------------------------------
(***************************************************************************)
(* The run-time services that share no state, side by side: a behaviour is *)
(* one of the event bus, the scheduler, cron expressions, the container,   *)
(* plug-ins, remote configuration, futures, pool tasks, the                *)
(* metrics collector, metrics, logging, tracing, the application, its      *)
(* crash handler, or a part of the user interface.  The others stay as     *)
(* they start.                                                             *)
(***************************************************************************)
EXTENDS Dispatching, ContainerPlugins, Configuration, Futures,
        Collector, Observability, Application, Ui

CONSTANTS t1, t2

VARIABLE subject

TwoOfOneName == (t1 :> "n1") @@ (t2 :> "n1")

\* Months of five days of two hours of four minutes.
SmallCalendar == <<4, 2, 5, 2>>
Every(n) == <<[lo |-> 0, hi |-> 59, step |-> n]>>
From(a, b) == <<[lo |-> a, hi |-> b, step |-> 1]>>
Stepped(a, b, n) == <<[lo |-> a, hi |-> b, step |-> n]>>
SomeExpressions ==
    {<< <<>>, <<>>, <<>>, <<>>, <<>> >>,
     <<Every(2), <<>>, <<>>, <<>>, <<>> >>,
     <<Stepped(1, 3, 2), From(1, 1), <<>>, <<>>, <<>> >>,
     <<From(3, 3) \o From(0, 0), <<>>, Stepped(2, 5, 3), <<>>, <<>> >>,
     <<From(0, 0), From(0, 0), From(4, 4), From(2, 2), <<>> >>,
     <<From(0, 0), From(1, 1), <<>>, <<>>, From(2, 2)>>,
     <<From(9, 9), <<>>, <<>>, <<>>, <<>> >>}

SomeOffers ==
    {<< <<"A", "">>, "singleton">>, << <<"A", "">>, "instance">>, << <<"A", "x">>, "scoped">>,
     << <<"B", "">>, "transient">>, << <<"B", "">>, "lent">>}

Exports == [id |-> "p", accepted |-> TRUE, inits |-> TRUE, shuts |-> TRUE, creates |-> TRUE]
SomeLibraries == [a |-> Exports,
                  b |-> [Exports EXCEPT !.shuts = FALSE],
                  c |-> [Exports EXCEPT !.id = "q", !.inits = FALSE],
                  d |-> [Exports EXCEPT !.id = "q", !.creates = FALSE],
                  e |-> [Exports EXCEPT !.accepted = FALSE]]

TwoBoundaries == <<1, 3>>

Subjects == {"bus", "sched", "cron", "di", "plugins", "remote", "futures", "tasks",
             "collector", "metrics", "logging", "tracing", "application", "crash",
             "motion", "theme", "navigation", "model", "bar", "toast", "knob"}

serviceVars == <<busVars, schedVars, cronVars, diVars>>
settingVars == <<pluginVars, remoteVars, futureVars>>
reportVars == <<taskVars, collectorVars, metricVars, logVars>>
processVars == <<tracingVars, applicationVars, crashVars>>
screenVars == <<motionVars, uiVars, controlsVars>>

\* Only its own run chooses between the initial states of a part.
RuntimeInit ==
    /\ subject \in Subjects
    /\ BusInit /\ SchedInit /\ CronInit /\ DiInit /\ PluginInit /\ ConfigInit /\ RemoteInit
    /\ FuturesInit /\ TasksInit /\ CollectorInit /\ MetricsInit /\ LoggingInit
    /\ TracingInit /\ ApplicationInit /\ CrashInit /\ MotionInit /\ UiInit /\ ControlsInit
    /\ subject # "bus" => busKind = "plain"
    /\ subject # "cron" => cronFrom = 0 /\ cronExpr = << <<>>, <<>>, <<>>, <<>>, <<>> >>
    /\ prefix = "SOUL_"                \* Config has a run of its own
    /\ subject # "motion" => widget.look = "card" /\ widget.effect = "none"
    /\ subject # "model" => value = 1

ServiceStep ==
    \/ subject = "bus" /\ BusNext /\ UNCHANGED <<schedVars, cronVars, diVars>>
    \/ subject = "sched" /\ SchedNext /\ UNCHANGED <<busVars, cronVars, diVars>>
    \/ subject = "cron" /\ NextCronTime /\ UNCHANGED <<busVars, schedVars, diVars>>
    \/ subject = "di" /\ DiNext /\ UNCHANGED <<busVars, schedVars, cronVars>>

SettingStep ==
    \/ subject = "plugins" /\ PluginNext /\ UNCHANGED <<remoteVars, futureVars>>
    \/ subject = "remote" /\ RemoteNext /\ UNCHANGED <<pluginVars, futureVars>>
    \/ subject = "futures" /\ FuturesNext /\ UNCHANGED <<pluginVars, remoteVars>>

ReportStep ==
    \/ subject = "tasks" /\ TasksNext /\ UNCHANGED <<collectorVars, metricVars, logVars>>
    \/ subject = "collector" /\ CollectorNext /\ UNCHANGED <<taskVars, metricVars, logVars>>
    \/ subject = "metrics" /\ MetricsNext /\ UNCHANGED <<taskVars, collectorVars, logVars>>
    \/ subject = "logging" /\ LoggingNext /\ UNCHANGED <<taskVars, collectorVars, metricVars>>

ProcessStep ==
    \/ subject = "tracing" /\ TracingNext /\ UNCHANGED <<applicationVars, crashVars>>
    \/ subject = "application" /\ ApplicationNext /\ UNCHANGED <<tracingVars, crashVars>>
    \/ subject = "crash" /\ CrashNext /\ UNCHANGED <<tracingVars, applicationVars>>

ScreenStep ==
    \/ subject = "motion" /\ MotionNext /\ UNCHANGED <<uiVars, controlsVars>>
    \/ /\ UNCHANGED <<motionVars, controlsVars>>
       /\ \/ subject = "theme" /\ ThemeNext /\ UNCHANGED <<navigationVars, modelVars>>
          \/ subject = "navigation" /\ NavigationNext /\ UNCHANGED <<themeVars, modelVars>>
          \/ subject = "model" /\ ModelNext /\ UNCHANGED <<themeVars, navigationVars>>
    \/ /\ UNCHANGED <<motionVars, uiVars>>
       /\ \/ subject = "bar" /\ BarNext /\ UNCHANGED <<toastVars, knob>>
          \/ subject = "toast" /\ ToastNext /\ UNCHANGED <<barVars, knob>>
          \/ subject = "knob" /\ KnobNext /\ UNCHANGED <<barVars, toastVars>>

RuntimeNext ==
    /\ UNCHANGED <<subject, configVars>>
    /\ \/ ServiceStep /\ UNCHANGED <<settingVars, reportVars, processVars, screenVars>>
       \/ SettingStep /\ UNCHANGED <<serviceVars, reportVars, processVars, screenVars>>
       \/ ReportStep /\ UNCHANGED <<serviceVars, settingVars, processVars, screenVars>>
       \/ ProcessStep /\ UNCHANGED <<serviceVars, settingVars, reportVars, screenVars>>
       \/ ScreenStep /\ UNCHANGED <<serviceVars, settingVars, reportVars, processVars>>

runtimeVars == <<subject, configVars, serviceVars, settingVars, reportVars, processVars, screenVars>>

RuntimeSpec == RuntimeInit /\ [][RuntimeNext]_runtimeVars /\ RemoteFairness /\ FuturesFairness /\ ToastFairness

-----------------------------------------------------------------------------
(* A handler that stays subscribed gets every event published meanwhile,   *)
(* unless on the plain bus a handler before it throws; every pool task is  *)
(* run, cancelled or still counted; and a running scheduled task has its   *)
(* timer set, but for the ways to lose it that RunningIsArmed names, for   *)
(* the first time its cron expression allows.                              *)
DispatchSound == StandingServed /\ TasksAccounted /\ RunningIsArmed /\ NextIsFirstDue

(* What the container holds is alive when it hands it out, and a library   *)
(* is in memory while a plug-in of it is registered; what clients keep is  *)
(* not protected, neither instances from unregister(), clear() and         *)
(* disposeScope() nor getPlugin()'s pointers from unloadPlugin().  A       *)
(* process that ends runs each shutdown callback once, and one that        *)
(* crashes is told of the signal once.                                     *)
LifetimesSound == HeldIsAlive /\ OpensBalance /\ ShutdownComplete /\ CrashIsFinal

(* One collector thread at a time, quantiles and counts that agree with    *)
(* the samples, exported counters that never go back, log files in the     *)
(* order of their records, and valid spans that form one trace per         *)
(* request.  That stop() ends the collector is not said here: it need not  *)
(* (Collector, StoppedMeansStopped).                                       *)
ObservabilitySound ==
    OneCollector /\ HistogramExact /\ ExportsGrow /\ FilesInOrder /\ TracesHoldTogether

(* What is on the screen is what the program holds, whichever animation,   *)
(* signal or timer came in between: a card is back in its place, effects   *)
(* have come to their end, widgets have the colours of the theme, pages    *)
(* have their titles, the view has the last values, and side bar, toasts   *)
(* and knobs follow.  The parts name what the code gets wrong: a glow over *)
(* a fade-out, pages replaced or pushed again, another root widget, and    *)
(* overlapping calls of setLoading().                                      *)
ScreenSound == MotionSound /\ UiSound /\ ControlsSound

(* Promises settle their futures, and toasts leave the screen. *)
EverythingSettles == FuturesSettle /\ ToastsGoAway

=============================================================================
