--------------------------- MODULE Observability ----------------------------
(***************************************************************************)
(* Metrics, log files and spans.  The parts share no state.                *)
(***************************************************************************)
EXTENDS Integers, Sequences, FiniteSets, SequencesExt, FiniteSetsExt

(***************************************************************************)
(* A histogram, a counter and a gauge of the metrics registry, and their   *)
(* Prometheus export.  Counter and gauge have a value of their own, "bare",*)
(* and one for each combination of labels.  Values are integers: quantiles *)
(* of the histogram, which the code computes in floating point, are exact  *)
(* fractions here.  Every operation holds the metric's mutex; the export   *)
(* of a counter takes it twice, once for the bare and once for the         *)
(* labelled values, and leaves out what is 0.                              *)
(***************************************************************************)
CONSTANTS
    Samples,            \* values that are observed
    Boundaries,         \* sequence of bucket boundaries
    LabelSets,          \* label combinations
    Grid,               \* quantiles asked for: 0/Grid .. Grid/Grid
    MaxObserved,        \* bound on observations
    MaxCount            \* bound on counter and gauge

\* What the constructor of Histogram tests: not empty, strictly ascending.
ASSUME BoundariesAssumption ==
    /\ Boundaries \in Seq(Int) /\ Samples \subseteq Int
    /\ Boundaries # << >> /\ \A i \in 2..Len(Boundaries) : Boundaries[i - 1] < Boundaries[i]

ASSUME HistogramAssumption == Grid \in Nat \ {0} /\ MaxCount \in Nat

Series == {"bare"} \cup LabelSets

VARIABLES
    hist,               \* Histogram: [min, max, sum, count, buckets]
    observed,           \* what was observed, in order
    counter,            \* Counter: m_value and m_labeledValues
    gauge,              \* Gauge: the same
    named,              \* metrics the registry has made
    exporting,          \* the bare value that an export of the counter has read, or -1
    scraped             \* what the last export said of the counter

metricVars == <<hist, observed, counter, gauge, named, exporting, scraped>>

NewHistogram == [min |-> 0, max |-> 0, sum |-> 0, count |-> 0,
                 buckets |-> [i \in 1..(Len(Boundaries) + 1) |-> 0]]

MetricsInit ==
    /\ hist = NewHistogram /\ observed = << >>
    /\ counter = [s \in Series |-> 0] /\ gauge = [s \in Series |-> 0]
    /\ named = {} /\ exporting = -1 /\ scraped = [s \in Series |-> 0]

\* The mistake of the first boundary above the value.
FindBucketAbove(v) == 1 + Cardinality({i \in DOMAIN Boundaries : Boundaries[i] <= v})

\* lower_bound: the first boundary that is not less than the value.
FindBucket(v) == 1 + Cardinality({i \in DOMAIN Boundaries : Boundaries[i] < v})

Observe(v) ==
    /\ "histogram" \in named /\ hist.count < MaxObserved
    /\ hist' = [min |-> IF hist.count = 0 \/ v < hist.min THEN v ELSE hist.min,
                max |-> IF hist.count = 0 \/ v > hist.max THEN v ELSE hist.max,
                sum |-> hist.sum + v, count |-> hist.count + 1,
                buckets |-> [hist.buckets EXCEPT ![FindBucket(v)] = @ + 1]]
    /\ observed' = Append(observed, v)
    /\ UNCHANGED <<counter, gauge, named, exporting, scraped>>

\* increment() of the bare value or of a labelled one; a negative delta is
\* ignored.
IncrementCounter(s, delta) ==
    /\ "counter" \in named
    /\ delta >= 0 /\ counter[s] + delta <= MaxCount
    /\ counter' = [counter EXCEPT ![s] = @ + delta]
    /\ UNCHANGED <<hist, observed, gauge, named, exporting, scraped>>

SetGauge(s, v) ==
    /\ "gauge" \in named /\ gauge' = [gauge EXCEPT ![s] = v]
    /\ UNCHANGED <<hist, observed, counter, named, exporting, scraped>>

\* increment() and decrement(), of the bare value only.
AdjustGauge(delta) ==
    /\ "gauge" \in named /\ gauge["bare"] + delta \in -MaxCount..MaxCount
    /\ gauge' = [gauge EXCEPT !["bare"] = @ + delta]
    /\ UNCHANGED <<hist, observed, counter, named, exporting, scraped>>

\* counter(), gauge(), histogram(): the one of that name, made when there
\* is none; one that is there keeps what it counted.
GetMetric(kind) ==
    /\ named' = named \cup {kind}
    /\ UNCHANGED <<hist, observed, counter, gauge, exporting, scraped>>

\* exportCounter(): value(), and after another lock labeledValues().
ExportValue ==
    /\ "counter" \in named /\ exporting = -1
    /\ exporting' = counter["bare"]
    /\ UNCHANGED <<hist, observed, counter, gauge, named, scraped>>

ExportLabels ==
    /\ exporting # -1 /\ exporting' = -1
    /\ scraped' = [counter EXCEPT !["bare"] = exporting]
    /\ UNCHANGED <<hist, observed, counter, gauge, named>>

\* clear() destroys the metrics, also under an export that holds pointers
\* to them: it is for tests, which have no export running.
ClearRegistry ==
    /\ exporting = -1
    /\ hist' = NewHistogram /\ observed' = << >>
    /\ counter' = [s \in Series |-> 0] /\ gauge' = [s \in Series |-> 0]
    /\ named' = {} /\ scraped' = [s \in Series |-> 0]
    /\ UNCHANGED exporting

MetricsNext ==
    \/ \E v \in Samples : Observe(v)
    \/ \E s \in Series, v \in 0..MaxCount : IncrementCounter(s, v) \/ SetGauge(s, v)
    \/ \E delta \in {-1, 1} : AdjustGauge(delta)
    \/ \E k \in {"counter", "gauge", "histogram"} : GetMetric(k)
    \/ ExportValue \/ ExportLabels \/ ClearRegistry

-----------------------------------------------------------------------------
\* exportHistogram(): cumulative counts; the last bucket is +Inf.
Cumulative[i \in 0..(Len(Boundaries) + 1)] ==
    IF i = 0 THEN 0 ELSE Cumulative[i - 1] + hist.buckets[i]

\* quantile(q / Grid) as <<numerator, denominator>>: linear within the first
\* bucket whose cumulative count reaches the target.
Quantile(q) ==
    IF hist.count = 0 THEN <<0, 1>>
    ELSE LET i == CHOOSE k \in DOMAIN hist.buckets :
                      /\ Cumulative[k] * Grid >= q * hist.count
                      /\ \A j \in 1..(k - 1) : Cumulative[j] * Grid < q * hist.count
             start == IF i = 1 THEN hist.min ELSE Boundaries[i - 1]
             end == IF i <= Len(Boundaries) THEN Boundaries[i] ELSE hist.max
             n == hist.buckets[i]
             before == Cumulative[i] - n
         IN  IF n = 0 THEN <<end, 1>>
             ELSE <<start * n * Grid + (q * hist.count - before * Grid) * (end - start), n * Grid>>

LessEq(a, b) == a[1] * b[2] <= b[1] * a[2]

(***************************************************************************)
(* What is exported for a boundary is the number of observations up to and *)
(* including it, +Inf and _count agree, and quantiles grow with q and stay *)
(* between the smallest value or first boundary and the largest value or   *)
(* the boundary above it (metrics.cpp, exportHistogram).                   *)
(***************************************************************************)
HistogramExact ==
    /\ \A i \in DOMAIN Boundaries :
           Cumulative[i] = Cardinality({k \in DOMAIN observed : observed[k] <= Boundaries[i]})
    /\ Cumulative[Len(Boundaries) + 1] = hist.count
    /\ \A q \in 1..Grid : LessEq(Quantile(q - 1), Quantile(q))
    /\ hist.count > 0 =>
           /\ LessEq(<<Min({hist.min, Boundaries[1]}), 1>>, Quantile(0))
           /\ LessEq(Quantile(Grid), <<Max({hist.max, Boundaries[Len(Boundaries)]}), 1>>)

(***************************************************************************)
(* No export is ahead of the counter, and the one being made is not behind *)
(* the last one: what Prometheus takes for a counter never goes back,      *)
(* although an export reads it in two parts (exportCounter).               *)
(***************************************************************************)
ExportsGrow ==
    /\ \A s \in Series : scraped[s] <= counter[s]
    /\ exporting # -1 => scraped["bare"] <= exporting /\ exporting <= counter["bare"]

-----------------------------------------------------------------------------
(***************************************************************************)
(* Logger, its level filter and its sinks; FileSink with its rotation over *)
(* numbered files, through buffered writes, failing renames, crashes and   *)
(* restarts.  Logger::log() holds m_mutex from the filter to the last      *)
(* sink, so a record is one step.  Records are numbered as they pass the   *)
(* filter; a record has a length, a level and comes from a module or none. *)
(* The file system and spdlog are external.                                *)
(***************************************************************************)
CONSTANTS
    MaxFiles, MaxSize,  \* of FileSink
    Lengths,            \* of formatted records
    MaxRecords,         \* bound on records
    MaxProcesses        \* bound on restarts

ASSUME LoggingAssumption == MaxFiles \in Nat

VARIABLES
    globalLevel,        \* m_level, and the level of the spdlog logger
    moduleLevel,        \* m_moduleLevels of the one module, or -1
    attached,           \* the FileSink is in m_legacySink
    logFiles,           \* 0: the current file, i: file .i -- [there, recs]
    open,               \* m_file is not null
    currentSize,        \* m_currentSize
    buffered,           \* records of the current file not yet flushed
    durable,            \* records written, except those a crash took
    accepted,           \* records that passed the filter
    processes

logVars == <<globalLevel, moduleLevel, attached, logFiles, open, currentSize, buffered, durable, accepted, processes>>
fileState == <<logFiles, open, currentSize, buffered, durable>>

Levels == 0..1
NoFile == [there |-> FALSE, recs |-> << >>]

LoggingInit ==
    /\ globalLevel = 1 /\ moduleLevel = -1 /\ attached = TRUE
    /\ logFiles = [i \in 0..MaxFiles |-> IF i = 0 THEN [there |-> TRUE, recs |-> << >>] ELSE NoFile]
    /\ open = TRUE /\ currentSize = 0 /\ buffered = 0
    /\ durable = << >> /\ accepted = 0 /\ processes = 1

SetLogLevel(l) ==
    /\ globalLevel # l /\ globalLevel' = l
    /\ UNCHANGED <<moduleLevel, attached, fileState, accepted, processes>>

SetModuleLogLevel(l) ==
    /\ moduleLevel # l /\ moduleLevel' = l
    /\ UNCHANGED <<globalLevel, attached, fileState, accepted, processes>>

\* The filter: a module's own level, if it has one, replaces the global one.
Passes(level, fromModule) ==
    level >= IF fromModule /\ moduleLevel # -1 THEN moduleLevel ELSE globalLevel

\* The mistake of making room for file .1 before the older files move up.
RotatedNewestFirst(j) ==
    LET moved(i) == i >= j /\ i < MaxFiles
    IN  [k \in 0..MaxFiles |->
            IF k = 0 THEN IF moved(0) THEN NoFile ELSE logFiles[0]
            ELSE IF k = 1 THEN IF moved(1) THEN NoFile ELSE logFiles[0]
            ELSE IF k = 2 /\ moved(1) THEN logFiles[0]
            ELSE IF moved(k - 1) /\ logFiles[k - 1].there THEN logFiles[k - 1] ELSE logFiles[k]]

\* The renames of rotateFile(), from the oldest down to file j: each file
\* that exists takes the place of its elder.
Rotated(j) ==
    LET moved(i) == i >= j /\ i < MaxFiles /\ logFiles[i].there
    IN  [k \in 0..MaxFiles |->
            IF k > 0 /\ moved(k - 1) THEN logFiles[k - 1]
            ELSE IF moved(k) THEN NoFile
            ELSE logFiles[k]]

Written(files, r) == [files EXCEPT ![0] = [there |-> TRUE, recs |-> Append(@.recs, r)]]

\* FileSink::log() of record r: nothing without a file; rotated when it
\* would not fit.
SinkLog(r, len) ==
    \/ /\ ~ (attached /\ open) /\ UNCHANGED fileState
    \/ /\ attached /\ open /\ currentSize + len <= MaxSize
       /\ logFiles' = Written(logFiles, r)
       /\ currentSize' = currentSize + len /\ buffered' = buffered + 1
       /\ durable' = Append(durable, r) /\ UNCHANGED open
    \/ /\ attached /\ open /\ currentSize + len > MaxSize
       /\ logFiles' = Written(Rotated(0), r)
       /\ currentSize' = len /\ buffered' = 1
       /\ durable' = Append(durable, r) /\ UNCHANGED open

\* A rename fails: the exception leaves log() with the file closed, so that
\* this and every later record of the process is lost.  Or, with j = 0, all
\* renames succeed and the new file cannot be opened: log() writes through a
\* null pointer (file_sink.cpp:46), which the process may survive or not.
SinkFails(len) ==
    /\ attached /\ open /\ currentSize + len > MaxSize
    /\ \E j \in 0..MaxFiles : logFiles' = Rotated(j)
    /\ open' = FALSE /\ buffered' = 0
    /\ UNCHANGED <<currentSize, durable>>

\* Logger::log(); spdlog gets the record too, and applies the global level
\* to it once more.
Log(level, fromModule, len) ==
    /\ accepted < MaxRecords /\ Passes(level, fromModule)
    /\ accepted' = accepted + 1
    /\ SinkLog(accepted', len) \/ SinkFails(len)
    /\ UNCHANGED <<globalLevel, moduleLevel, attached, processes>>

\* flush(), or the buffer of the file is full.
FlushSink ==
    /\ buffered > 0 /\ \E b \in 0..(buffered - 1) : buffered' = b
    /\ UNCHANGED <<globalLevel, moduleLevel, attached, logFiles, open, currentSize, durable, accepted, processes>>

AddSink ==
    /\ ~ attached /\ attached' = TRUE
    /\ UNCHANGED <<globalLevel, moduleLevel, fileState, accepted, processes>>

RemoveSink ==
    /\ attached /\ attached' = FALSE
    /\ UNCHANGED <<globalLevel, moduleLevel, fileState, accepted, processes>>

\* The process ends, with its buffer flushed or lost; the next one opens the
\* file for appending and counts its size from 0.
Restart(crash) ==
    /\ processes < MaxProcesses /\ processes' = processes + 1
    /\ LET lost == IF crash THEN buffered ELSE 0
       IN  /\ logFiles' = [logFiles EXCEPT ![0] = [there |-> TRUE, recs |-> SubSeq(@.recs, 1, Len(@.recs) - lost)]]
           /\ durable' = SubSeq(durable, 1, Len(durable) - lost)
    /\ open' = TRUE /\ currentSize' = 0 /\ buffered' = 0
    /\ globalLevel' = 1 /\ moduleLevel' = -1 /\ attached' = TRUE
    /\ UNCHANGED accepted

LoggingNext ==
    \/ \E l \in Levels : SetLogLevel(l) \/ SetModuleLogLevel(l)
    \/ SetModuleLogLevel(-1)
    \/ \E l \in Levels, m \in BOOLEAN, n \in Lengths : Log(l, m, n)
    \/ FlushSink \/ AddSink \/ RemoveSink
    \/ \E c \in BOOLEAN : Restart(c)

-----------------------------------------------------------------------------
\* The files from the oldest to the current one, as one sequence.
OnDisk ==
    LET upTo[i \in 0..MaxFiles] ==
            IF i = 0 THEN logFiles[0].recs ELSE logFiles[i].recs \o upTo[i - 1]
    IN  upTo[MaxFiles]

(***************************************************************************)
(* The files, oldest first, are an unbroken run of the records written up  *)
(* to the last one: rotation, a rotation that fails half way and a restart *)
(* that appends lose the oldest records only and reorder none.             *)
(***************************************************************************)
FilesInOrder ==
    LET kept == OnDisk
        n == Len(kept)
    IN  /\ n <= Len(durable)
        /\ kept = SubSeq(durable, Len(durable) - n + 1, Len(durable))

-----------------------------------------------------------------------------
(***************************************************************************)
(* sc::observability::Tracer (tracing.cpp): services start spans for what  *)
(* they do and hand the context on in the traceparent header of their      *)
(* requests, used as the comment of tracing.h shows:                       *)
(* startSpan(name, extractFromHeaders(headers)).                           *)
(*                                                                         *)
(* Ids are counted; random ids that collide are left out.  0 is the empty  *)
(* string.  A request may lose its header, and may come from outside with  *)
(* one in any form.                                                        *)
(***************************************************************************)
CONSTANT MaxSpans   \* bound on the spans

ASSUME TracingAssumption == MaxSpans \in Nat

VARIABLES
    spans,      \* the spans: context, and history: the request it serves
    requests    \* requests under way: header or NoHeader, and the same history

tracingVars == <<spans, requests>>

NoHeader == [version |-> "none", trace |-> 0, span |-> 0, sampled |-> FALSE]
NoContext == [trace |-> 0, span |-> 0, parent |-> 0, sampled |-> TRUE]

(* Ids a client outside the system chose, from a range of their own *)
OutsideId == MaxSpans + 1
OutsideHeaders == [version : {"00", "01"}, trace : {0, OutsideId}, span : {OutsideId}, sampled : BOOLEAN]

TracingInit == spans = {} /\ requests = {}

IsValid(c) == c.trace # 0 /\ c.span # 0

(* parseTraceparent(): another version, or an id of another length, gives  *)
(* a context that is not valid                                             *)
ParseTraceparent(h) ==
    IF h.version = "00" /\ h.trace # 0 /\ h.span # 0
    THEN [trace |-> h.trace, span |-> h.span, parent |-> 0, sampled |-> h.sampled]
    ELSE NoContext

(* formatTraceparent() does not ask whether the context is valid *)
FormatTraceparent(c) == [version |-> "00", trace |-> c.trace, span |-> c.span, sampled |-> c.sampled]

ExtractFromHeaders(h) == IF h = NoHeader THEN NoContext ELSE ParseTraceparent(h)

NewId == Cardinality(spans) + 1
Span(c, origin) == spans' = spans \union {[context |-> c, origin |-> origin]}

(* startSpan(name) *)
StartSpan ==
    /\ NewId <= MaxSpans
    /\ Span([trace |-> NewId, span |-> NewId, parent |-> 0, sampled |-> TRUE], NewId)
    /\ UNCHANGED requests

(* A mistaken ChildOf: the child begins a trace of its own *)
ChildApart(parent) ==
    [trace |-> NewId, span |-> NewId, parent |-> parent.span, sampled |-> parent.sampled]

(* startSpan(name, parent): whether the parent is valid is not asked *)
ChildOf(parent) ==
    [trace |-> parent.trace, span |-> NewId, parent |-> parent.span, sampled |-> parent.sampled]

StartChild(s) ==
    /\ NewId <= MaxSpans /\ Span(ChildOf(s.context), s.origin)
    /\ UNCHANGED requests

(* injectToHeaders(), into a request that is sent more than once on retry *)
InjectToHeaders(s) ==
    /\ requests' = requests \union {[header |-> FormatTraceparent(s.context), origin |-> s.origin]}
    /\ UNCHANGED spans

(* A service takes a request, or one whose header was dropped on the way,  *)
(* for which the request is an origin of its own                           *)
HandleRequest(r, dropped) ==
    LET c == ExtractFromHeaders(IF dropped THEN NoHeader ELSE r.header)
    IN  /\ NewId <= MaxSpans
        /\ Span(ChildOf(c), IF dropped THEN NewId ELSE r.origin)
        /\ UNCHANGED requests

OutsideRequest(h) ==
    /\ requests = {} /\ requests' = {[header |-> h, origin |-> OutsideId]}
    /\ UNCHANGED spans

TracingNext ==
    \/ StartSpan
    \/ \E h \in OutsideHeaders : OutsideRequest(h)
    \/ \E s \in spans : StartChild(s) \/ InjectToHeaders(s)
    \/ \E r \in requests, dropped \in BOOLEAN : HandleRequest(r, dropped)

-----------------------------------------------------------------------------
(* Valid spans are of one trace exactly when they serve one request, over  *)
(* any number of services, retries and lost headers, and agree whether it  *)
(* is sampled; no span names a span of another request as its parent; and  *)
(* what was started without a valid context stays without one in every     *)
(* service behind it instead of joining another trace (tracing.cpp:41-86,  *)
(* :100-115).  Spans without a valid context are tied to nothing.          *)
TracesHoldTogether ==
    \A s, t \in spans :
        LET c == s.context
            d == t.context
        IN  /\ IsValid(c) /\ IsValid(d) =>
                 /\ c.trace = d.trace <=> s.origin = t.origin
                 /\ c.trace = d.trace => c.sampled = d.sampled
            /\ c.parent = d.span => c.trace = d.trace /\ s.origin = t.origin
            /\ ~ IsValid(c) /\ s.origin = t.origin => ~ IsValid(d)
=============================================================================
