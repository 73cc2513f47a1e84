------------------------------ MODULE Schedule ------------------------------
(***************************************************************************)
(* The interval arithmetic over the current entries of a timetable: which  *)
(* stretches of a day are busy, which are free, which rooms are free in a  *)
(* window and which entries are double-booked.  An ingestion run adds and  *)
(* closes entries one at a time; after every change the answers computed   *)
(* by the code's algorithms are compared with the minutes themselves.      *)
(* Clock times are minutes; an interval is half-open.                      *)
(***************************************************************************)
EXTENDS Integers, Sequences, FiniteSets, SequencesExt, FiniteSetsExt, Functions

CONSTANTS Ids,      \* bound: the entries there can be, in the order of a list
          Rooms, Teachers,
          Weekdays,
          Open, Close,  \* bound: the first minute of a day and its last
          None          \* a null teacher or room, a closed entry

ASSUME DayAssumption == Open \in Nat /\ Close \in Nat /\ Open < Close
ASSUME IdsAssumption == Ids \subseteq Nat /\ IsFiniteSet(Ids)
ASSUME NoneAssumption == None \notin Rooms \union Teachers

VARIABLE classes    \* the current entries (valid_to is null)

Interval == {w \in [start: Open..Close, end: Open..Close]: w.start < w.end}

Class == [room: Rooms \union {None}, teacher: Teachers \union {None},
          day: Weekdays, time: Interval]

ScheduleTypes == classes \in [Ids -> Class \union {None}]

Current == {i \in Ids: classes[i] # None}

\* The times of these entries, in the order a scan returns them, whichever it is.
Times(ids) == LET rows == SetToSeq(ids)
              IN [k \in DOMAIN rows |-> classes[rows[k]].time]

(***************************************************************************)
(* Busy and free stretches.                                                *)
(***************************************************************************)
Overlaps(v, w) == v.start < w.end /\ w.start < v.end

NotAfter(v, w) == \/ v.start < w.start
                  \/ v.start = w.start /\ v.end <= w.end

\* Those that are not empty, in the order of their starts and then their ends.
Sorted(intervals) ==
    LET kept  == {k \in DOMAIN intervals: intervals[k].end > intervals[k].start}
        order == CHOOSE p \in SetToSeqs(kept):
                   \A j, k \in DOMAIN p: j < k => NotAfter(intervals[p[j]], intervals[p[k]])
    IN [k \in DOMAIN order |-> intervals[order[k]]]

\* A bug: a stretch that ends as the next one begins is left apart from it.
Coalesce_Apart(out, w) ==
    IF out # <<>> /\ w.start < Last(out).end
    THEN [out EXCEPT ![Len(out)].end = Max({@, w.end})]
    ELSE Append(out, w)

\* One more interval, in the order of their starts: it lengthens the last
\* stretch or begins another.
Coalesce(out, w) ==
    IF out # <<>> /\ w.start <= Last(out).end
    THEN [out EXCEPT ![Len(out)].end = Max({@, w.end})]
    ELSE Append(out, w)

MergeIntervals(intervals) == FoldLeft(Coalesce, <<>>, Sorted(intervals))

Clip(w, clip) == [start |-> Max({clip.start, w.start}),
                  end   |-> Min({clip.end, w.end})]

BusyIntervals(ids, day, clip) ==
    LET times == Times({i \in ids: classes[i].day = day})
    IN MergeIntervals([k \in DOMAIN times |-> Clip(times[k], clip)])

IsBusy(busy, window) == \E k \in DOMAIN busy: Overlaps(busy[k], window)

\* One busy stretch of the loop of freeGaps: `at' is the cursor.  A stretch
\* outside the window changes nothing.
Gap(gaps, b, window) ==
    IF b.end <= window.start \/ b.start >= window.end THEN gaps
    ELSE [at    |-> Max({gaps.at, b.end}),
          found |-> IF b.start > gaps.at
                    THEN Append(gaps.found, [start |-> gaps.at, end |-> b.start])
                    ELSE gaps.found]

FreeGaps(busy, window) ==
    LET gaps == FoldLeft(LAMBDA g, b: Gap(g, b, window),
                         [at |-> window.start, found |-> <<>>],
                         MergeIntervals(busy))
    IN IF gaps.at < window.end
       THEN Append(gaps.found, [start |-> gaps.at, end |-> window.end])
       ELSE gaps.found

TotalMinutes(intervals) ==
    FoldLeft(LAMBDA n, w: n + (w.end - w.start), 0, MergeIntervals(intervals))

(***************************************************************************)
(* The free-rooms page and the double bookings.                            *)
(***************************************************************************)
\* A bug: the page counts the entries of one term only.
Occupancy_OneTerm(day) == {i \in Current: /\ classes[i].day = day
                                          /\ classes[i].room # None
                                          /\ i # Max(Ids)}

Occupancy(day) == {i \in Current: classes[i].day = day /\ classes[i].room # None}

FreeRooms(day, window) ==
    Rooms \ {classes[i].room: i \in {j \in Occupancy(day):
                                       Overlaps(classes[j].time, window)}}

\* A bug: entries without a teacher, or without a room, are taken for one.
Shared_Null(of, i, j) == classes[i][of] = classes[j][of]

Shared(of, i, j) == /\ classes[i][of] # None
                    /\ classes[i][of] = classes[j][of]

\* The pairs of entries that share a resource, an earlier one of the scan and
\* a later one.
DetectConflicts ==
    {c \in {"teacher", "room"} \X Current \X Current:
       LET i == c[2]
           j == c[3]
       IN /\ i < j
          /\ classes[i].day = classes[j].day
          /\ Overlaps(classes[i].time, classes[j].time)
          /\ Shared(c[1], i, j)}

(***************************************************************************)
(* The specification.                                                      *)
(***************************************************************************)
ScheduleInit == classes = [i \in Ids |-> None]

\* An ingestion run stores an entry that is new, or closes one that is gone.
Insert == \E i \in Ids, e \in Class:
            /\ classes[i] = None
            /\ classes' = [classes EXCEPT ![i] = e]

CloseEntry == \E i \in Current: classes' = [classes EXCEPT ![i] = None]

ScheduleNext == Insert \/ CloseEntry

ScheduleSpec == ScheduleInit /\ [][ScheduleNext]_classes

-----------------------------------------------------------------------------
Minutes(w) == w.start..(w.end - 1)

Covered(intervals) == UNION {Minutes(intervals[k]): k \in DOMAIN intervals}

\* The minutes of a day on which one of these entries is taught.
Taught(ids, day) == UNION {Minutes(classes[i].time):
                             i \in {j \in ids: classes[j].day = day}}

\* In order, none empty, and a minute at least between one and the next.
Apart(intervals) ==
    /\ \A k \in DOMAIN intervals: intervals[k].start < intervals[k].end
    /\ \A k \in 1..(Len(intervals) - 1): intervals[k].end < intervals[k + 1].start

\* The busy stretches of a room and the gaps between them are two lists of
\* maximal stretches that divide every window of every day between them: no
\* class falls in a gap, no free minute is missed, and no minute is counted
\* twice (busyIntervals, freeGaps and totalMinutes against the minutes).
GapsAreComplement ==
    \A r \in Rooms, d \in Weekdays, w \in Interval:
      LET ids  == {i \in Current: classes[i].room = r}
          busy == BusyIntervals(ids, d, w)
          free == FreeGaps(BusyIntervals(ids, d, [start |-> Open, end |-> Close]), w)
      IN /\ Apart(busy) /\ Apart(free)
         /\ Covered(busy) = Taught(ids, d) \intersect Minutes(w)
         /\ Covered(free) = Minutes(w) \ Covered(busy)
         /\ TotalMinutes(busy) + TotalMinutes(free) = w.end - w.start

\* Types, and the two lists (GapsAreComplement).
StretchesInv == ScheduleTypes /\ GapsAreComplement

\* The free-rooms page, which tests the entries of a weekday one by one, calls
\* a room free in a window exactly when the room's own merged stretches leave
\* the window alone: the two pages cannot disagree, as they once did.
PagesAgree ==
    \A r \in Rooms, d \in Weekdays, w \in Interval:
      LET ids   == {i \in Current: classes[i].room = r}
          whole == [start |-> Open, end |-> Close]
      IN (r \in FreeRooms(d, w)) <=> ~IsBusy(BusyIntervals(ids, d, whole), w)

\* No conflict is reported twice or missed: a teacher or a room has conflicts
\* on a day exactly when fewer minutes of the day are taught than the lengths
\* of its entries sum up to (detectConflicts against the merged stretches).
ConflictsAreDoubleBookings ==
    \A of \in {"teacher", "room"}, x \in Rooms \union Teachers, d \in Weekdays:
      LET ids  == {i \in Current: classes[i][of] = x /\ classes[i].day = d}
          sum  == SumFunctionOnSet([i \in ids |-> Cardinality(Minutes(classes[i].time))], ids)
          twice == {c \in DetectConflicts: c[1] = of /\ c[2] \in ids}
      IN /\ twice = {} <=> TotalMinutes(Times(ids)) = sum
         /\ \A c \in DetectConflicts: /\ classes[c[2]][c[1]] \in Rooms \union Teachers
                                      /\ <<c[1], c[3], c[2]>> \notin DetectConflicts
=============================================================================
