-------------------------------- MODULE Clock --------------------------------
(***************************************************************************)
(* The two conversions of an ISO 8601 time to an epoch the repository      *)
(* carries, one in the credentials of rmaker_aws_sign and one in           *)
(* rmaker_time_sync; the window in which credentials are renewed; and the  *)
(* search of the time zone table.                                          *)
(*                                                                         *)
(* A parsed time is a record of its fields.  An instant is a day and the   *)
(* seconds into it, since TLC's integers are narrower than int64_t.        *)
(***************************************************************************)
EXTENDS Integers, Sequences, FiniteSets

CONSTANTS DefaultTtl, Margin    \* CREDS_DEFAULT_TTL_SEC, CREDS_REFRESH_MARGIN_SEC

\* C's division and remainder, which round towards zero.
Quot(a, b) == IF a >= 0 THEN a \div b ELSE -((-a) \div b)
Rem(a, b) == a - b * Quot(a, b)

-----------------------------------------------------------------------------
(* esp_rmaker_aws_sign_creds.c                                             *)

\* Years are counted from March.
CivilYearSame(y, m) == y
CivilYear(y, m) == IF m <= 2 THEN y - 1 ELSE y

DaysFromCivil(y, m, d) ==
    LET era == Quot(IF CivilYear(y, m) >= 0 THEN CivilYear(y, m) ELSE CivilYear(y, m) - 399, 400)
        yoe == CivilYear(y, m) - era * 400
        doy == (153 * (m + (IF m > 2 THEN -3 ELSE 9)) + 2) \div 5 + d - 1
    IN  era * 146097 + yoe * 365 + yoe \div 4 - yoe \div 100 + doy - 719468

InRange(t) == /\ t.month \in 1..12 /\ t.day \in 1..31
              /\ t.hour \in 0..23 /\ t.minute \in 0..59 /\ t.second \in 0..60

\* iso8601_to_epoch; the epoch itself stands for a time it refuses.
CredsEpoch(t) ==
    IF InRange(t) THEN <<DaysFromCivil(t.year, t.month, t.day),
                         t.hour * 3600 + t.minute * 60 + t.second>>
    ELSE <<0, 0>>

\* creds_refresh: the expiry it keeps and the time from which it fetches again.
Expiration(now, expiration) == IF expiration <= now THEN now + DefaultTtl ELSE expiration

RefreshTimeMargin(now, expiration) == Expiration(now, expiration) - Margin

RefreshTime(now, expiration) ==
    LET until == Expiration(now, expiration)
        half == (until - now) \div 2
    IN  until - (IF half > Margin THEN Margin ELSE half)

-----------------------------------------------------------------------------
(* time_sync.c                                                             *)

IsLeap(y) == (Rem(y, 4) = 0 /\ Rem(y, 100) # 0) \/ Rem(y, 400) = 0

DaysBefore == <<0, 31, 59, 90, 120, 151, 181, 212, 243, 273, 304, 334>>

\* rmaker_timegm, of a tm with the month in 0..11 once normalised.
TimegmDays(y, mon, d) ==
    LET year == IF mon < 0 THEN y + Quot(mon - 11, 12) ELSE IF mon > 11 THEN y + mon \div 12 ELSE y
        month == IF mon < 0 THEN 12 + Rem(mon, 12) ELSE mon % 12
        leaps(from, to) == Cardinality({k \in from..to : IsLeap(k)})
        years == IF year >= 1970 THEN 365 * (year - 1970) + leaps(1970, year - 1)
                 ELSE 365 * (year - 1970) - leaps(year, 1969)
    IN  years + DaysBefore[month + 1] + (IF month > 1 /\ IsLeap(year) THEN 1 ELSE 0) + d - 1

\* convert_iso8601_to_epoch, of a time with its offset in minutes; the code
\* takes the second before the epoch for the failure of timegm.
SyncEpoch(t, offset) ==
    LET days == TimegmDays(t.year, t.month - 1, t.day)
        seconds == t.hour * 3600 + t.minute * 60 + t.second
    IN  IF <<days, seconds>> = <<-1, 86399>> THEN [ok |-> FALSE]
        ELSE [ok |-> TRUE, epoch |-> <<days, seconds - 60 * offset>>]

-----------------------------------------------------------------------------
(* timezone.c: names are sequences of characters                           *)

Characters == {"slash", "A", "B", "underscore", "a", "b"}
Code == [c \in Characters |-> CASE c = "slash" -> 47 [] c = "A" -> 65 [] c = "B" -> 66
                                 [] c = "underscore" -> 95 [] c = "a" -> 97 [] c = "b" -> 98]

\* lower(s[i]), which is 0 at the end.
Lower(s, i) == IF i > Len(s) THEN 0
               ELSE IF Code[s[i]] \in 65..90 THEN Code[s[i]] + 32 ELSE Code[s[i]]

AfterOne(s, i) == i + 1

\* The place after i and any underscores that follow.
After(s, i) == CHOOSE k \in (i + 1)..(Len(s) + 1) :
                  /\ k > Len(s) \/ s[k] # "underscore"
                  /\ \A m \in (i + 1)..(k - 1) : s[m] = "underscore"

TzNameCmp(target, other) ==
    LET cmp[p \in (1..(Len(target) + 1)) \X (1..(Len(other) + 1))] ==
            IF p[1] > Len(target) \/ Lower(target, p[1]) # Lower(other, p[2])
            THEN Lower(target, p[1]) - Lower(other, p[2])
            ELSE cmp[<<After(target, p[1]), After(other, p[2])>>]
    IN  cmp[<<1, 1>>]

\* The search of the table, which counts from 0: the entry found, or 0.
TzSearch(tzs, name) ==
    LET find[p \in (0..Len(tzs)) \X (0..Len(tzs))] ==
            LET mid == (p[1] + p[2]) \div 2
                comparison == TzNameCmp(name, tzs[mid + 1])
            IN  CASE p[1] >= p[2] -> 0
                  [] p[1] < p[2] /\ comparison = 0 -> mid + 1
                  [] p[1] < p[2] /\ comparison < 0 -> find[<<p[1], mid>>]
                  [] OTHER -> find[<<mid + 1, p[2]>>]
    IN  find[<<0, Len(tzs)>>]

-----------------------------------------------------------------------------
(* The calendar and the table they are compared with                       *)

MonthLength(y, m) == CASE m = 2 -> IF IsLeap(y) THEN 29 ELSE 28
                       [] m \in {4, 6, 9, 11} -> 30 [] OTHER -> 31

NextDay(t) == IF t.day < MonthLength(t.year, t.month) THEN [t EXCEPT !.day = @ + 1]
              ELSE IF t.month < 12 THEN [t EXCEPT !.month = @ + 1, !.day = 1]
              ELSE [t EXCEPT !.year = @ + 1, !.month = 1, !.day = 1]

\* The two conversions give every day the number after the day before it, 0 to
\* the epoch, and so agree on every time of UTC; an offset is taken off.
ConversionsAgree(t) ==
    LET sync(offset) == SyncEpoch(t, offset)
    IN  /\ CredsEpoch(NextDay(t))[1] = CredsEpoch(t)[1] + 1
        /\ CredsEpoch([t EXCEPT !.year = 1970, !.month = 1, !.day = 1])[1] = 0
        /\ sync(0).ok => sync(0).epoch = CredsEpoch(t)
        /\ sync(0).ok => sync(330).epoch = <<sync(0).epoch[1], sync(0).epoch[2] - 19800>>
        /\ ~sync(0).ok => CredsEpoch(t) = <<-1, 86399>>
        \* a month outside the year counts on into the next or the last one
        /\ SyncEpoch([t EXCEPT !.month = @ + 12], 0) = SyncEpoch([t EXCEPT !.year = @ + 1], 0)
        /\ t.month > 1 =>
              SyncEpoch([t EXCEPT !.month = @ - 12], 0) = SyncEpoch([t EXCEPT !.year = @ - 1], 0)

\* What was just fetched is not due at once, and falls due before it expires
\* but no longer than the margin before.
RenewedBetween(now, expiration) ==
    LET at == RefreshTime(now, expiration)
        until == Expiration(now, expiration)
    IN  now < at /\ at <= until /\ until - at <= Margin /\ (until - now > 1 => at < until)

\* The places of the characters that count: the underscores past the first do not.
Kept(name) == {i \in DOMAIN name : i = 1 \/ name[i] # "underscore"}

\* The name without case, of the characters that count.
Folded(name) == [k \in 1..Cardinality(Kept(name)) |->
                    Lower(name, CHOOSE i \in Kept(name) : Cardinality(Kept(name) \cap 1..i) = k)]

\* The order of sequences by their first difference.
Ascending(s, t) == \E i \in DOMAIN t : /\ i = Len(s) + 1 \/ (i \in DOMAIN s /\ s[i] < t[i])
                                       /\ \A j \in 1..(i - 1) : s[j] = t[j]

Sorted(tzs) == \A i, j \in DOMAIN tzs : i < j => Ascending(Folded(tzs[i]), Folded(tzs[j]))

\* A name is found in a sorted table exactly where it stands.
SearchFinds(tzs, name) ==
    LET found == TzSearch(tzs, name)
    IN  IF \E i \in DOMAIN tzs : Folded(tzs[i]) = Folded(name)
        THEN found # 0 /\ Folded(tzs[found]) = Folded(name)
        ELSE found = 0

-----------------------------------------------------------------------------
(* Inputs                                                                  *)

Times == [year : {1600, 1699, 1700, 1899, 1900, 1969, 1970, 1972, 1999, 2000, 2024, 2025, 2038, 2100, 2400},
          month : {1, 2, 3, 6, 12}, day : {1, 28}, hour : {0, 23}, minute : {59}, second : {0, 59}]
         \cup {[year |-> y, month |-> m, day |-> MonthLength(y, m), hour |-> 23, minute |-> 59, second |-> 59]
                  : y \in 1968..2004, m \in 1..12}

Nows == {[now |-> 100, expiration |-> e] : e \in 0..(101 + 3 * Margin)}

ZoneNames == {<<"a">>, <<"a", "slash", "b">>, <<"A", "underscore", "b">>, <<"a", "b", "b">>, <<"b">>,
              <<"b", "slash", "A", "underscore", "b">>, <<"underscore">>}

Tables == {tzs \in UNION {[1..n -> ZoneNames] : n \in 1..5} : Sorted(tzs)}

Lookups ==
    [tzs : Tables,
     name : ZoneNames \cup {<<>>, <<"A">>, <<"a", "b">>, <<"b", "slash">>,
                            <<"a", "underscore", "underscore", "slash", "B">>,
                            <<"B", "slash", "a", "b", "underscore">>}]
=============================================================================
