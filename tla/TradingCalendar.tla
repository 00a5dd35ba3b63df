--------------------------- MODULE TradingCalendar ---------------------------
(***************************************************************************)
(* The HKEX calendar helpers (azureus/utils/dates.py).  A date is its      *)
(* ordinal, from 1; the library's sessions are a set of dates, and the ad  *)
(* hoc closures are removed from whatever the library answers.             *)
(***************************************************************************)
EXTENDS Integers, FiniteSetsExt

CONSTANTS LibrarySessions,  \* dates exchange_calendars calls sessions of XHKG
          AdHocClosures,    \* typhoon closures the library does not know
          LookupWindow,     \* _LOOKUP_WINDOW: 21 days
          NoDate            \* ValueError: no session within the window

ASSUME CalendarAssumption == /\ LibrarySessions \subseteq Nat \ {0}
                             /\ AdHocClosures \subseteq Nat
                             /\ LookupWindow \in Nat
                             /\ NoDate \notin Nat

\* Mutant: the closures the library does not know are forgotten.
SessionsInRange_Library(first, last) == {d \in LibrarySessions : first <= d /\ d <= last}

\* sessions_in_range without the closures: every helper below asks for it.
SessionsInRange(first, last) ==
  {d \in LibrarySessions \ AdHocClosures : first <= d /\ d <= last}

IsTradingDay(d) == d \in LibrarySessions /\ d \notin AdHocClosures

TradingDaysBetween(first, last) == SessionsInRange(first, last)

RollToTradingDay(d) == LET found == SessionsInRange(d, d + LookupWindow)
                       IN  IF found = {} THEN NoDate ELSE Min(found)

NextTradingDay(d) == RollToTradingDay(d + 1)

PreviousTradingDay(d) == LET found == SessionsInRange(d - 1 - LookupWindow, d - 1)
                         IN  IF found = {} THEN NoDate ELSE Max(found)
=============================================================================
