------------------------------- MODULE CarNote -------------------------------
(***************************************************************************)
(* Car Note Mode: computeCarNote of packages/shared/src/car-note.ts, and   *)
(* the two surfaces that run it - POST /owners/car-note behind its DTO,    *)
(* and the dashboard's card, which computes it while rendering, from       *)
(* whatever is typed.                                                      *)
(***************************************************************************)
EXTENDS Money, Vocabulary

CONSTANTS
    RegionalAverage,   \* average earnings per hour, in minor units
    Undefined          \* a field that was left out

ASSUME RegionalAverageAssumption == RegionalAverage \in [Region -> Nat \ {0}]

ASSUME UndefinedAssumption == Undefined \notin Int \cup Region \cup {NaN}

\* The rate: the caller's, else the region's, else that of the US.
HourlyRate(rate, region) ==
    IF rate # Undefined THEN rate
    ELSE One * RegionalAverage[IF region = Undefined THEN "US" ELSE region]

\* Mutation of ComputeCarNote: hours to the nearest, not rounded up.
ComputeCarNoteRounding(payment, hourly, region) ==
    LET rate == HourlyRate(hourly, region)
    IN  IF ~IsMinorUnits(payment) \/ payment < 0 \/ rate <= 0 THEN MoneyError
        ELSE LET hours == Round(Over(payment, rate))
             IN  Value([payment |-> payment, rate |-> rate, hours |-> hours,
                        days |-> Ceil(Over(hours, 4 * One))])

ComputeCarNote(payment, hourly, region) ==
    LET rate == HourlyRate(hourly, region)
    IN  IF ~IsMinorUnits(payment) \/ payment < 0 \/ rate <= 0 THEN MoneyError
        ELSE LET hours == Ceil(Over(payment, rate))
             IN  Value([payment |-> payment, rate |-> rate, hours |-> hours,
                        days |-> Ceil(Over(hours, 4 * One))])

\* CarNoteDto.  It takes any integer that is not negative, safe or not.
CarNoteDto(payment, hourly, region) ==
    /\ payment # NaN /\ IsInteger(payment) /\ payment >= 0
    /\ hourly # Undefined => hourly # NaN /\ IsInteger(hourly) /\ hourly >= One
    /\ region \in Region \cup {Undefined}

BadRequest == [kind |-> "bad request"]

\* POST /owners/car-note.  A MoneyError is not an HttpException: it leaves as a 500.
ServeCarNote(payment, hourly, region) ==
    IF CarNoteDto(payment, hourly, region) THEN ComputeCarNote(payment, hourly, region)
    ELSE BadRequest

\* Mutation of TypedCents: a negative payment is passed on (no Math.max).
TypedCentsUnclamped(dollars) == IF dollars = NaN THEN 0 ELSE Round(Times(dollars, 100 * One))

\* What the dashboard makes of the dollars in its field.
TypedCents(dollars) ==
    IF dollars = NaN \/ dollars < 0 THEN 0 ELSE Round(Times(dollars, 100 * One))

\* A throw while rendering takes the dashboard down: nothing above it catches it.
RenderCarNote(dollars) == ComputeCarNote(TypedCents(dollars), Undefined, Undefined)

=============================================================================
