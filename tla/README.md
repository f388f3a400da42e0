# UniDriver, in TLA+

TLA+ models of the UniDriver monorepo (`src/`): a NestJS API over PostgreSQL
(`apps/api`), the pure domain logic it shares with its clients
(`packages/shared`) and a Next.js owner dashboard (`apps/web`). Every model is
translated from the code; `PROJECT.json` names, for each definition, the lines
it stands for.

## 1. The system

| Part | State it keeps | Operations | Interacts with |
|---|---|---|---|
| Identity (`modules/identity`) | `User` and `OwnerProfile` rows | `POST /owners/register`, `GET /owners/me` | identity provider (token), database |
| Vehicles (`modules/vehicle`) | `Vehicle` rows | create, list mine, get, activate | guards, database |
| Authentication (`auth`, `config`, `web/lib/clerk.ts`) | none per request; the provider chosen at boot, the web's flow at build | `AuthGuard`, `RolesGuard`, Clerk and mock providers | every route; reads `User` |
| Booking (`modules/booking`, `shared/booking.ts`) | none yet: guards over a transition map | tier gate, transition check, binding check | trust, insurance |
| Trust (`modules/trust`, `shared/trust.ts`) | none: pure | score, tier, vehicle access | booking, payout (keep rate) |
| Insurance (`modules/insurance`) | none: forwards to a provider | quote, bind, prorate | booking (binding), payout (cost) |
| Payments (`modules/payments`, `shared/payout.ts`, `shared/owner.ts`) | none | preview, status, disburse | payments provider |
| Money, car note, regions (`shared`) | none: pure | rates, splits, break-even hours | dashboard, payout |
| Operations (`common`) | Redis client and its offline queue, queue cache | health check, enqueue, shutdown | Redis, database |
| Dashboard (`apps/web`) | owner id, vehicle list, error, forms | register, restore, create, refresh | the API |

How they meet: a request passes the global `AuthGuard` (which awaits the
provider, and with Clerk the `User` table), then `RolesGuard`, then its handler;
each `await` is a point where any other request's handler may run. Registration
is public and writes the very rows the guards of other requests read. The
database is the only state that survives a crash, and its unique and foreign
keys are the only thing that orders concurrent writers: there is no lock, no
transaction over more than one statement and no retry in the code.

What is hard about it, and what makes each part correct:

- **Registration**: the lookup by login and the insert are two awaits. Correct
  when no interleaving, crash or lost reply gives a person two accounts, gives a
  client somebody else's account, or tells a client something untrue.
- **Vehicles**: activation checks one read and updates after another await.
  Correct when no high-value car is live without documented value, nobody's car
  is changed by another owner, and lists miss nothing committed before the call.
- **Authentication**: a login may be linked while its request waits at the
  guard. Correct when a login acts as the account it registered, and as no other.
- **Booking**: the guards are separate calls and the transition map is data.
  Correct when no permitted sequence puts an uninsured car, or one above the
  driver's tier, on the road, and when lists derived from the map agree with it.
- **Payout**: two roundings of one amount. Correct when cents are conserved and
  a loss is always flagged. **Disbursement**: two concurrent remote transfers
  behind one promise. Correct when success means both parties were paid.
- **Trust**: rounding, clamping and three-way thresholds. Correct when the
  parts add up and an improvement is never punished.
- **Dashboard**: calls overlap and answers overtake each other. Correct when the
  tab never shows another owner's account or vehicles, forgets nothing a refresh
  started from, and is exact for who waits.
- **Operations**: one Redis client whose unanswered commands stay queued. Correct
  when every health check is answered and only that backlog can hold a shutdown up.
- **Money helpers, car note**: a few floating-point operations each. Correct when
  an amount is exact or refused, a split neither loses nor invents a unit, and the
  hours shown cover the payment.
- **Deployment**: the API chooses its provider when it boots, the web its flow when it
  is built, and a tab keeps the build it loaded. Correct when, however they disagree,
  nobody acts as somebody else, and nobody who registered under Clerk loses their account.

The hazards this leaves are listed, line by line, in `PROJECT.json` under
`hazards`, each with the properties that would catch it.

## 2. The modules

| Module | Models | Uses |
|---|---|---|
| `Vocabulary` | the shared enums | |
| `Schema` | `User`/`Vehicle` rows, unique and foreign keys | `Vocabulary` |
| `Http` | what a handler ends in | `Schema` |
| `Auth` | tokens, both providers, the role rule | `Http` |
| `Identity` | registration | `Auth` |
| `AccountDirectory` | what registration promises its clients (abstract) | |
| `IdentityProofs` | theorems about `Identity` | `Identity`, `TLAPS` |
| `OwnerSession` | the authenticated owner routes | `Auth` |
| `VehicleRegister` | what the owner routes promise their callers (abstract) | |
| `OwnerSessionProofs` | theorems about `OwnerSession` | `OwnerSession`, `TLAPS` |
| `OwnerApi` | both in one process over one database | instances of `Identity`, `OwnerSession` |
| `OwnerApiProofs` | theorems about `OwnerApi` | `OwnerApi`, instances of `IdentityProofs`, `OwnerSessionProofs` |
| `Trust` | score, tiers, access | `Vocabulary` |
| `DriverRecord` | a record that improves, seen through `Trust` | `Payout` |
| `DriverRecordProofs` | theorems about `DriverRecord` | `DriverRecord`, `FiniteSetTheorems`, `TLAPS` |
| `Booking` | one booking under the service's guards | `Trust` |
| `TripPromise` | what a booking promises (abstract) | |
| `Payout` | rates, proration, `computePayout` | `Trust` |
| `Settlement` | preview and disbursement of one trip | `Payout` |
| `PayoutPromise` | what a settlement promises (abstract) | |
| `TripProofs` | theorems about `Booking` and about `Settlement` | `Booking`, `Settlement`, `TLAPS` |
| `Dashboard` | one tab of the owner dashboard over the API | `Http` |
| `DashboardProofs` | theorems about `Dashboard` | `Dashboard`, `FiniteSetTheorems`, `SequenceTheorems`, `TLAPS` |
| `Operations` | health checks, the Redis client, shutdown | |
| `Numbers` | JavaScript numbers, with a significand of `Bits` bits | |
| `Money` | sums, rates, the largest-remainder split | `Numbers` |
| `CarNote` | `computeCarNote`, its route and its card | `Money`, `Vocabulary` |
| `Calculations` | one call to any of these | `CarNote` |
| `CalculationsProofs` | theorems about `Calculations` | `Calculations`, `WellFoundedInduction`, `FiniteSetTheorems`, `TLAPS` |
| `Deployment` | API process, web build and tabs through redeploys and crashes | two instances of `Auth` |
| `DeploymentProofs` | theorems about `Deployment` | `Deployment`, `TLAPS` |
| `MC*` | instances for TLC: sets, inputs, symmetry | |

**State and actions.** In `Identity` and `OwnerSession` each request has a
program counter (`regPc`, `callPc`) whose values are the awaits of its handler;
one action is what runs between two awaits, so `AcceptIdentity`, `FindExisting`
and `Insert` are the three stretches of `register`/`registerOwner`, and `Admit`,
`CheckActivation`, `Activate` those of `POST /vehicles/:id/activate`. What the
handler keeps in local variables over an await is a variable of the model
(`regLogin`, `callClaims`, `callRow`). A database statement is atomic, with the
constraint checks of `Schema` as its guard; a violated unique key takes the
action that models the `catch` (`RefuseDuplicate`, `RefuseListing`), a violated
foreign key the rethrow (`RefuseListing` too), and any other database error may strike
before or after a commit (`LoseDatabase`). `LoseReply` is a client that went
away; `Crash` takes everything in flight and keeps the tables. `regKnown` and
`callBefore` are history variables: what was true when the request was sent.

`OwnerApi` conjoins the two instances over one `users` table; every step of one
leaves the other's variables alone, and a crash hits both. `ImplementsSession` says that
what registrations write is what the session expects of its environment.

`Booking` follows one booking (bookings share nothing in this code). Its caller,
which the repository does not have yet, asks every guard the service offers and
is otherwise free. `Settlement`'s caller, missing too, calls `disburse` again
only after it was rejected. Remote transfers may move their money late, fail
after moving it, or answer in either order.

`Dashboard` is the other end: `ownerId`, `list` and `error` are the component's
state, each click is a call that goes out, is served and is shown in separate
steps, and the callbacks after each `await` are `ShowOwner`, `ShowCreated`,
`ShowList` and `ShowFailure`. The API behind it is reduced to one atomic step per
call, which `AccountDirectory` justifies for registration and `VehicleRegister` for
the other routes: both are implemented by the models with the awaits in. `Listing` says which vehicle is the n-th newest of an
owner's, instead of filtering the table, so that it can be proved about. `Operations` has the Redis client's queues in order: a ping that
lost its race stays where it was, a `quit` goes behind it, and a connection lost
with a `quit` outstanding rejects everything.

`OwnerSession` knows the width of the database's `Int` column (`MaxInt`): the DTO
accepts a larger agreed value, the insert fails on it, and the client gets a 500.

`Calculations` is a function call per behaviour. Its numbers are integers counting
`2^-FractionBits`, each operation rounds its exact result to `Bits` bits, ties to
even, as IEEE 754 does with 53. Everything the code compares against
`Number.MAX_SAFE_INTEGER` is compared against `MaxSafe`, so the model meets the
limit, and what rounding does near it, after 127 units instead of 2^53 - 1. The powers
of two (`Power`) and the code's `reduce` (`Accumulated`) are recursive functions, not
operators, and the properties have sums of exact arithmetic of their own (`Sums`), so
that all of it can be proved about.

`Deployment` is coarse where `Identity` and `OwnerSession` are fine: a request is one
step, and what is studied are the steps of the operator (`DeployApi`, `DeployWeb`),
of the platform (`Crash`, `Restart`) and of the users' browsers (`OpenTab`,
`RestoreAccount`, `Register`, `RegisterAgain`) in any order. A boot the factory
refuses leaves the old process in place; a token is verified by whatever provider
is running, so a tab of one flow presents the other flow's token. Email and phone are
what is typed into the form, one's own or not: the unique columns decide. `loosened`,
`opened` (who opened which accounts) and `mocked` are history.

A definition whose comment begins "Mutation of" is a plausible bug in the
definition that follows. No specification uses one: each exists to show that a
property can be violated, and `PROJECT.json` pairs it with that property.

## 3. What the runs check

| Run | Module / cfg | Bounds | Shows |
|---|---|---|---|
| `registration` | `Identity.cfg` | 2 requests, 2 logins, 2 emails, 2 phones, 2 ids | one account per person, truthful answers, retries that keep working; refines `AccountDirectory`; every request ends |
| `owner_session` | `MCOwnerSession.cfg` | 2 calls of any route, 2 accounts, 2 vehicles, 5 listings, symmetric | listing safety and truthful answers; refines `VehicleRegister` |
| `owner_api` | `MCOwnerApi.cfg` | 2 registrations, 1 call, identity provider | identity carries over; the session is implemented |
| `owner_api_mock` | `MCOwnerApiMock.cfg` | 1 registration, 1 call, every dev token | no vehicle belongs to nobody; every request ends |
| `trip` | `MCTrip.cfg` | one booking, all 5 x 7 tiers; 7 amounts, 3 durations, all tiers, 2 attempts | insured on the road, reclaim, refines `TripPromise`; conservation, flag, fairness of the split, refines `PayoutPromise` |
| `trust` | `MCDriverRecord.cfg` | 4 metrics in quarters, thresholds of trips and tenure | scores add up, weakest dimension caps, improvement never punished |
| `dashboard` | `MCDashboard.cfg` | 4 calls, both modes, 2 accounts, 2 vehicles, another owner and device | only one's own account and vehicles are shown; a refresh forgets nothing; exact when sequential |
| `operations` | `Operations.cfg` | 3 health checks | every check is answered; only a backlog delays a shutdown |
| `money` | `MCCalculations.cfg` | every amount to 127 and past it, 8 rates, 1 to 3 of 6 weights, dollars to the cent and not | exact or refused, rates within bounds, splits conserve and are fair, notes cover the payment |
| `deployment` | `MCDeployment.cfg` | 2 people, 3 ids, 3 emails and phones for anybody, all 24 configurations, symmetric | a tab acts as its own user or nobody; only accounts opened under the mock are stranded |
| `registration_race` | `RegistrationRace.cfg` | 2 requests | a disagreement, below |
| `rate_rounding` | `RateRounding.cfg` | as `money` | a disagreement, below |

**Why the bounds are enough.** Registrations interact only through the three
unique keys, and a clash is between two rows: two requests give every race. (A
third is a bystander that takes one key of each; for it, and for any number, there
are the proofs.) Two values per key give "same" and "different" independently.
Vehicles clash on one key and calls on one row: two of each. The five listings are
the cases of `canActivate` (no value needed, documented, zero, unsourced) and a
value too large for its column. In `Settlement` the amounts are zero, a
cent, amounts with shares on a half, the limits of what is accepted and the
first refused on either side; two attempts give every overlap of a late transfer
with a retry. In `DriverRecord` the metrics cover each dimension and both
inverted rates, and quarters put sums on exact halves, where the score may be
rounded either way. `MaxSafeInteger` is 200000 in the runs, and the model's
arithmetic never depends on it otherwise.

Seven bits of significand make every total up to the largest safe integer a case,
with three buckets of whole, fractional, zero and equal weights: ties, remainders
that rounding moves and sums it changes all occur. What depends on there being 53
bits is only how many amounts are safe: section 4 proves as much for any number of
bits, given a grid of at least two bits that tells a hundredth and the quotients of
whole numbers (`GridAssumption`; the code's has 53 bits, 1074 behind the point, and no
earnings rate near its limit). `RegionalAverage` is 25, 23 and 24 for 2500,
2300 and 2400 cents an hour. In `Deployment` a takeover, a shared phone or a mistyped
email needs two people at most; with three accounts, and an email and a phone for each,
one person may have one of the mock and one of Clerk beside another's, or hold the keys
the other types in.

`trip` runs the booking with the money at rest and the money with the booking at rest:
they share no variable, no code joins them and no property is about both, so their
interleavings would show nothing more.

`EveryRequestEnds` is checked with one call, which can list a vehicle and fail to, but
finds none of its own to activate; two calls are beyond what TLC can do for liveness with
every dev token. Activation takes the same steps as every other route, each of them
forward: guard, handler, its write, reply.

The dashboard's four calls are a registration, a create, a refresh and one more
that overtakes any of them; three health checks put one ping in the offline queue, one
in flight and one after the quit.

**Symmetry** is used only in runs without liveness properties, over sets whose
members the specification never tells apart.

`BetterNeverCosts` compares two breakdowns of one driver in which the dimensions that
were not touched are rounded alike: Math.round of the same sum gives the same points.

**Not run, but proved** (section 4) are the type invariants, wherever there is a theorem;
`Booking`'s `NeverBack` and `TerminalIsTheEnd`, which restate its transition map; and
what a refinement that is run already implies: `ListingsConsistent` and
`OnlyOwnerChangesVehicle` follow from `ImplementsRegister`, `FulfilledPaysBoth` from
`ImplementsPromise`. A run checks what could be wrong without TLC noticing.

**Deadlock** is not checked: every model has finitely many requests (a bound),
and stops when all have been answered or the booking, the trip or the process has ended.
That nothing stops before is what `EveryRegistrationEnds` and `EveryRequestEnds` say.

**Fairness.** `WF(Handle(r))` for each request: Node's event loop runs every
continuation whose await has settled, and database, identity provider and
client settle theirs with a result or an error (connection and request timeouts
are the libraries'). Nothing is assumed of clients or crashes. In `Operations`, timers
go off, the database answers or fails, Nest runs its hooks, and a connected Redis
answers or is lost; that an unreachable Redis comes back is not assumed. `Dashboard`, `Booking`,
`Settlement`, `DriverRecord`, `Calculations` and `Deployment` have no fairness: nothing in the
code makes their callers act, so they claim safety only.

`NoteCoversPayment` asks the payment on the dashboard's card to be the one typed only if
that is to the cent (`ToTheCent`). Without this it is false of a fraction of a cent next to
a half, which the product with 100 pushes over: the proof met that case, the runs' inputs
had not.

**The disagreements.** Two are runs that must find a violation, each of a property in
the words of a comment.

- `registration_race`: `registerOwner`'s comment (identity.service.ts:25) says
  that re-registering from the same login returns the linked account. Two
  concurrent registrations of one login both find nothing; the second insert then
  meets P2002 and is answered 409 although its login is linked by then. What does
  hold, and is proved, is `KnownLoginNeverConflicts`: a login whose account existed
  when it asked is never told so.
- `rate_rounding`: `applyRate`'s comment (money.ts:52-53) says "half away from zero".
  `Math.round` takes a half up, so a negative one goes towards zero: `applyRate(-7, 0.5)`
  is -3. `RatesStayWithin`, which holds and is proved, asks for a nearest unit, and for
  the larger of two as near only when the amount is not negative.

Others were met on the way and are recorded without a run:

- `splitMinorUnits` promises parts that sum exactly to the total
  (money.ts:64-65) for any total it accepts. Near the largest safe integer the product of
  total and weight is rounded, both halves of an odd total round up, and the parts are a
  unit too many: in the model for 89 of at most 127, with doubles for
  `splitMinorUnits(5769725441277067, [50, 50])`. Two properties state what does hold:
  `SplitConserves` wherever the products are exact, and
  `SplitOfLittleConserves` over any weights, fractions too, while the total times twice
  the number of buckets and two is safe: with two buckets, up to a sixth of the largest
  safe integer. Both are proved.
- `DEPLOYMENT.md` (lines 101-103) says a surface with a Clerk variable missing silently
  runs the mock flow. The web does; the API with `AUTH_PROVIDER=clerk` and no
  issuer, or in production without the opt-in, refuses to boot (`Boots`).
- Accounts opened under the mock have no login, and none can be linked later: after
  a switch to Clerk their owners are not recognised, and a new account needs another
  email and phone. `OnlyMockStrands` shows that every other account stays its owner's.
  It does not say that whoever has no account can open one: email and phone are
  whatever the form says (identity.service.ts:39-49), nothing ties them to the login,
  and under Clerk alone a shared phone or a mistyped email is a 409 for whoever is second.

## 4. What is proved

`IdentityProofs` proves, for any number of requests, logins, emails, phones and
ids, and for either provider:

- `TypeCorrect`, `OneAccountPerKey`, `RetryIsSafe`, `AnswersAreOwn`,
  `ConflictsAreReal`: `Spec => []P` for the types and the four invariants of
  `registration`;
- `RegistrationImplementsDirectory`: `Spec => ImplementsDirectory`.

The argument is one inductive invariant, `IInv`: the types, the directory's
consistency, and what each handler stage knows (`HandlersInv`). The last part is
what the properties need and do not say: a request past its lookup carries its own
login or none; a request whose login was known when it was sent either still
stands before the lookup, with the account still in the table, or has left
without going near the insert. Uniqueness survives an insert because the guard
of `CommitAccount` is the database's check against the rows of that very
moment, not against what the lookup saw; that is why the race does no harm to
the table. The refinement maps the table to the directory and each request's
answer to its outcome; every action is a decision or a stutter.

`TripProofs` proves, for any sequence of guarded calls, two safety
properties of bookings (`RoadIsInsured`, `ReclaimIsExact`), the types
(`BookingTypeCorrect`), that the terminal states are exactly those without a way out
(`TerminalIsExact`), that no state recurs (`NoReturn`), and that a booking implements
`TripPromise` (`TripRefinement`). The properties speak of the past (`visited`),
so the invariant is about the past: `Stage` numbers the fourteen states, every
edge of `BOOKING_TRANSITIONS` goes up (`EdgesGoUp`), and so everything behind a
booking has a lower stage; whoever is past the pickup has been through it, and
whoever has been in a secured state is bound. An edge added to the map breaks
`EdgesGoUp` or one of those two.

It also proves what `trip` checks of the money, and its types, for every gross
amount, duration, tier and number of attempts: `PayoutConserves`,
`PayoutFlagIsExact`, `StandingIsWorthIt`, `SettlementTypeCorrect`, that a fulfilled
`disburse` has paid both (`DisburseIsComplete`), and that settlement implements
`PayoutPromise` (`SettlementKeepsPromise`). The arithmetic rests on two lemmas on `AtRate`: a rate of
at most one takes at most the amount, and a higher rate takes no less; with the
tables (`Rates`, `RatesFollowStanding`) they bound and order the shares, whatever
the rounding does. The disbursement needs an invariant on the concurrent transfers:
money has moved only for a transfer that was requested, for the computed share
(`LedgerInv`), and an attempt leaves its idle state only after every earlier one was
rejected (`AttemptInv`). The refinement follows from it step by step: `preview` decides
or refuses, a `disburse` asks, moving money pays or repeats a payment, the last answer
confirms and the first rejection gives up; every other answer is a stutter, also one
that arrives after the call has given up. They are about exact arithmetic: see the header of
`Payout` for how far floating point agrees with it.

`OwnerSessionProofs` proves everything `owner_session` checks, and the types, for any
number of calls, accounts and vehicles, any listings and either provider:
`LiveVehiclesAreValued`, `ListingsStayConsistent`, `OwnersSeeTheirVehicles`,
`LoginsAreRecognised`, `AnswersAreLasting`, `OnlyOwnersActivate`. The question is what
survives an await. The invariant answers it stage by stage: a call past its guard has
claims that its token would still give (`ClaimsHold`: accounts are only ever added,
with keys of their own); a call about to update has a row that is still there, still
its caller's, and would pass `canActivate` again (`CheckHolds`: the only statement that
writes to a row sets its status, and changes neither owner, tier nor value); and what
the caller could see when it called, it still can (`BeforeHolds`). That is why the
missing transaction in `activate` does no harm, and each of the three would break with
a route that closes an account, hands over a vehicle or edits its value. For the same
reason the routes refine `VehicleRegister` (`CallsAreAtomic`): what a guard and a check
found is as true when the handler ends, so that a call's last statement is the instant at
which it is authenticated, authorised and decided, and everything before is a stutter.

`OwnerApiProofs` composes the two. Its invariant is the conjunction of theirs, and the
only new argument is that each part's steps are steps the other allows for: what a
registration does to `users` is the `OpenAccount` of the session's environment, and a
crash is one of both. So the composition implements the session
(`SessionIsImplemented`), the theorems of both parts carry over (`PartsCarryOver`), and the three properties that span them follow from their joint
invariant: `VehiclesLeadToPeople`, `CreatedForOneself`, `RegistrationLasts`.

`DeploymentProofs` proves `ServedAsOneself` and `ClerkStrandsNobodyElse` for any number of
people, any sequence of deploys and any emails and phones, typed in by anybody. The
invariant says whose things are: every account somebody opened is still there, linked to
their login or else opened under the mock, and every login in the table belongs to who
opened the account (`AccountsOwned`); a tab remembers only an account of its user
(`TabsOwn`); and whoever runs the mock, or opened an account under it, needed a boot that
allowed it (`RunningBooted`, `MockIsRemembered`).

`DriverRecordProofs` proves the three properties of `trust` for rates of any grain,
any metrics moving, and any numbers of trips and months. `ScoreIsItsBreakdown`: the
weights of the dimensions are 55, 45 and 20 of 120, so that their points are bounded by
458, 375 and 167 whichever way a half is rounded (`PointsBounds`), and these add up to
1000. That is luck of these weights, not of the method: bounds that round to 1001 would
let the clamp take a point. `WeakestDimensionDecides`: each threshold rises with the
tier (`ThresholdsRise`), so `resolveTrustTier` is the minimum of three ranks.
`GettingBetterNeverCosts`: a metric that improves adds to its own dimension's sum only
(`ImprovingCounts`), and rounding keeps order (`RoundingKeepsOrder`).

`DashboardProofs` proves the three properties of `dashboard` for any number of clicks,
accounts and vehicles: `TabShowsItsOwner`, `WaitingIsExact`, `RefreshKeepsWhatWasSeen`.
Its invariant (`Inductive`) follows a call from the click to the screen: the token it
carries is the session's or the owner shown when it was clicked (`TokenInv`); what it
was answered is true, of an account of the tab, for as long as it is on its way
(`AnswerInv`), because accounts and vehicles are only added; a list answered has what
was on the screen when it was asked for (`ShownInv`); and as long as nothing has
overlapped, one call at most is in flight and the screen has all that was created
(`SequentialInv`). It needs to know what a list holds (`ListingIsExact`): counting, for
each of an owner's places, the places that are newer numbers them without a gap
(`PlacesAreNumbered`).

`CalculationsProofs` proves the six properties of `money`, for numbers of any width:
`AmountsExact`, `SplitsConserveTotal`, `LittleSplitsConserve`, `SplitsFairly`,
`CarNoteCovers`, `CarNoteFailsWhenUnsafe`. That an answer is what the function called
returns (`Computed`) is the invariant; the work is in what it returns.

- *Induction.* The library's induction theorems cannot be used here, but that every
  non-empty set of natural numbers has a least member can (`WFMin`), and induction for a
  set (`SetInduction`) and the existence of recursive functions (`Recursion`) follow. From
  these come the laws of the powers of two and of the sums.
- *Rounding.* A result is rounded to a multiple of a power of two by half of it at most
  (`RoundsToNearest`), and a power of two that is that large divides every whole number
  around it (`StepDividesWholes`): so rounding never carries a number across a whole one
  that is safe (`NearestKeepsWholes`, `NearestKeepsTooLarge`). That makes sums exact or
  refused and keeps a rate within its amount. A quotient of whole numbers, if not whole,
  is too far from one to be rounded to it (`QuotientKeepsSide`): so the ceilings of the
  car note are the exact ones.
- *The split.* Over whole weights the floors of the dues are those of exact arithmetic
  (`DueIs`), so fewer units are left over than buckets were cut (`FewAreLeft`). The places
  number the buckets without a gap (`Places`), the first of them get what is left, and
  the parts make up the total (`PartsMakeUp`). For fairness the fractions must keep the
  order of the exact remainders (`KeepOrder`): their error is below half a remainder's
  step while twice the total times the sum is safe.
- *The split over fractions.* No product, sum or quotient need be exact. Each is off by
  its part of the whole at most (`RoundingCosts`), the sum of n weights by 2n such parts
  (`TotalIsNear`); so all floors together are at most the exact total and all of their
  errors (`DuesCost`, `SumsKeepBounds`). While (2n + 2) times the total is safe these are
  less than a unit too many (`NoMoreThanAll`) and leave n units at most (`NoMoreLeft`),
  and then `PartsMakeUp` holds as before.

The assumptions are those on constants (`NullAssumption`, `NoAnswerAssumption`,
`ProviderAssumption`, `BadTokenAssumption`, `TokensAssumption`, `AnswersAssumption`,
`OfferedRegionsAssumption`, `OfferedListingsAssumption`, `LoginsAssumption`,
`MaxIntAssumption`, `UndefinedAssumption`, `NumbersPassedAssumption`,
`GridAssumption` and those of the other arithmetic modules): markers are different from values (no answer yet is not an answer, a
dev token is not a JWT), and inputs are in the types the DTOs enforce. `OwnerApi`
restates those of its parts, which INSTANCE does not bring in. TLC evaluates each of them.

Only model-checked:

- liveness: `EveryRegistrationEnds`, `EveryRequestEnds`, and both properties of
  `Operations` (fairness and ENABLED are out of the prover's reach);
- the two disagreements above: each is a behaviour that a run finds, not a property.

## 5. What is not modelled, and the plan

Not modelled, with reasons, are the components so marked in `PROJECT.json`:

- region configuration, shared domain types: constants and declarations that no
  behaviour reads yet;
- the seed script: idempotent upserts, run once by hand, of rows no code reads yet;
- telematics and background-check adapters: constant answers behind forwarding calls;
- `QueueService`: nothing enqueues, so it never opens a queue; `TRUST_EVENT_EFFECTS`:
  nothing applies it; the tables no code writes;
- page layout, the landing page and Clerk's own middleware.

JWT signatures, DTO validation and SQL are their libraries'. Columns no behaviour
depends on are left out of rows.

Every safety property of every passing run is proved. What could be stated next is the
safety half of `Operations`: commands are answered in the order they were queued, and
whatever keeps a shutdown from ending is an earlier check's ping.
