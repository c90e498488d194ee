SPECIFICATION Spec
CONSTANTS Call = {c1, c2}
 None = None
 Unseen = Unseen
 Id <- MCId
 Rival = {s1, s2, h1, h2, b1, b2}
 Watched = {s1, s2, h1, h2, b1, b2, tour, k1, k2, k3, trip, claim, v1, v2}
 Plan = {p1}
 Subscription = {s1, s2}
 MaxPeriods = 2
 Tariff = {t1}
 Rule = {r1, r2}
 Rate <- MCRate
 Terms <- MCTerms
 Hour = {7, 8, 21, 22}
 Energy = {4, 5, 6}
 Benefit <- MCBenefit
 User = user
 Code = {o1}
 Token = {k1, k2, k3}
 Clock = clock
 MaxSecond = 2
 TokenOf <- MCTokenOf
 Rental = rental
 Hire = {h1, h2}
 Tour = tour
 Seats = {b1, b2}
 Pack = {pack}
 Swap = {w1, w2}
 Day = {1, 2}
 Capacity = {1, 2}
 HireEdit <- MCHireEdit
 SeatsEdit <- MCSeatsEdit
 Driver = driver
 Shift = {f1}
 Payout = {y1, y2}
 Rating = {g1}
 Route = route
 Stop = {q1, q2}
 Student = {z1, z2}
 Trip = {trip}
 Claim = claim
 Incident = {i1}
 Job = {j1}
 Station = station
 ChargePoint = {x1}
 Connector = {n1, n2}
 Template = {v1, v2}
 Queued = {q3, q4}
 Presence = presence
 Number = {1}
 MaxCount = 1
 Amount = {1, 2}
 MaxAttendance = 3
 Topics = {"subscriptions", "pricing", "accounts", "rentals", "tours", "swaps",
           "shifts", "payouts", "routes", "students", "trips", "reimbursements", "incidents", "jobs",
           "stations", "connectors", "templates", "queue"}
INVARIANTS TypeOK  DiscountsLowerThePrice TokenIsExchangedOnce    ResolvedHasItsTime OneDefaultTemplate
PROPERTIES SecondIsResumedOrCrowded AttendanceIsKept 
SYMMETRY Alike
