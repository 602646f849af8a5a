----------------------------- MODULE BooksProofs -----------------------------
(***************************************************************************)
(* The books agree, no money is lost, the backtest and the summary earn    *)
(* what the live books earn, and the cap holds on what the ledger counts:  *)
(* for any tickers, prices, commissions and limits, however averages round. *)
(***************************************************************************)
EXTENDS Books, Sums

-----------------------------------------------------------------------------
(***************************************************************************)
(* Amounts.                                                                *)
(***************************************************************************)

LEMMA AbsNat == ASSUME NEW n \in Int
                PROVE  /\ Abs(n) \in Nat
                       /\ n # 0 => Abs(n) > 0
    BY DEF Abs

LEMMA DivInt == ASSUME NEW n \in Int, NEW d \in Nat \ {0}
                PROVE  n \div d \in Int
    OBVIOUS

(* Products, which the provers handle best one at a time.                  *)
LEMMA TimesMonotonic ==
    ASSUME NEW a \in Nat, NEW m \in Int, NEW n \in Int, m <= n
    PROVE  /\ a * m \in Int /\ a * n \in Int
           /\ a * m <= a * n
    OBVIOUS

LEMMA DivBounds ==
    ASSUME NEW n \in Int, NEW d \in Nat \ {0}
    PROVE  d * (n \div d) <= n /\ n < d * (n \div d) + d
    OBVIOUS

LEMMA DivIs ==
    ASSUME NEW n \in Int, NEW d \in Nat \ {0}, NEW q \in Int,
           d * q <= n, n < d * q + d
    PROVE  n \div d = q
    <1> DEFINE r == n \div d
    <1>1. r \in Int /\ d * r <= n /\ n < d * r + d
        BY DivInt, DivBounds
    <1> HIDE DEF r
    <1>2. ASSUME NEW x \in Int, NEW y \in Int, x < y
          PROVE  d * x + d <= d * y
        <2>1. d * (x + 1) <= d * y
            BY <1>2, TimesMonotonic
        <2>2. d * (x + 1) = d * x + d
            OBVIOUS
        <2> QED
            BY <2>1, <2>2
    <1>3. ~(r < q)
        BY <1>1, <1>2
    <1>4. ~(q < r)
        BY <1>1, <1>2
    <1> QED
        BY <1>1, <1>3, <1>4 DEF r

LEMMA DivExact ==
    ASSUME NEW m \in Int, NEW d \in Nat \ {0}
    PROVE  (m * d) \div d = m
    <1>1. m * d \in Int /\ d * m <= m * d /\ m * d < d * m + d
        OBVIOUS
    <1> QED
        BY <1>1, DivIs

LEMMA ShareInt ==
    ASSUME NEW amount \in Int, NEW part \in Int, NEW whole \in Nat \ {0}
    PROVE  Share(amount, part, whole) \in Int
    <1>1. amount * part \in Int
        OBVIOUS
    <1> QED
        BY <1>1, DivInt DEF Share

LEMMA FreedInt ==
    ASSUME NEW amount \in Int, NEW closed \in Int, NEW whole \in Nat \ {0}
    PROVE  Freed(amount, closed, whole) \in Int
    BY ShareInt DEF Freed

LEMMA ShareAll ==
    ASSUME NEW amount \in Int, NEW whole \in Nat \ {0}
    PROVE  Share(amount, whole, whole) = amount
    BY DivExact DEF Share

LEMMA ShareNone ==
    ASSUME NEW amount \in Int, NEW whole \in Nat \ {0}
    PROVE  Share(amount, 0, whole) = 0
    <1>1. amount * 0 = 0 * whole
        OBVIOUS
    <1> QED
        BY <1>1, DivExact DEF Share

LEMMA FreedAll ==
    ASSUME NEW amount \in Int, NEW whole \in Nat \ {0}
    PROVE  Freed(amount, whole, whole) = amount
    <1>1. whole - whole = 0
        OBVIOUS
    <1> QED
        BY <1>1, ShareNone DEF Freed

LEMMA ShareWithin ==
    ASSUME NEW amount \in Int, NEW whole \in Nat \ {0}, NEW part \in 0 .. whole
    PROVE  /\ amount >= 0 => Share(amount, part, whole) >= 0 /\ Share(amount, part, whole) <= amount
           /\ amount <= 0 => Share(amount, part, whole) <= 0 /\ Share(amount, part, whole) >= amount
    <1> DEFINE s == Share(amount, part, whole)
               n == amount * part
    <1>1. s \in Int /\ n \in Int
        BY ShareInt
    <1>2. whole * s <= n /\ n < whole * s + whole
        BY <1>1, DivBounds DEF Share
    <1>3. CASE amount >= 0
        <2>1. n >= 0 /\ n <= whole * amount
            <3>1. amount * 0 <= amount * part /\ amount * part <= amount * whole
                BY <1>3, TimesMonotonic
            <3> QED
                BY <3>1
        <2> HIDE DEF s, n
        <2>2. ~(s <= -1)
            <3>1. SUFFICES ASSUME s <= -1 PROVE FALSE
                OBVIOUS
            <3>2. whole * s <= whole * (-1)
                BY <1>1, <3>1, TimesMonotonic
            <3> QED
                BY <1>1, <1>2, <2>1, <3>2
        <2>3. ~(amount + 1 <= s)
            <3>1. SUFFICES ASSUME amount + 1 <= s PROVE FALSE
                OBVIOUS
            <3>2. whole * (amount + 1) <= whole * s
                BY <1>1, <3>1, TimesMonotonic
            <3> QED
                BY <1>1, <1>2, <2>1, <3>2
        <2>4. s >= 0 /\ s <= amount
            BY <1>1, <2>2, <2>3
        <2>5. amount = 0 => s = 0
            BY <1>1, <2>4
        <2> QED
            BY <1>1, <1>3, <2>4, <2>5 DEF s
    <1>4. CASE amount < 0
        <2>1. n <= 0 /\ n >= whole * amount
            <3>1. (-amount) * 0 <= (-amount) * part /\ (-amount) * part <= (-amount) * whole
                BY <1>4, TimesMonotonic
            <3> QED
                BY <3>1
        <2> HIDE DEF s, n
        <2>2. ~(1 <= s)
            <3>1. SUFFICES ASSUME 1 <= s PROVE FALSE
                OBVIOUS
            <3>2. whole * 1 <= whole * s
                BY <1>1, <3>1, TimesMonotonic
            <3> QED
                BY <1>1, <1>2, <2>1, <3>2
        <2>3. ~(s <= amount - 1)
            <3>1. SUFFICES ASSUME s <= amount - 1 PROVE FALSE
                OBVIOUS
            <3>2. whole * s <= whole * (amount - 1)
                BY <1>1, <3>1, TimesMonotonic
            <3> QED
                BY <1>1, <1>2, <2>1, <3>2
        <2>4. s <= 0 /\ s >= amount
            BY <1>1, <2>2, <2>3
        <2> QED
            BY <1>1, <1>4, <2>4 DEF s
    <1> QED
        BY <1>3, <1>4

LEMMA CommissionInt ==
    ASSUME NEW lots \in Int, NEW price \in Int
    PROVE  Commission(lots, price) \in Int
    <1>1. Abs(lots) * price \in Int
        BY AbsNat
    <1>2. RateDivisor \in Nat \ {0}
        BY TradeAssumption
    <1> QED
        BY <1>1, <1>2, DivInt DEF Commission

LEMMA PaidInt ==
    ASSUME NEW lots \in Int, NEW price \in Int
    PROVE  Paid(lots, price) \in Int
    BY CommissionInt DEF Paid

(* A price whose commission is a whole amount.                             *)
Payable(price) == \E unit \in Nat : price = unit * RateDivisor

LEMMA FillPriceNat ==
    ASSUME NEW lots \in Int, NEW quote \in Price
    PROVE  /\ FillPrice(lots, quote) \in Nat
           /\ quote \div SpreadDivisor \in Nat
    <1>1. quote \in Nat \ {0} /\ SpreadDivisor \in Nat \ {0}
        BY TradeAssumption
    <1>2. Share(quote, 1, SpreadDivisor) \in Int
        BY <1>1, ShareInt
    <1>3. 1 \in 0 .. SpreadDivisor /\ quote * 1 = quote
        BY <1>1
    <1>4. Share(quote, 1, SpreadDivisor) >= 0 /\ Share(quote, 1, SpreadDivisor) <= quote
        BY <1>1, <1>3, ShareWithin
    <1>5. quote \div SpreadDivisor \in Nat /\ quote \div SpreadDivisor <= quote
        BY <1>2, <1>3, <1>4 DEF Share
    <1> QED
        BY <1>1, <1>5 DEF FillPrice

LEMMA FillPayable ==
    ASSUME NEW lots \in Int, NEW quote \in Price
    PROVE  FillPrice(lots, quote) \in Nat /\ Payable(FillPrice(lots, quote))
    <1> DEFINE price == FillPrice(lots, quote)
               side  == IF lots < 0 THEN -1 ELSE 1
    <1>1. RateDivisor \in Nat \ {0}
        BY TradeAssumption
    <1>2. price = FillPrice(side, quote)
        BY DEF FillPrice
    <1>3. price % RateDivisor = 0
        BY <1>2, UnitAssumption
    <1>4. price \in Nat
        BY FillPriceNat
    <1> HIDE DEF price
    <1>5. price \div RateDivisor \in Int
        BY <1>1, <1>4, DivInt
    <1>6. price = (price \div RateDivisor) * RateDivisor
        BY <1>1, <1>3, <1>4
    <1>7. price \div RateDivisor >= 0
        BY <1>1, <1>4
    <1> QED
        BY <1>4, <1>5, <1>6, <1>7 DEF Payable, price

LEMMA PaidIs ==
    ASSUME NEW price, NEW unit \in Nat, price = unit * RateDivisor, NEW lots \in Int
    PROVE  /\ price \in Nat
           /\ Commission(lots, price) = Abs(lots) * unit
           /\ lots >= 0 => Paid(lots, price) = lots * (price + unit)
           /\ lots <= 0 => Paid(lots, price) = lots * (price - unit)
    <1>1. RateDivisor \in Nat \ {0}
        BY TradeAssumption
    <1>2. price \in Nat
        BY <1>1
    <1>3. Commission(lots, price) = Abs(lots) * unit
        <2>1. Abs(lots) \in Nat
            BY AbsNat
        <2>2. Abs(lots) * price = (Abs(lots) * unit) * RateDivisor /\ Abs(lots) * unit \in Int
            BY <1>1, <2>1
        <2> QED
            BY <1>1, <2>2, DivExact DEF Commission
    <1>4. lots >= 0 => Paid(lots, price) = lots * (price + unit)
        BY <1>2, <1>3 DEF Paid, Abs
    <1>5. lots <= 0 => Paid(lots, price) = lots * (price - unit)
        <2>1. SUFFICES ASSUME lots <= 0 PROVE Paid(lots, price) = lots * (price - unit)
            OBVIOUS
        <2>2. Abs(lots) = -lots
            BY <2>1 DEF Abs
        <2> QED
            BY <1>2, <1>3, <2>2 DEF Paid
    <1> QED
        BY <1>2, <1>3, <1>4, <1>5

(* What a fill pays divides as its lots do.                                *)
LEMMA PaidSplits ==
    ASSUME NEW price, Payable(price), NEW lots \in Int, lots # 0, NEW part \in Int,
           \/ 0 <= part /\ part <= lots
           \/ lots <= part /\ part <= 0
    PROVE  /\ Paid(lots, price) = Paid(part, price) + Paid(lots - part, price)
           /\ Share(Paid(lots, price), Abs(part), Abs(lots)) = Paid(part, price)
           /\ Commission(lots, price) = Commission(part, price) + Commission(lots - part, price)
    <1>1. PICK unit \in Nat : price = unit * RateDivisor
        BY DEF Payable
    <1>2. price \in Int /\ lots - part \in Int
        BY <1>1, PaidIs
    <1>3. Abs(lots) \in Nat \ {0} /\ Abs(part) \in Nat
        BY AbsNat
    <1>4. Abs(lots) = Abs(part) + Abs(lots - part)
        BY DEF Abs
    <1>5. \A n \in Int : Commission(n, price) = Abs(n) * unit
        BY <1>1, PaidIs
    <1>6. Commission(lots, price) = Commission(part, price) + Commission(lots - part, price)
        <2>1. Abs(lots - part) \in Nat
            BY <1>2, AbsNat
        <2> QED
            BY <1>2, <1>3, <1>4, <1>5, <2>1
    <1>7. CASE 0 <= part /\ part <= lots
        <2> DEFINE cost == price + unit
        <2>1. /\ Paid(lots, price) = lots * cost /\ Paid(part, price) = part * cost
              /\ Paid(lots - part, price) = (lots - part) * cost
            BY <1>1, <1>2, <1>7, PaidIs
        <2>2. cost \in Int /\ part * cost \in Int
            BY <1>2
        <2>3. Abs(part) = part /\ Abs(lots) = lots
            BY <1>7 DEF Abs
        <2>4. (lots * cost) * part = (part * cost) * lots
            BY <2>2
        <2>5. lots * cost = part * cost + (lots - part) * cost
            BY <2>2
        <2> HIDE DEF cost
        <2>6. Share(lots * cost, part, lots) = part * cost
            BY <1>3, <2>2, <2>3, <2>4, DivExact DEF Share
        <2> QED
            BY <1>6, <2>1, <2>3, <2>5, <2>6
    <1>8. CASE lots <= part /\ part <= 0
        <2> DEFINE cost == price - unit
        <2>1. /\ Paid(lots, price) = lots * cost /\ Paid(part, price) = part * cost
              /\ Paid(lots - part, price) = (lots - part) * cost
            BY <1>1, <1>2, <1>8, PaidIs
        <2>2. cost \in Int /\ part * cost \in Int
            BY <1>2
        <2>3. Abs(part) = -part /\ Abs(lots) = -lots /\ -lots \in Nat \ {0}
            BY <1>8 DEF Abs
        <2>4. (lots * cost) * (-part) = (part * cost) * (-lots)
            BY <2>2
        <2>5. lots * cost = part * cost + (lots - part) * cost
            BY <2>2
        <2> HIDE DEF cost
        <2>6. Share(lots * cost, -part, -lots) = part * cost
            BY <2>2, <2>3, <2>4, DivExact DEF Share
        <2> QED
            BY <1>6, <2>1, <2>3, <2>5, <2>6
    <1> QED
        BY <1>7, <1>8

LEMMA FillPriceInt ==
    ASSUME NEW lots \in Int, NEW quote \in Price
    PROVE  FillPrice(lots, quote) \in Int
    <1>1. quote \in Int /\ SpreadDivisor \in Nat \ {0}
        BY TradeAssumption
    <1>2. quote \div SpreadDivisor \in Int
        BY <1>1, DivInt
    <1> QED
        BY <1>1, <1>2 DEF FillPrice

-----------------------------------------------------------------------------
(***************************************************************************)
(* The breaker's and the summary's accounting of a fill.                   *)
(***************************************************************************)

Opposed(m, n) == m # 0 /\ ~SameSide(m, n)

(* A fill adds to a position ...                                           *)
LEMMA RecordAdds ==
    ASSUME NEW s \in TickerState, NEW lots \in Int, NEW price \in Int, ~Opposed(s.lots, lots)
    PROVE  Record(s, lots, price) =
              [lots |-> s.lots + lots, basis |-> s.basis + Paid(lots, price),
               realized |-> s.realized, losses |-> s.losses, tripped |-> s.tripped]
    <1> DEFINE paid == Paid(lots, price)
    <1>1. Record(s, lots, price) = [s EXCEPT !.lots = @ + lots, !.basis = @ + paid]
        BY DEF Record, Add, Opposed
    <1> HIDE DEF paid
    <1>2. Record(s, lots, price) =
             [lots |-> s.lots + lots, basis |-> s.basis + paid, realized |-> s.realized,
              losses |-> s.losses, tripped |-> s.tripped]
        BY <1>1 DEF TickerState
    <1> QED
        BY <1>2 DEF paid

(* ... or closes lots of it: at their cost, and for their part of the fill. *)
Closing(s, lots) == Least(Abs(s.lots), Abs(lots))
Cost(s, lots) == Freed(s.basis, Closing(s, lots), Abs(s.lots))
Back(s, lots, price) == Share(Paid(lots, price), Closing(s, lots), Abs(lots))

LEMMA RecordCloses ==
    ASSUME NEW s \in TickerState, NEW lots \in Int, lots # 0, NEW price \in Int,
           Opposed(s.lots, lots)
    PROVE  LET pnl    == -(Cost(s, lots) + Back(s, lots, price))
               losses == LossesAfter(s.losses, pnl)
           IN /\ Cost(s, lots) \in Int /\ Back(s, lots, price) \in Int
              /\ losses \in Nat
              /\ Record(s, lots, price) =
                    [lots |-> s.lots + lots,
                     basis |-> s.basis - Cost(s, lots) + Paid(lots, price) - Back(s, lots, price),
                     realized |-> s.realized + pnl, losses |-> losses,
                     tripped |-> s.tripped \/ Trips(losses, s.realized + pnl)]
    <1>1. s.lots \in Int /\ s.lots # 0 /\ s.basis \in Int /\ s.losses \in Nat
        BY DEF TickerState, Opposed
    <1>2. Abs(s.lots) \in Nat \ {0} /\ Abs(lots) \in Nat \ {0}
        BY <1>1, AbsNat
    <1>3. Closing(s, lots) \in Int /\ Paid(lots, price) \in Int
        BY <1>2, PaidInt DEF Least, Closing
    <1>4. Cost(s, lots) \in Int
        BY <1>1, <1>2, <1>3, FreedInt DEF Cost
    <1>5. Back(s, lots, price) \in Int
        BY <1>2, <1>3, ShareInt DEF Back
    <1>6. Record(s, lots, price) = Reduce(s, lots, price)
        BY DEF Record, Opposed
    <1> QED
        BY <1>1, <1>4, <1>5, <1>6 DEF Reduce, LossesAfter, Closing, Cost, Back

LEMMA RecordMoves ==
    ASSUME NEW s \in TickerState, NEW lots \in Int, lots # 0, NEW price \in Int
    PROVE  /\ Record(s, lots, price) \in TickerState
           /\ Record(s, lots, price).lots = s.lots + lots
           /\ Record(s, lots, price).basis - Record(s, lots, price).realized
                = s.basis - s.realized + Paid(lots, price)
    <1>1. Paid(lots, price) \in Int
        BY PaidInt
    <1>2. s.lots \in Int /\ s.basis \in Int /\ s.realized \in Int /\ s.losses \in Nat
          /\ s.tripped \in BOOLEAN
        BY DEF TickerState
    <1>3. CASE ~Opposed(s.lots, lots)
        BY <1>1, <1>2, <1>3, RecordAdds DEF TickerState
    <1>4. CASE Opposed(s.lots, lots)
        <2> DEFINE cost   == Cost(s, lots)
                   back   == Back(s, lots, price)
                   losses == LossesAfter(s.losses, -(cost + back))
                   trip   == s.tripped \/ Trips(losses, s.realized + -(cost + back))
        <2>1. /\ cost \in Int /\ back \in Int /\ losses \in Nat
              /\ Record(s, lots, price) =
                    [lots |-> s.lots + lots,
                     basis |-> s.basis - cost + Paid(lots, price) - back,
                     realized |-> s.realized + -(cost + back), losses |-> losses,
                     tripped |-> trip]
            BY <1>4, RecordCloses
        <2>2. trip \in BOOLEAN
            OBVIOUS
        <2> HIDE DEF cost, back, losses, trip
        <2> QED
            BY <1>1, <1>2, <2>1, <2>2 DEF TickerState
    <1> QED
        BY <1>3, <1>4

(* What is left tied up: a part of the basis when lots are closed, and in  *)
(* a reversal what the lots on the other side cost.                        *)
LEMMA RecordTied ==
    ASSUME NEW s \in TickerState, NEW lots \in Int, lots # 0, NEW price \in Int,
           Opposed(s.lots, lots)
    PROVE  /\ Abs(lots) <= Abs(s.lots) =>
                 /\ Record(s, lots, price).basis
                      = Share(s.basis, Abs(s.lots) - Abs(lots), Abs(s.lots))
                 /\ Record(s, lots, price).realized
                      = s.realized - (Freed(s.basis, Abs(lots), Abs(s.lots)) + Paid(lots, price))
           /\ Abs(lots) >= Abs(s.lots) =>
                 /\ Record(s, lots, price).basis
                      = Paid(lots, price) - Share(Paid(lots, price), Abs(s.lots), Abs(lots))
                 /\ Record(s, lots, price).realized
                      = s.realized - (s.basis + Share(Paid(lots, price), Abs(s.lots), Abs(lots)))
    <1> DEFINE closed == Closing(s, lots)
               cost   == Cost(s, lots)
               back   == Back(s, lots, price)
    <1>1. closed = Least(Abs(s.lots), Abs(lots))
        BY DEF Closing
    <1>2. /\ cost \in Int /\ back \in Int
          /\ Record(s, lots, price).basis = s.basis - cost + Paid(lots, price) - back
          /\ Record(s, lots, price).realized = s.realized - (cost + back)
        <2>1. /\ cost \in Int /\ back \in Int /\ s.realized \in Int
              /\ Record(s, lots, price).basis = s.basis - cost + Paid(lots, price) - back
              /\ Record(s, lots, price).realized = s.realized + -(cost + back)
            BY RecordCloses DEF TickerState
        <2> HIDE DEF cost, back
        <2> QED
            BY <2>1
    <1>3. Paid(lots, price) \in Int
        BY PaidInt
    <1>4. s.lots \in Int /\ s.lots # 0 /\ s.basis \in Int
        BY DEF TickerState, Opposed
    <1>5. Abs(s.lots) \in Nat \ {0} /\ Abs(lots) \in Nat \ {0}
        BY <1>4, AbsNat
    <1>6. CASE Abs(lots) <= Abs(s.lots)
        <2>1. closed = Abs(lots)
            BY <1>1, <1>5, <1>6 DEF Least
        <2>2. back = Paid(lots, price)
            BY <1>3, <1>5, <2>1, ShareAll DEF Back
        <2> DEFINE kept == Share(s.basis, Abs(s.lots) - Abs(lots), Abs(s.lots))
        <2>3. cost = s.basis - kept /\ kept \in Int
            <3>1. Abs(s.lots) - Abs(lots) \in Int
                BY <1>5
            <3>2. kept \in Int
                BY <1>4, <1>5, <3>1, ShareInt
            <3>3. cost = s.basis - kept
                BY <2>1 DEF Freed, Cost
            <3> QED
                BY <3>2, <3>3
        <2>4. cost = Freed(s.basis, Abs(lots), Abs(s.lots))
            BY <2>1 DEF Cost
        <2>5. Record(s, lots, price).basis = kept
            <3> HIDE DEF cost, back, kept
            <3> QED
                BY <1>2, <1>3, <1>4, <2>2, <2>3
        <2>6. Abs(lots) >= Abs(s.lots) => Abs(lots) = Abs(s.lots)
            BY <1>5, <1>6
        <2>7. Abs(lots) = Abs(s.lots) =>
                 /\ kept = 0
                 /\ Freed(s.basis, Abs(lots), Abs(s.lots)) = s.basis
                 /\ Share(Paid(lots, price), Abs(s.lots), Abs(lots)) = Paid(lots, price)
            BY <1>3, <1>4, <1>5, ShareNone, ShareAll, FreedAll
        <2>8. Record(s, lots, price).realized
                = s.realized - (Freed(s.basis, Abs(lots), Abs(s.lots)) + Paid(lots, price))
            BY <1>2, <2>2, <2>4
        <2> HIDE DEF cost, back
        <2> QED
            BY <1>3, <2>5, <2>6, <2>7, <2>8
    <1>7. CASE ~(Abs(lots) <= Abs(s.lots))
        <2>1. closed = Abs(s.lots)
            BY <1>1, <1>5, <1>7 DEF Least
        <2>2. cost = s.basis
            BY <1>4, <1>5, <2>1, FreedAll DEF Cost
        <2>3. back = Share(Paid(lots, price), Abs(s.lots), Abs(lots))
            BY <2>1 DEF Back
        <2> HIDE DEF cost, back
        <2> QED
            BY <1>2, <1>3, <1>4, <1>7, <2>2, <2>3
    <1> QED
        BY <1>6, <1>7

LEMMA SummaryRecordType ==
    ASSUME NEW s \in Position, NEW lots \in Int, lots # 0, NEW price \in Int
    PROVE  SummaryRecord(s, lots, price) \in Position
    <1>1. Paid(lots, price) \in Int
        BY PaidInt
    <1>2. CASE s.lots = 0 \/ SameSide(s.lots, lots)
        <2> DEFINE paid == Paid(lots, price)
        <2>1. SummaryRecord(s, lots, price) =
                 [s EXCEPT !.lots = @ + lots, !.basis = @ + paid]
            BY <1>2 DEF SummaryRecord, Add
        <2> HIDE DEF paid
        <2>2. SummaryRecord(s, lots, price) =
                 [lots |-> s.lots + lots, basis |-> s.basis + paid, realized |-> s.realized]
            BY <2>1 DEF Position
        <2> QED
            BY <1>1, <2>2 DEF Position, paid
    <1>3. CASE ~(s.lots = 0 \/ SameSide(s.lots, lots))
        <2> DEFINE closed == Least(Abs(s.lots), Abs(lots))
                   rest   == Abs(lots) - closed
                   cost   == Freed(s.basis, closed, Abs(s.lots))
                   back   == Share(Paid(lots, price), closed, Abs(lots))
                   kept   == s.lots - closed
                   left   == Share(s.basis, Abs(kept), Abs(s.lots))
        <2>1. s.lots \in Int /\ s.lots # 0 /\ s.basis \in Int /\ s.realized \in Int
            BY <1>3 DEF Position
        <2>2. Abs(s.lots) \in Nat \ {0} /\ Abs(lots) \in Nat \ {0}
            BY <2>1, AbsNat
        <2>3. closed \in Int /\ rest \in Int /\ kept \in Int
            BY <2>1, <2>2 DEF Least
        <2>4. cost \in Int /\ back \in Int
            BY <1>1, <2>1, <2>2, <2>3, ShareInt, FreedInt
        <2>5. Abs(kept) \in Int
            BY <2>3, AbsNat
        <2>6. left \in Int
            BY <2>1, <2>2, <2>5, ShareInt
        <2>7. SummaryRecord(s, lots, price) =
                 [lots |-> IF rest = 0 THEN kept ELSE IF lots < 0 THEN -rest ELSE rest,
                  basis |-> IF rest = 0 THEN left ELSE Paid(lots, price) - back,
                  realized |-> s.realized - (cost + back)]
            BY <1>3, Zenon DEF SummaryRecord, SummaryReduce
        <2> HIDE DEF cost, back, kept, rest, left, closed
        <2> QED
            BY <1>1, <2>1, <2>3, <2>4, <2>6, <2>7 DEF Position
    <1> QED
        BY <1>2, <1>3

Alike(p, s) == p.lots = s.lots /\ p.basis = s.basis /\ p.realized = s.realized

(* The summary's accounting of a fill is the breaker's, unless a buy       *)
(* reduces a short.                                                        *)
LEMMA SummaryFollows ==
    ASSUME NEW p \in Position, NEW s \in TickerState, Alike(p, s),
           NEW lots \in Int, lots # 0, NEW price \in Int,
           ~(s.lots < 0 /\ lots > 0 /\ s.lots + lots <= 0)
    PROVE  Alike(SummaryRecord(p, lots, price), Record(s, lots, price))
    <1>1. p.lots = s.lots /\ p.basis = s.basis /\ p.realized = s.realized
        BY DEF Alike
    <1>2. s.lots \in Int /\ s.basis \in Int /\ s.realized \in Int
        BY DEF TickerState
    <1>3. Paid(lots, price) \in Int
        BY PaidInt
    <1>4. CASE ~Opposed(s.lots, lots)
        <2> DEFINE paid == Paid(lots, price)
        <2>1. SummaryRecord(p, lots, price) = [p EXCEPT !.lots = @ + lots, !.basis = @ + paid]
            BY <1>1, <1>4 DEF SummaryRecord, Add, Opposed
        <2> HIDE DEF paid
        <2>2. SummaryRecord(p, lots, price) =
                 [lots |-> p.lots + lots, basis |-> p.basis + paid, realized |-> p.realized]
            BY <2>1 DEF Position
        <2> QED
            BY <1>1, <1>4, <2>2, RecordAdds DEF Alike, paid
    <1>5. CASE Opposed(s.lots, lots)
        <2> DEFINE closed == Closing(s, lots)
                   cost   == Cost(s, lots)
                   back   == Back(s, lots, price)
                   rest   == Abs(lots) - closed
                   kept   == s.lots - closed
        <2>1. s.lots # 0 /\ Abs(s.lots) \in Nat \ {0} /\ Abs(lots) \in Nat \ {0}
            BY <1>2, <1>5, AbsNat DEF Opposed
        <2>2. SummaryRecord(p, lots, price) =
                 [lots |-> IF rest = 0 THEN kept ELSE IF lots < 0 THEN -rest ELSE rest,
                  basis |-> IF rest = 0 THEN Share(s.basis, Abs(kept), Abs(s.lots))
                                        ELSE Paid(lots, price) - back,
                  realized |-> s.realized - (cost + back)]
            BY <1>1, <1>5 DEF SummaryRecord, SummaryReduce, Opposed, Closing, Cost, Back
        <2>3. /\ cost \in Int /\ back \in Int
              /\ Record(s, lots, price).lots = s.lots + lots
              /\ Record(s, lots, price).realized = s.realized + -(cost + back)
            BY <1>5, RecordCloses
        <2>4. CASE Abs(lots) <= Abs(s.lots)
            <3>1. closed = Abs(lots) /\ rest = 0
                BY <2>1, <2>4 DEF Closing, Least
            <3>2. s.lots > 0 /\ lots < 0
                BY <1>2, <1>5, <2>1, <2>4 DEF Opposed, SameSide, Abs
            <3>3. kept = s.lots + lots /\ Abs(kept) = Abs(s.lots) - Abs(lots)
                BY <1>2, <2>4, <3>1, <3>2 DEF Abs
            <3>4. Record(s, lots, price).basis
                    = Share(s.basis, Abs(s.lots) - Abs(lots), Abs(s.lots))
                BY <1>5, <2>4, RecordTied
            <3> HIDE DEF cost, back, closed, rest, kept
            <3>5. s.realized - (cost + back) = s.realized + -(cost + back)
                BY <1>2, <2>3
            <3> QED
                BY <2>2, <2>3, <3>1, <3>3, <3>4, <3>5 DEF Alike
        <2>5. CASE ~(Abs(lots) <= Abs(s.lots))
            <3>1. closed = Abs(s.lots) /\ rest # 0
                BY <2>1, <2>5 DEF Closing, Least
            <3>2. (IF lots < 0 THEN -rest ELSE rest) = s.lots + lots
                BY <1>2, <1>5, <2>1, <2>5, <3>1 DEF Opposed, SameSide, Abs
            <3>3. back = Share(Paid(lots, price), Abs(s.lots), Abs(lots))
                BY <3>1 DEF Back
            <3>4. Record(s, lots, price).basis = Paid(lots, price) - back
                BY <1>5, <2>1, <2>5, <3>3, RecordTied
            <3> HIDE DEF cost, back, closed, rest, kept
            <3>5. s.realized - (cost + back) = s.realized + -(cost + back)
                BY <1>2, <2>3
            <3> QED
                BY <2>2, <2>3, <3>1, <3>2, <3>4, <3>5 DEF Alike
        <2> QED
            BY <2>4, <2>5
    <1> QED
        BY <1>4, <1>5

(* A reversal in two fills is the reversal in one, when commissions are    *)
(* whole amounts.                                                          *)
LEMMA TwoFillsAreOne ==
    ASSUME NEW s \in TickerState, NEW lots \in Int, NEW price, Payable(price), s.lots # 0,
           s.lots + lots # 0, ~SameSide(s.lots, s.lots + lots)
    PROVE  Record(Record(s, -s.lots, price), s.lots + lots, price) = Record(s, lots, price)
    <1> DEFINE held == s.lots
               exit == -held
               left == s.lots + lots
               flat == Record(s, exit, price)
               back == Paid(exit, price)
               pnl  == -(s.basis + back)
               losses == LossesAfter(s.losses, pnl)
               trip == s.tripped \/ Trips(losses, s.realized + pnl)
    <1>1. price \in Int
        BY PaidIs DEF Payable
    <1>2. held \in Int /\ left \in Int /\ s.basis \in Int /\ s.realized \in Int /\ s.losses \in Nat
          /\ s.tripped \in BOOLEAN
        BY DEF TickerState
    <1>3. /\ lots # 0 /\ Opposed(held, lots) /\ Opposed(held, exit) /\ exit # 0 /\ exit \in Int
          /\ Abs(exit) = Abs(held) /\ Abs(held) < Abs(lots)
          /\ \/ 0 <= exit /\ exit <= lots
             \/ lots <= exit /\ exit <= 0
        BY <1>2 DEF Opposed, SameSide, Abs
    <1>4. Abs(held) \in Nat \ {0} /\ Abs(lots) \in Nat \ {0}
        BY <1>2, <1>3, AbsNat
    <1>5. lots - exit = left /\ held + exit = 0
        BY <1>2
    <1>6. back \in Int /\ Paid(left, price) \in Int
        BY <1>1, <1>2, <1>3, PaidInt
    <1>7. /\ Paid(lots, price) = back + Paid(left, price)
          /\ Share(Paid(lots, price), Abs(held), Abs(lots)) = back
        BY <1>3, <1>5, PaidSplits
    <1>8. /\ Cost(s, lots) = s.basis /\ Cost(s, exit) = s.basis
          /\ Back(s, lots, price) = back /\ Back(s, exit, price) = back
        <2>1. Closing(s, lots) = Abs(held) /\ Closing(s, exit) = Abs(held)
            BY <1>3, <1>4 DEF Closing, Least
        <2>2. Freed(s.basis, Abs(held), Abs(held)) = s.basis
            BY <1>2, <1>4, FreedAll
        <2>3. Share(Paid(exit, price), Abs(held), Abs(held)) = back
            BY <1>4, <1>6, ShareAll
        <2> QED
            BY <1>3, <1>7, <2>1, <2>2, <2>3 DEF Cost, Back
    <1>9. Record(s, lots, price) =
             [lots |-> left, basis |-> s.basis - s.basis + Paid(lots, price) - back,
              realized |-> s.realized + pnl, losses |-> losses, tripped |-> trip]
        BY <1>1, <1>3, <1>8, RecordCloses
    <1> HIDE DEF exit
    <1>10. flat = [lots |-> held + exit, basis |-> s.basis - s.basis + back - back,
                   realized |-> s.realized + pnl, losses |-> losses, tripped |-> trip]
        <2> DEFINE c == Cost(s, exit)
                   b == Back(s, exit, price)
                   l == LossesAfter(s.losses, -(c + b))
        <2>1. flat = [lots |-> held + exit, basis |-> s.basis - c + back - b,
                      realized |-> s.realized + -(c + b), losses |-> l,
                      tripped |-> s.tripped \/ Trips(l, s.realized + -(c + b))]
            BY <1>1, <1>3, RecordCloses
        <2>2. c = s.basis /\ b = back
            BY <1>8
        <2> HIDE DEF c, b, back
        <2> QED
            BY <2>1, <2>2
    <1>11. trip \in BOOLEAN /\ pnl \in Int
        BY <1>2, <1>6
    <1>12. losses \in Nat
        BY <1>2, <1>11 DEF LossesAfter
    <1>13. flat = [lots |-> 0, basis |-> 0, realized |-> s.realized + pnl, losses |-> losses,
                   tripped |-> trip]
        <2> HIDE DEF flat, pnl, losses, trip, back
        <2> QED
            BY <1>2, <1>5, <1>6, <1>10
    <1>14. flat \in TickerState
        <2> HIDE DEF flat, pnl, losses, trip, back
        <2> QED
            BY <1>2, <1>11, <1>12, <1>13 DEF TickerState
    <1>15. ~Opposed(flat.lots, left)
        BY <1>13 DEF Opposed
    <1>16. Record(flat, left, price) =
              [lots |-> 0 + left, basis |-> 0 + Paid(left, price),
               realized |-> s.realized + pnl, losses |-> losses, tripped |-> trip]
        <2> HIDE DEF flat, pnl, losses, trip, back
        <2>1. Record(flat, left, price) =
                [lots |-> flat.lots + left, basis |-> flat.basis + Paid(left, price),
                 realized |-> flat.realized, losses |-> flat.losses, tripped |-> flat.tripped]
            BY <1>1, <1>2, <1>14, <1>15, RecordAdds
        <2> QED
            BY <1>13, <2>1
    <1>17. 0 + Paid(left, price) = s.basis - s.basis + Paid(lots, price) - back
        <2> HIDE DEF back
        <2> QED
            BY <1>2, <1>6, <1>7
    <1> HIDE DEF flat, pnl, losses, trip, back
    <1>18. 0 + left = left
        BY <1>2
    <1> QED
        BY <1>9, <1>16, <1>17, <1>18 DEF flat, exit

LEMMA FeedBreakerIsRecord ==
    ASSUME NEW s \in TickerState, NEW lots \in Int, NEW price, Payable(price)
    PROVE  FeedBreaker(s, s.lots, s.lots + lots, price) = Record(s, lots, price)
    <1>1. s.lots \in Int
        BY DEF TickerState
    <1>2. (s.lots + lots) - s.lots = lots
        BY <1>1
    <1> QED
        BY <1>2, TwoFillsAreOne DEF FeedBreaker

-----------------------------------------------------------------------------
(***************************************************************************)
(* The backtest's.                                                         *)
(***************************************************************************)

LEMMA FeedBreakerMoves ==
    ASSUME NEW b \in TickerState, NEW held \in Int, NEW desired \in Int,
           desired # held, NEW price \in Int, b.lots = held
    PROVE  /\ FeedBreaker(b, held, desired, price) \in TickerState
           /\ FeedBreaker(b, held, desired, price).lots = desired
    <1>1. CASE held # 0 /\ desired # 0 /\ ~SameSide(held, desired)
        <2> DEFINE flat == Record(b, -held, price)
        <2>1. -held \in Int /\ -held # 0
            BY <1>1
        <2>2. flat \in TickerState /\ flat.lots = held + (-held)
            BY <2>1, RecordMoves
        <2> HIDE DEF flat
        <2>3. Record(flat, desired, price) \in TickerState
              /\ Record(flat, desired, price).lots = flat.lots + desired
            BY <1>1, <2>2, RecordMoves
        <2> QED
            BY <1>1, <2>2, <2>3 DEF FeedBreaker, flat
    <1>2. CASE ~(held # 0 /\ desired # 0 /\ ~SameSide(held, desired))
        <2>1. desired - held \in Int /\ desired - held # 0
            OBVIOUS
        <2>2. Record(b, desired - held, price) \in TickerState
              /\ Record(b, desired - held, price).lots = held + (desired - held)
            BY <2>1, RecordMoves
        <2> QED
            BY <1>2, <2>2 DEF FeedBreaker
    <1> QED
        BY <1>1, <1>2

LEMMA ClosedMoves ==
    ASSUME NEW e \in EnginePosition, e.lots # 0, NEW closed \in Nat, NEW price \in Int
    PROVE  /\ Closed(e, closed, price) \in EnginePosition
           /\ Closed(e, closed, price).lots = IF e.lots > 0 THEN e.lots - closed
                                                             ELSE e.lots + closed
           /\ Closed(e, closed, price).basis = Share(e.basis, Abs(e.lots) - closed, Abs(e.lots))
           /\ Closed(e, closed, price).comm = Share(e.comm, Abs(e.lots) - closed, Abs(e.lots))
           /\ Closed(e, closed, price).basis + Closed(e, closed, price).comm
                - Closed(e, closed, price).realized
                = e.basis + e.comm - e.realized
                    + Paid(IF e.lots > 0 THEN -closed ELSE closed, price)
    <1> DEFINE basis == Share(e.basis, Abs(e.lots) - closed, Abs(e.lots))
               comm  == Share(e.comm, Abs(e.lots) - closed, Abs(e.lots))
               side  == IF e.lots > 0 THEN closed ELSE -closed
               exit  == Commission(closed, price)
               money == side * price
               lots  == IF e.lots > 0 THEN -closed ELSE closed
    <1>1. e.lots \in Int /\ e.basis \in Int /\ e.comm \in Int /\ e.realized \in Int
        BY DEF EnginePosition
    <1>2. Abs(e.lots) \in Nat \ {0} /\ Abs(e.lots) - closed \in Int
        BY <1>1, AbsNat
    <1>3. basis \in Int /\ comm \in Int
        BY <1>1, <1>2, ShareInt
    <1>4. side \in Int /\ lots \in Int /\ lots = -side
        OBVIOUS
    <1>5. exit \in Int
        <2>1. closed \in Int
            OBVIOUS
        <2> QED
            BY <2>1, CommissionInt
    <1>6. money \in Int
        <2> HIDE DEF side
        <2> QED
            BY <1>4
    <1>7. Paid(lots, price) = -money + exit
        <2>1. lots * price = -money
            <3> HIDE DEF side, lots
            <3> QED
                BY <1>4
        <2>2. Commission(lots, price) = exit
            BY DEF Commission, Abs
        <2> QED
            BY <2>1, <2>2 DEF Paid
    <1>8. Closed(e, closed, price) =
             [lots |-> e.lots - side, basis |-> e.basis - (e.basis - basis),
              comm |-> e.comm - (e.comm - comm),
              realized |-> e.realized + money - (e.basis - basis) - ((e.comm - comm) + exit)]
        BY DEF Closed, Freed
    <1>9. e.lots - side = IF e.lots > 0 THEN e.lots - closed ELSE e.lots + closed
        BY <1>1
    <1> HIDE DEF basis, comm, side, exit, money, lots
    <1>10. Closed(e, closed, price) =
             [lots |-> e.lots - side, basis |-> basis, comm |-> comm,
              realized |-> e.realized + money - (e.basis - basis) - ((e.comm - comm) + exit)]
        BY <1>1, <1>3, <1>8
    <1>11. e.realized + money - (e.basis - basis) - ((e.comm - comm) + exit) \in Int
        BY <1>1, <1>3, <1>5, <1>6
    <1>12. basis + comm - (e.realized + money - (e.basis - basis) - ((e.comm - comm) + exit))
             = e.basis + e.comm - e.realized + Paid(lots, price)
        BY <1>1, <1>3, <1>5, <1>6, <1>7
    <1>13. e.lots - side \in Int
        BY <1>1, <1>4
    <1> QED
        BY <1>3, <1>9, <1>10, <1>11, <1>12, <1>13 DEF EnginePosition, basis, comm, lots

LEMMA OpenedMoves ==
    ASSUME NEW e \in EnginePosition, NEW lots \in Int, NEW price \in Int
    PROVE  /\ Opened(e, lots, price) \in EnginePosition
           /\ Opened(e, lots, price) =
                 [lots |-> lots, basis |-> lots * price, comm |-> Commission(lots, price),
                  realized |-> e.realized]
    <1> DEFINE cost == lots * price
               fee  == Commission(lots, price)
    <1>1. cost \in Int /\ fee \in Int
        BY CommissionInt
    <1>2. Opened(e, lots, price) = [e EXCEPT !.lots = lots, !.basis = cost, !.comm = fee]
        BY DEF Opened
    <1> HIDE DEF cost, fee
    <1>3. Opened(e, lots, price) =
             [lots |-> lots, basis |-> cost, comm |-> fee, realized |-> e.realized]
        BY <1>2 DEF EnginePosition
    <1> QED
        BY <1>1, <1>3 DEF EnginePosition, cost, fee

\* What lots are worth at a price, for the provers one number.
Worth(lots, price) == lots * price

Crosses(held, desired) == desired = 0 \/ ~SameSide(desired, held)

LEMMA CommissionNone == ASSUME NEW price \in Int PROVE Commission(0, price) = 0
    <1>1. Abs(0) * price = 0 * RateDivisor /\ RateDivisor \in Nat \ {0}
        BY TradeAssumption DEF Abs
    <1> QED
        BY <1>1, DivExact DEF Commission

(* What the engine has tied up, less what it realized, changes by what the *)
(* fill pays; and what it has tied up.                                     *)
LEMMA EngineFillIs ==
    ASSUME NEW e \in EnginePosition, NEW desired \in Int, NEW price \in Int,
           desired # e.lots, e.lots = 0 => e.basis = 0 /\ e.comm = 0
    PROVE  /\ EngineFill(e, desired, price) \in EnginePosition
           /\ Payable(price) =>
                 EngineFill(e, desired, price).basis + EngineFill(e, desired, price).comm
                   - EngineFill(e, desired, price).realized
                   = e.basis + e.comm - e.realized + Paid(desired - e.lots, price)
           /\ (e.lots = 0 \/ Crosses(e.lots, desired)) =>
                 /\ EngineFill(e, desired, price).basis = Worth(desired, price)
                 /\ EngineFill(e, desired, price).comm = Commission(desired, price)
           /\ (e.lots # 0 /\ ~Crosses(e.lots, desired) /\ Abs(desired) > Abs(e.lots)) =>
                 /\ EngineFill(e, desired, price).basis = e.basis + Worth(desired - e.lots, price)
                 /\ EngineFill(e, desired, price).comm
                      = e.comm + Commission(desired - e.lots, price)
           /\ (e.lots # 0 /\ ~Crosses(e.lots, desired) /\ Abs(desired) <= Abs(e.lots)) =>
                 /\ EngineFill(e, desired, price).basis = Share(e.basis, Abs(desired), Abs(e.lots))
                 /\ EngineFill(e, desired, price).comm = Share(e.comm, Abs(desired), Abs(e.lots))
    <1> DEFINE change == desired - e.lots
               after  == EngineFill(e, desired, price)
    <1>1. /\ e.lots \in Int /\ e.basis \in Int /\ e.comm \in Int /\ e.realized \in Int
          /\ price \in Int /\ change \in Int /\ change # 0
        BY DEF EnginePosition
    <1>2. Abs(e.lots) \in Nat /\ Abs(desired) \in Nat
        BY <1>1, AbsNat
    <1>3. \A n \in Int : n * price \in Int /\ Commission(n, price) \in Int
                         /\ Paid(n, price) = n * price + Commission(n, price)
        BY <1>1, CommissionInt DEF Paid
    <1>4. CASE e.lots = 0
        <2>1. after = [lots |-> desired, basis |-> desired * price,
                       comm |-> Commission(desired, price), realized |-> e.realized]
            BY <1>1, <1>4, OpenedMoves DEF EngineFill, Crosses
        <2>2. after \in EnginePosition
            BY <1>1, <1>4, OpenedMoves DEF EngineFill, Crosses
        <2>3. change = desired
            BY <1>4
        <2> DEFINE cost == desired * price
                   fee  == Commission(desired, price)
        <2>4. cost \in Int /\ fee \in Int /\ Paid(change, price) = cost + fee
            BY <1>3, <2>3
        <2>5. after.basis + after.comm - after.realized
                = e.basis + e.comm - e.realized + Paid(change, price)
            <3> HIDE DEF cost, fee
            <3> QED
                BY <1>1, <1>4, <2>1, <2>4 DEF cost, fee
        <2> QED
            BY <1>4, <2>1, <2>2, <2>5 DEF Worth
    <1>5. CASE e.lots # 0 /\ Crosses(e.lots, desired)
        <2> DEFINE flat == Closed(e, Abs(e.lots), price)
                   exit == -e.lots
        <2>1. Abs(e.lots) \in Nat \ {0} /\ Abs(e.lots) - Abs(e.lots) = 0
            BY <1>1, <1>5, AbsNat
        <2>2. exit = IF e.lots > 0 THEN -Abs(e.lots) ELSE Abs(e.lots)
            BY <1>1 DEF Abs
        <2>3. /\ flat \in EnginePosition /\ flat.lots = 0 /\ flat.basis = 0 /\ flat.comm = 0
              /\ flat.basis + flat.comm - flat.realized
                   = e.basis + e.comm - e.realized + Paid(exit, price)
            <3>1. /\ flat \in EnginePosition
                  /\ flat.lots = IF e.lots > 0 THEN e.lots - Abs(e.lots) ELSE e.lots + Abs(e.lots)
                  /\ flat.basis = Share(e.basis, 0, Abs(e.lots))
                  /\ flat.comm = Share(e.comm, 0, Abs(e.lots))
                  /\ flat.basis + flat.comm - flat.realized
                       = e.basis + e.comm - e.realized
                           + Paid(IF e.lots > 0 THEN -Abs(e.lots) ELSE Abs(e.lots), price)
                BY <1>1, <1>5, <2>1, ClosedMoves
            <3>2. (IF e.lots > 0 THEN e.lots - Abs(e.lots) ELSE e.lots + Abs(e.lots)) = 0
                BY <1>1 DEF Abs
            <3>3. Share(e.basis, 0, Abs(e.lots)) = 0 /\ Share(e.comm, 0, Abs(e.lots)) = 0
                BY <1>1, <2>1, ShareNone
            <3> QED
                BY <2>2, <3>1, <3>2, <3>3
        <2>4. after = IF desired = 0 THEN flat ELSE Opened(flat, desired, price)
            BY <1>5 DEF EngineFill, Crosses
        <2>5. flat.realized \in Int
            BY <2>3 DEF EnginePosition
        <2>6. exit \in Int
            BY <1>1
        <2> HIDE DEF flat
        <2>7. CASE desired = 0
            <3>1. change = exit
                BY <1>1, <2>7
            <3>2. desired * price = 0 /\ Commission(desired, price) = 0
                BY <1>1, <2>7, CommissionNone
            <3> HIDE DEF exit
            <3> QED
                BY <1>5, <2>3, <2>4, <2>7, <3>1, <3>2 DEF Worth
        <2>8. CASE desired # 0
            <3> DEFINE cost == desired * price
                       fee  == Commission(desired, price)
            <3>1. /\ after \in EnginePosition
                  /\ after = [lots |-> desired, basis |-> cost, comm |-> fee,
                              realized |-> flat.realized]
                <4>1. after = Opened(flat, desired, price)
                    BY <2>4, <2>8
                <4> QED
                    BY <1>1, <2>3, <4>1, OpenedMoves
            <3>2. cost \in Int /\ fee \in Int /\ Paid(desired, price) = cost + fee
                BY <1>3
            <3>3. ASSUME Payable(price)
                  PROVE  Paid(change, price) = Paid(exit, price) + Paid(desired, price)
                <4>1. \/ 0 <= exit /\ exit <= change
                      \/ change <= exit /\ exit <= 0
                    BY <1>1, <1>5, <2>8 DEF SameSide, Crosses
                <4>2. change - exit = desired
                    BY <1>1
                <4> HIDE DEF exit
                <4> QED
                    BY <1>1, <2>6, <3>3, <4>1, <4>2, PaidSplits
            <3>4. Paid(exit, price) \in Int
                BY <1>1, <2>6, PaidInt
            <3>5. Payable(price) =>
                     after.basis + after.comm - after.realized
                       = e.basis + e.comm - e.realized + Paid(change, price)
                <4> HIDE DEF cost, fee, exit
                <4> QED
                    BY <1>1, <2>3, <2>5, <3>1, <3>2, <3>3, <3>4
            <3> QED
                BY <1>5, <2>8, <3>1, <3>5 DEF Worth
        <2> QED
            BY <2>7, <2>8
    <1>6. CASE e.lots # 0 /\ ~Crosses(e.lots, desired) /\ Abs(desired) > Abs(e.lots)
        <2> DEFINE cost == change * price
                   fee  == Commission(change, price)
        <2>1. after = [e EXCEPT !.lots = desired, !.basis = @ + cost, !.comm = @ + fee]
            BY <1>6 DEF EngineFill, Crosses
        <2>2. cost \in Int /\ fee \in Int /\ Paid(change, price) = cost + fee
            BY <1>1, <1>3
        <2> HIDE DEF cost, fee
        <2>3. after = [lots |-> desired, basis |-> e.basis + cost, comm |-> e.comm + fee,
                       realized |-> e.realized]
            BY <2>1 DEF EnginePosition
        <2>4. after \in EnginePosition
            BY <1>1, <2>2, <2>3 DEF EnginePosition
        <2>5. after.basis + after.comm - after.realized
                = e.basis + e.comm - e.realized + Paid(change, price)
            BY <1>1, <2>2, <2>3
        <2>6. after.basis = e.basis + cost /\ after.comm = e.comm + fee
            BY <2>3
        <2>7. ~(e.lots = 0 \/ Crosses(e.lots, desired)) /\ ~(Abs(desired) <= Abs(e.lots))
            BY <1>2, <1>6
        <2> QED
            BY <2>4, <2>5, <2>6, <2>7, Zenon DEF cost, fee, Worth
    <1>7. CASE e.lots # 0 /\ ~Crosses(e.lots, desired) /\ ~(Abs(desired) > Abs(e.lots))
        <2> DEFINE closed == Abs(e.lots) - Abs(desired)
        <2>1. after = Closed(e, closed, price)
            BY <1>7 DEF EngineFill, Crosses
        <2>2. closed \in Nat /\ Abs(e.lots) - closed = Abs(desired)
            BY <1>2, <1>7
        <2>3. /\ desired = IF e.lots > 0 THEN e.lots - closed ELSE e.lots + closed
              /\ change = IF e.lots > 0 THEN -closed ELSE closed
            BY <1>1, <1>7 DEF Abs, SameSide, Crosses
        <2> HIDE DEF closed
        <2>4. /\ after \in EnginePosition
              /\ after.lots = desired
              /\ after.basis = Share(e.basis, Abs(desired), Abs(e.lots))
              /\ after.comm = Share(e.comm, Abs(desired), Abs(e.lots))
              /\ after.basis + after.comm - after.realized
                   = e.basis + e.comm - e.realized + Paid(change, price)
            <3>1. /\ after \in EnginePosition
                  /\ after.lots = IF e.lots > 0 THEN e.lots - closed ELSE e.lots + closed
                  /\ after.basis = Share(e.basis, Abs(e.lots) - closed, Abs(e.lots))
                  /\ after.comm = Share(e.comm, Abs(e.lots) - closed, Abs(e.lots))
                  /\ after.basis + after.comm - after.realized
                       = e.basis + e.comm - e.realized
                           + Paid(IF e.lots > 0 THEN -closed ELSE closed, price)
                BY <1>1, <1>7, <2>1, <2>2, ClosedMoves
            <3> QED
                BY <2>2, <2>3, <3>1
        <2>5. ~(Abs(desired) > Abs(e.lots)) /\ ~(e.lots = 0) /\ ~Crosses(e.lots, desired)
            BY <1>7
        <2> QED
            BY <2>4, <2>5
    <1> QED
        BY <1>4, <1>5, <1>6, <1>7

LEMMA EngineFillMoves ==
    ASSUME NEW e \in EnginePosition, NEW desired \in Int, NEW price \in Int
    PROVE  /\ EngineFill(e, desired, price) \in EnginePosition
           /\ EngineFill(e, desired, price).lots = desired
    <1>1. e.lots \in Int
        BY DEF EnginePosition
    <1>2. Abs(e.lots) \in Nat /\ Abs(desired) \in Nat
        BY <1>1, AbsNat
    <1>3. CASE e.lots = 0
        BY <1>3, OpenedMoves DEF EngineFill
    <1>4. CASE e.lots # 0 /\ (desired = 0 \/ ~SameSide(desired, e.lots))
        <2> DEFINE flat == Closed(e, Abs(e.lots), price)
        <2>1. flat \in EnginePosition /\ flat.lots = 0
            <3>1. /\ flat \in EnginePosition
                  /\ flat.lots = IF e.lots > 0 THEN e.lots - Abs(e.lots) ELSE e.lots + Abs(e.lots)
                BY <1>2, <1>4, ClosedMoves
            <3>2. flat.lots = 0
                BY <1>1, <3>1 DEF Abs
            <3> QED
                BY <3>1, <3>2
        <2>2. EngineFill(e, desired, price) =
                 IF desired = 0 THEN flat ELSE Opened(flat, desired, price)
            BY <1>4 DEF EngineFill
        <2> HIDE DEF flat
        <2>3. CASE desired = 0
            BY <2>1, <2>2, <2>3
        <2>4. CASE desired # 0
            <3>1. EngineFill(e, desired, price) = Opened(flat, desired, price)
                BY <2>2, <2>4
            <3>2. /\ Opened(flat, desired, price) \in EnginePosition
                  /\ Opened(flat, desired, price).lots = desired
                BY <2>1, OpenedMoves
            <3> QED
                BY <3>1, <3>2
        <2> QED
            BY <2>3, <2>4
    <1>5. CASE /\ e.lots # 0 /\ desired # 0 /\ SameSide(desired, e.lots)
               /\ Abs(desired) > Abs(e.lots)
        <2>1. EngineFill(e, desired, price) =
                 [e EXCEPT !.lots = desired,
                           !.basis = @ + (desired - e.lots) * price,
                           !.comm = @ + Commission(desired - e.lots, price)]
            BY <1>5 DEF EngineFill
        <2> DEFINE more == desired - e.lots
                   cost == more * price
                   fee  == Commission(more, price)
        <2>2. more \in Int
            BY <1>1
        <2>3. cost \in Int /\ fee \in Int
            <3>1. fee \in Int
                BY <2>2, CommissionInt
            <3> HIDE DEF more
            <3> QED
                BY <2>2, <3>1
        <2>4. EngineFill(e, desired, price) =
                 [e EXCEPT !.lots = desired, !.basis = @ + cost, !.comm = @ + fee]
            BY <2>1
        <2> HIDE DEF cost, fee
        <2>5. EngineFill(e, desired, price) =
                 [lots |-> desired, basis |-> e.basis + cost, comm |-> e.comm + fee,
                  realized |-> e.realized]
            BY <2>4 DEF EnginePosition
        <2> QED
            BY <2>3, <2>5 DEF EnginePosition
    <1>6. CASE /\ e.lots # 0 /\ desired # 0 /\ SameSide(desired, e.lots)
               /\ ~(Abs(desired) > Abs(e.lots))
        <2> DEFINE closed == Abs(e.lots) - Abs(desired)
        <2>1. EngineFill(e, desired, price) = Closed(e, closed, price)
            BY <1>6 DEF EngineFill
        <2>2. closed \in Nat
            BY <1>2, <1>6
        <2>3. desired = IF e.lots > 0 THEN e.lots - closed ELSE e.lots + closed
            BY <1>1, <1>6 DEF Abs, SameSide
        <2> HIDE DEF closed
        <2>4. /\ Closed(e, closed, price) \in EnginePosition
              /\ Closed(e, closed, price).lots = IF e.lots > 0 THEN e.lots - closed
                                                                ELSE e.lots + closed
            BY <1>6, <2>2, ClosedMoves
        <2> QED
            BY <2>1, <2>3, <2>4
    <1> QED
        BY <1>3, <1>4, <1>5, <1>6

-----------------------------------------------------------------------------
(***************************************************************************)
(* How far the backtest is from the live books.                            *)
(***************************************************************************)

(* Rounding a share of a sum and its shares differs by no more than one.   *)
LEMMA ShareOfSum ==
    ASSUME NEW x \in Int, NEW y \in Int, NEW z \in Nat, NEW whole \in Nat \ {0},
           NEW part \in 0 .. whole, NEW all, all = x + y + z
    PROVE  /\ Share(all, part, whole) - Share(x, part, whole) - Share(y, part, whole) >= 0
           /\ Share(all, part, whole) - Share(x, part, whole) - Share(y, part, whole) <= z + 1
    <1> DEFINE sa == Share(all, part, whole)
               sx == Share(x, part, whole)
               sy == Share(y, part, whole)
               d  == sa - sx - sy
               px == x * part
               py == y * part
               pz == z * part
               pa == all * part
    <1>1. sa \in Int /\ sx \in Int /\ sy \in Int
        <2>1. all \in Int /\ part \in Int
            OBVIOUS
        <2> QED
            BY <2>1, ShareInt
    <1>2. /\ px \in Int /\ py \in Int /\ pz \in Int /\ pa \in Int
          /\ pa = px + py + pz
        OBVIOUS
    <1>3. /\ whole * sa <= pa /\ pa < whole * sa + whole
          /\ whole * sx <= px /\ px < whole * sx + whole
          /\ whole * sy <= py /\ py < whole * sy + whole
        BY <1>2, DivBounds DEF Share
    <1>4. 0 <= pz /\ pz <= whole * z
        <2>1. z * 0 <= z * part /\ z * part <= z * whole
            BY TimesMonotonic
        <2> QED
            BY <2>1
    <1> DEFINE wd == whole * d
    <1>5. wd \in Int /\ wd = whole * sa - whole * sx - whole * sy
        <2> HIDE DEF sa, sx, sy
        <2> QED
            BY <1>1
    <1>6. whole * sa \in Int /\ whole * sx \in Int /\ whole * sy \in Int /\ whole * z \in Int
        BY <1>1
    <1>7. d \in Int
        BY <1>1
    <1> HIDE DEF sa, sx, sy, px, py, pz, pa, wd
    <1>8. wd > -whole /\ wd < whole * z + (whole + whole)
        <2> DEFINE a == whole * sa
                   b == whole * sx
                   c == whole * sy
                   e == whole * z
        <2>1. /\ a \in Int /\ b \in Int /\ c \in Int /\ e \in Int /\ wd = a - b - c
              /\ a <= pa /\ pa < a + whole /\ b <= px /\ px < b + whole
              /\ c <= py /\ py < c + whole /\ 0 <= pz /\ pz <= e
            BY <1>3, <1>4, <1>5, <1>6
        <2> HIDE DEF a, b, c, e
        <2>2. wd > -whole /\ wd < e + (whole + whole)
            BY <1>2, <2>1
        <2> QED
            BY <2>2 DEF e
    <1> HIDE DEF d
    <1>9. ~(d <= -1)
        <2>1. SUFFICES ASSUME d <= -1 PROVE FALSE
            OBVIOUS
        <2>2. wd <= whole * (-1)
            BY <1>7, <2>1, TimesMonotonic DEF wd
        <2> QED
            BY <1>5, <1>8, <2>2
    <1>10. ~(z + 2 <= d)
        <2>1. SUFFICES ASSUME z + 2 <= d PROVE FALSE
            OBVIOUS
        <2>2. whole * (z + 2) <= wd
            BY <1>7, <2>1, TimesMonotonic DEF wd
        <2>3. whole * (z + 2) = whole * z + (whole + whole)
            OBVIOUS
        <2> QED
            BY <1>5, <1>6, <1>8, <2>2, <2>3
    <1>11. d >= 0 /\ d <= z + 1
        BY <1>7, <1>9, <1>10
    <1> QED
        BY <1>11 DEF d, sa, sx, sy

(* A fill on the other side of the spread is cheaper.                      *)
LEMMA SpreadEarned ==
    ASSUME NEW lots \in Int, lots # 0, NEW other \in Int, (other < 0) # (lots < 0),
           NEW quote \in Price
    PROVE  Paid(lots, FillPrice(lots, quote)) - Paid(lots, FillPrice(other, quote)) >= 1
    <1> DEFINE s == quote \div SpreadDivisor
               high == quote + s
               low == quote - s
    <1>1. quote \in Nat \ {0} /\ SpreadDivisor \in Nat \ {0} /\ RateDivisor \in Nat
          /\ RateDivisor > 1 /\ quote % SpreadDivisor = 0
        BY TradeAssumption, UnitAssumption
    <1>2. s \in Int /\ s >= 1
        <2>1. s \in Int /\ quote = s * SpreadDivisor
            BY <1>1
        <2> HIDE DEF s
        <2>2. ~(s <= 0)
            <3>1. SUFFICES ASSUME s <= 0 PROVE FALSE
                OBVIOUS
            <3>2. SpreadDivisor * s <= SpreadDivisor * 0
                BY <1>1, <2>1, <3>1, TimesMonotonic
            <3> QED
                BY <1>1, <2>1, <3>2
        <2> QED
            BY <2>1, <2>2
    <1>3. FillPrice(-1, quote) = low /\ FillPrice(1, quote) = high
        BY DEF FillPrice
    <1>4. PICK u \in Nat : high = u * RateDivisor
        BY <1>3, FillPayable DEF Payable
    <1>5. PICK v \in Nat : low = v * RateDivisor
        BY <1>3, FillPayable DEF Payable
    <1> DEFINE diff == u - v
    <1>6. high - low = 2 * s /\ high \in Int /\ low \in Int
        BY <1>1, <1>2
    <1>7. diff * RateDivisor = 2 * s
        <2>1. diff * RateDivisor = u * RateDivisor - v * RateDivisor
            BY <1>1
        <2> HIDE DEF s, high, low, diff
        <2> QED
            BY <1>4, <1>5, <1>6, <2>1
    <1>8. diff \in Int
        OBVIOUS
    <1> HIDE DEF s, high, low
    <1>9. diff >= 1
        <2>1. SUFFICES ASSUME diff <= 0 PROVE FALSE
            BY <1>8
        <2> HIDE DEF diff
        <2>2. RateDivisor * diff <= RateDivisor * 0
            BY <1>1, <1>8, <2>1, TimesMonotonic
        <2> QED
            BY <1>1, <1>2, <1>7, <1>8, <2>2
    <1>10. 2 * s - diff >= 1
        <2> HIDE DEF diff
        <2>1. diff * 2 <= diff * RateDivisor
            BY <1>1, <1>8, <1>9, TimesMonotonic
        <2> QED
            BY <1>2, <1>7, <1>8, <1>9, <2>1
    <1>11. CASE lots < 0
        <2>1. FillPrice(lots, quote) = low /\ FillPrice(other, quote) = high
            BY <1>11 DEF FillPrice, low, high, s
        <2>2. Paid(lots, low) = lots * (low - v) /\ Paid(lots, high) = lots * (high - u)
            <3>1. Paid(lots, low) = lots * (low - v)
                BY <1>5, <1>11, PaidIs
            <3>2. Paid(lots, high) = lots * (high - u)
                BY <1>4, <1>11, PaidIs
            <3> QED
                BY <3>1, <3>2
        <2> DEFINE n == -lots
                   x == 2 * s - diff
        <2>3. n \in Nat /\ n >= 1 /\ x \in Int /\ x >= 1
            BY <1>2, <1>8, <1>10, <1>11
        <2>4. lots * (low - v) - lots * (high - u) = n * ((high - u) - (low - v))
            BY <1>6
        <2>5. (high - u) - (low - v) = x
            BY <1>2, <1>6
        <2> HIDE DEF n, x
        <2>6. n * 1 <= n * x
            BY <2>3, TimesMonotonic
        <2> QED
            BY <2>1, <2>2, <2>3, <2>4, <2>5, <2>6
    <1>12. CASE lots > 0
        <2>1. FillPrice(lots, quote) = high /\ FillPrice(other, quote) = low
            BY <1>12 DEF FillPrice, low, high, s
        <2>2. Paid(lots, low) = lots * (low + v) /\ Paid(lots, high) = lots * (high + u)
            <3>1. Paid(lots, low) = lots * (low + v)
                BY <1>5, <1>12, PaidIs
            <3>2. Paid(lots, high) = lots * (high + u)
                BY <1>4, <1>12, PaidIs
            <3> QED
                BY <3>1, <3>2
        <2> DEFINE x == 2 * s + diff
        <2>3. x \in Int /\ x >= 1 /\ lots \in Nat /\ lots >= 1
            BY <1>2, <1>8, <1>9, <1>12
        <2>4. lots * (high + u) - lots * (low + v) = lots * ((high + u) - (low + v))
            BY <1>6
        <2>5. (high + u) - (low + v) = x
            BY <1>2, <1>6
        <2> HIDE DEF x
        <2>6. lots * 1 <= lots * x
            BY <2>3, TimesMonotonic
        <2> QED
            BY <2>1, <2>2, <2>3, <2>4, <2>5, <2>6
    <1> QED
        BY <1>11, <1>12

(* How far a breaker's position s and the engine's e are apart: in what    *)
(* they have tied up, and in that less what they realized.                 *)
Lag(s, e) == s.basis - (e.basis + e.comm)
Gain(s, e) == (s.basis - s.realized) - (e.basis + e.comm - e.realized)

Apart(s, e, b, trim) ==
    /\ s.lots = 0 => s.basis = 0 /\ e.basis = 0 /\ e.comm = 0
    /\ trim => 0 <= Lag(s, e) /\ Lag(s, e) <= Gain(s, e) /\ Gain(s, e) >= 1
    /\ ~trim => Lag(s, e) = 0 /\ Gain(s, e) = 0 /\ b = s

Trims(held, lots) ==
    /\ held # 0 /\ held + lots # 0
    /\ SameSide(held, held + lots) /\ ~SameSide(held, lots)

LEMMA FillsKeepApart ==
    ASSUME NEW s \in TickerState, NEW e \in EnginePosition, NEW b \in TickerState,
           NEW trim \in BOOLEAN, NEW quote \in Price, NEW lots \in Int, lots # 0,
           e.lots = s.lots, b.lots = s.lots, Apart(s, e, b, trim),
           NEW s1, s1 = Record(s, lots, FillPrice(lots, quote)),
           NEW sim, sim = EnginePrice(s.lots, s.lots + lots, quote),
           NEW e1, e1 = EngineFill(e, s.lots + lots, sim),
           NEW b1, b1 = FeedBreaker(b, s.lots, s.lots + lots, sim)
    PROVE  Apart(s1, e1, b1, trim \/ Trims(s.lots, lots))
    <1> DEFINE held == s.lots
               left == s.lots + lots
               price == FillPrice(lots, quote)
    <1>1. /\ held \in Int /\ left \in Int /\ left - held = lots /\ left # held
          /\ s.basis \in Int /\ s.realized \in Int
          /\ e.basis \in Int /\ e.comm \in Int /\ e.realized \in Int
        BY DEF TickerState, EnginePosition
    <1>2. /\ price \in Nat /\ Payable(price) /\ sim \in Nat /\ Payable(sim)
        BY <1>1, FillPayable DEF EnginePrice
    <1>3. /\ s1 \in TickerState /\ s1.lots = left
          /\ s1.basis - s1.realized = s.basis - s.realized + Paid(lots, price)
        BY <1>2, RecordMoves
    <1>4. /\ e1 \in EnginePosition
          /\ e1.basis + e1.comm - e1.realized = e.basis + e.comm - e.realized + Paid(lots, sim)
          /\ (held = 0 \/ Crosses(held, left)) =>
                e1.basis = Worth(left, sim) /\ e1.comm = Commission(left, sim)
          /\ (held # 0 /\ ~Crosses(held, left) /\ Abs(left) > Abs(held)) =>
                e1.basis = e.basis + Worth(lots, sim) /\ e1.comm = e.comm + Commission(lots, sim)
          /\ (held # 0 /\ ~Crosses(held, left) /\ Abs(left) <= Abs(held)) =>
                /\ e1.basis = Share(e.basis, Abs(left), Abs(held))
                /\ e1.comm = Share(e.comm, Abs(left), Abs(held))
        <2>1. e.lots = 0 => e.basis = 0 /\ e.comm = 0
            BY DEF Apart
        <2>2. /\ left - e.lots = lots /\ sim \in Int /\ left \in Int /\ left # e.lots
              /\ e1 = EngineFill(e, left, sim) /\ e.lots = held
            BY <1>1, <1>2
        <2> HIDE DEF left, held
        <2>3. /\ e1 \in EnginePosition
              /\ Payable(sim) =>
                    e1.basis + e1.comm - e1.realized
                      = e.basis + e.comm - e.realized + Paid(left - e.lots, sim)
              /\ (e.lots = 0 \/ Crosses(e.lots, left)) =>
                    e1.basis = Worth(left, sim) /\ e1.comm = Commission(left, sim)
              /\ (e.lots # 0 /\ ~Crosses(e.lots, left) /\ Abs(left) > Abs(e.lots)) =>
                    /\ e1.basis = e.basis + Worth(left - e.lots, sim)
                    /\ e1.comm = e.comm + Commission(left - e.lots, sim)
              /\ (e.lots # 0 /\ ~Crosses(e.lots, left) /\ Abs(left) <= Abs(e.lots)) =>
                    /\ e1.basis = Share(e.basis, Abs(left), Abs(e.lots))
                    /\ e1.comm = Share(e.comm, Abs(left), Abs(e.lots))
            BY <2>1, <2>2, EngineFillIs
        <2> QED
            BY <1>2, <2>2, <2>3
    <1>5. b1 = Record(b, lots, sim)
        BY <1>2, FeedBreakerIsRecord
    <1>6. Paid(lots, price) \in Int /\ Paid(lots, sim) \in Int /\ Paid(left, sim) \in Int
          /\ Paid(left, sim) = Worth(left, sim) + Commission(left, sim)
          /\ Paid(lots, sim) = Worth(lots, sim) + Commission(lots, sim)
        <2>1. lots \in Int /\ left \in Int /\ price \in Int /\ sim \in Int
            BY <1>1, <1>2
        <2> HIDE DEF left, price
        <2>2. Paid(lots, price) \in Int /\ Paid(lots, sim) \in Int /\ Paid(left, sim) \in Int
            BY <2>1, PaidInt
        <2> QED
            BY <2>2, Zenon DEF Paid, Worth
    <1>7. /\ s1.basis \in Int /\ s1.realized \in Int /\ e1.basis \in Int /\ e1.comm \in Int
          /\ e1.realized \in Int
        BY <1>3, <1>4 DEF TickerState, EnginePosition
    <1>8. Gain(s1, e1) = Gain(s, e) + (Paid(lots, price) - Paid(lots, sim))
        <2> HIDE DEF price, held, left
        <2> QED
            BY <1>1, <1>3, <1>4, <1>6, <1>7 DEF Gain
    <1>9. Gain(s, e) \in Int /\ Lag(s, e) \in Int /\ Gain(s1, e1) \in Int /\ Lag(s1, e1) \in Int
        BY <1>1, <1>7 DEF Gain, Lag
    <1>10. Lag(s, e) >= 0 /\ Lag(s, e) <= Gain(s, e) /\ (held = 0 => Lag(s, e) = 0)
        BY <1>1 DEF Apart, Lag
    <1>11. CASE Trims(held, lots)
        <2>1. /\ held # 0 /\ ~Crosses(held, left) /\ Abs(left) <= Abs(held)
              /\ Opposed(held, lots) /\ Abs(lots) <= Abs(held)
              /\ Abs(held) - Abs(lots) = Abs(left) /\ Abs(left) \in 0 .. Abs(held)
              /\ Abs(held) \in Nat \ {0} /\ left # 0 /\ (left < 0) # (lots < 0)
            BY <1>1, <1>11 DEF Trims, SameSide, Crosses, Opposed, Abs
        <2>2. s1.basis = Share(s.basis, Abs(left), Abs(held))
            BY <1>2, <2>1, RecordTied
        <2>3. /\ e1.basis = Share(e.basis, Abs(left), Abs(held))
              /\ e1.comm = Share(e.comm, Abs(left), Abs(held))
            BY <1>4, <2>1
        <2>4. Lag(s1, e1) >= 0 /\ Lag(s1, e1) <= Lag(s, e) + 1
            <3> DEFINE lag == Lag(s, e)
            <3>1. s.basis = e.basis + e.comm + lag /\ lag \in Nat
                BY <1>1, <1>9, <1>10 DEF Lag
            <3> HIDE DEF lag
            <3>2. /\ Share(s.basis, Abs(left), Abs(held)) - Share(e.basis, Abs(left), Abs(held))
                       - Share(e.comm, Abs(left), Abs(held)) >= 0
                  /\ Share(s.basis, Abs(left), Abs(held)) - Share(e.basis, Abs(left), Abs(held))
                       - Share(e.comm, Abs(left), Abs(held)) <= lag + 1
                BY <1>1, <2>1, <3>1, ShareOfSum
            <3>3. s1.basis - e1.basis - e1.comm >= 0 /\ s1.basis - e1.basis - e1.comm <= lag + 1
                BY <2>2, <2>3, <3>2
            <3>4. Lag(s1, e1) = s1.basis - e1.basis - e1.comm
                BY <1>7 DEF Lag
            <3> QED
                BY <3>3, <3>4 DEF lag
        <2>5. Paid(lots, price) - Paid(lots, sim) >= 1
            <3>1. sim = FillPrice(left, quote)
                BY <2>1 DEF EnginePrice
            <3> QED
                BY <1>1, <2>1, <3>1, SpreadEarned
        <2>6. Gain(s1, e1) >= Gain(s, e) + 1
            BY <1>6, <1>8, <1>9, <2>5
        <2>7. s1.lots # 0
            BY <1>3, <2>1
        <2>8. 0 <= Lag(s1, e1) /\ Lag(s1, e1) <= Gain(s1, e1) /\ Gain(s1, e1) >= 1
            BY <1>9, <1>10, <2>4, <2>6
        <2> QED
            BY <1>11, <2>7, <2>8 DEF Apart
    <1>12. CASE ~Trims(held, lots)
        <2>1. sim = price
            BY <1>1, <1>12 DEF Trims, SameSide, EnginePrice, FillPrice
        <2>2. Gain(s1, e1) = Gain(s, e)
            BY <1>6, <1>8, <1>9, <2>1
        <2>3. ~trim => b1 = s1
            BY <1>5, <2>1 DEF Apart
        <2>4. /\ Lag(s1, e1) = Lag(s, e) \/ Lag(s1, e1) = 0
              /\ left = 0 => s1.basis = 0 /\ e1.basis = 0 /\ e1.comm = 0
            <3>1. CASE ~Opposed(held, lots)
                <4>1. s1.basis = s.basis + Paid(lots, price)
                    BY <1>2, <3>1, RecordAdds
                <4>2. e1.basis = e.basis + Worth(lots, sim) /\ e1.comm = e.comm + Commission(lots, sim)
                    <5>1. CASE held = 0
                        <6>1. left = lots
                            BY <1>1, <5>1
                        <6>2. e.basis = 0 /\ e.comm = 0
                            BY <5>1 DEF Apart
                        <6>3. e1.basis = Worth(lots, sim) /\ e1.comm = Commission(lots, sim)
                            BY <1>4, <5>1, <6>1
                        <6>4. Commission(lots, sim) \in Int /\ Worth(lots, sim) \in Int
                            BY <1>2, CommissionInt DEF Worth
                        <6> QED
                            BY <6>2, <6>3, <6>4
                    <5>2. CASE held # 0
                        <6>1. ~Crosses(held, left) /\ Abs(left) > Abs(held)
                            BY <1>1, <3>1, <5>2 DEF Opposed, SameSide, Crosses, Abs
                        <6> QED
                            BY <1>4, <5>2, <6>1
                    <5> QED
                        BY <5>1, <5>2
                <4>3. left # 0
                    BY <1>1, <3>1 DEF Opposed, SameSide
                <4>4. Lag(s1, e1) = Lag(s, e)
                    <5> DEFINE cost == Worth(lots, sim)
                               fee  == Commission(lots, sim)
                    <5>1. cost \in Int /\ fee \in Int
                        BY <1>2, CommissionInt DEF Worth
                    <5>2. /\ s1.basis = s.basis + (cost + fee) /\ e1.basis = e.basis + cost
                          /\ e1.comm = e.comm + fee
                        BY <1>6, <2>1, <4>1, <4>2
                    <5> HIDE DEF cost, fee
                    <5> QED
                        BY <1>1, <5>1, <5>2 DEF Lag
                <4> QED
                    BY <4>3, <4>4
            <3>2. CASE Opposed(held, lots)
                <4>1. Crosses(held, left) /\ Abs(lots) >= Abs(held) /\ held # 0
                    BY <1>1, <1>12, <3>2 DEF Trims, SameSide, Crosses, Opposed, Abs
                <4>2. e1.basis = Worth(left, sim) /\ e1.comm = Commission(left, sim)
                    BY <1>4, <4>1
                <4>3. s1.basis = Paid(lots, price) - Share(Paid(lots, price), Abs(held), Abs(lots))
                    BY <1>2, <3>2, <4>1, RecordTied
                <4>4. /\ Paid(lots, price) = Paid(-held, price) + Paid(left, price)
                      /\ Share(Paid(lots, price), Abs(held), Abs(lots)) = Paid(-held, price)
                    <5> DEFINE exit == -held
                    <5>1. /\ exit \in Int /\ Abs(exit) = Abs(held)
                          /\ \/ 0 <= exit /\ exit <= lots
                             \/ lots <= exit /\ exit <= 0
                          /\ lots - exit = left
                        BY <1>1, <3>2, <4>1 DEF Opposed, SameSide, Abs
                    <5> HIDE DEF exit, price, left
                    <5>2. /\ Paid(lots, price) = Paid(exit, price) + Paid(lots - exit, price)
                          /\ Share(Paid(lots, price), Abs(exit), Abs(lots)) = Paid(exit, price)
                        BY <1>2, <5>1, PaidSplits
                    <5> QED
                        BY <5>1, <5>2 DEF exit
                <4>5. Paid(-held, price) \in Int
                    <5> DEFINE exit == -held
                    <5>1. exit \in Int /\ price \in Int
                        BY <1>1, <1>2
                    <5> HIDE DEF exit, price
                    <5>2. Paid(exit, price) \in Int
                        BY <5>1, PaidInt
                    <5> QED
                        BY <5>2 DEF exit
                <4>6. s1.basis = Paid(left, sim)
                    <5> HIDE DEF price, left
                    <5> QED
                        BY <1>6, <2>1, <4>3, <4>4, <4>5
                <4>7. Lag(s1, e1) = 0
                    <5>1. s1.basis = e1.basis + e1.comm
                        BY <1>6, <4>2, <4>6
                    <5> QED
                        BY <1>7, <5>1 DEF Lag
                <4>8. left = 0 => s1.basis = 0 /\ e1.basis = 0 /\ e1.comm = 0
                    <5>1. SUFFICES ASSUME left = 0 PROVE s1.basis = 0 /\ e1.basis = 0 /\ e1.comm = 0
                        OBVIOUS
                    <5>2. Worth(left, sim) = 0
                        BY <1>2, <5>1 DEF Worth
                    <5>3. Commission(left, sim) = 0
                        <6>1. PICK unit \in Nat : sim = unit * RateDivisor
                            BY <1>2 DEF Payable
                        <6>2. Commission(left, sim) = Abs(left) * unit
                            BY <1>1, <6>1, PaidIs
                        <6>3. Abs(left) = 0
                            BY <5>1 DEF Abs
                        <6> QED
                            BY <6>2, <6>3
                    <5> QED
                        BY <1>6, <4>2, <4>6, <5>2, <5>3
                <4> QED
                    BY <4>7, <4>8
            <3> QED
                BY <3>1, <3>2
        <2>5. trim => 0 <= Lag(s1, e1) /\ Lag(s1, e1) <= Gain(s1, e1) /\ Gain(s1, e1) >= 1
            BY <1>9, <1>10, <2>2, <2>4 DEF Apart
        <2>6. ~trim => Lag(s1, e1) = 0 /\ Gain(s1, e1) = 0
            BY <1>9, <2>2, <2>4 DEF Apart
        <2> QED
            BY <1>3, <1>12, <2>3, <2>4, <2>5, <2>6 DEF Apart
    <1> QED
        BY <1>11, <1>12

-----------------------------------------------------------------------------
(***************************************************************************)
(* What a position commits of the cap on gross exposure.                   *)
(***************************************************************************)

Above(n) == IF n > 0 THEN n ELSE 0

(* The part of a position that its leg hides, and the money it ties up at  *)
(* average cost without that part.                                         *)
HiddenOf(lots, basis, cost) ==
    IF lots > 0 THEN Above(basis - cost)
    ELSE IF lots < 0 THEN Above(cost - basis)
    ELSE 0

Committed(lots, basis, cost) ==
    IF lots > 0 THEN Above(basis - Above(basis - cost))
    ELSE IF lots < 0 THEN Above(-basis - Above(cost - basis))
    ELSE 0

Sided(lots, basis) ==
    /\ lots > 0 => basis >= 0
    /\ lots < 0 => basis <= 0
    /\ lots = 0 => basis = 0

LEMMA CommittedBounds ==
    ASSUME NEW lots \in Int, NEW basis \in Int, NEW cost \in Int
    PROVE  /\ Committed(lots, basis, cost) \in Int
           /\ lots > 0 => Committed(lots, basis, cost) <= Above(cost)
           /\ lots < 0 => Committed(lots, basis, cost) <= Above(-cost)
           /\ Committed(lots, basis, cost) <= Abs(IF lots = 0 THEN 0 ELSE cost)
           /\ HiddenOf(lots, basis, cost) \in Int
           /\ Sided(lots, basis) => Committed(lots, basis, cost) <= Abs(basis)
           /\ Sided(lots, basis) =>
                 Abs(basis) <= Committed(lots, basis, cost) + HiddenOf(lots, basis, cost)
    BY DEF Committed, HiddenOf, Above, Abs, Sided

(* Lots that are closed commit no more, at whatever price.                 *)
LEMMA ReducingCommitsNoMore ==
    ASSUME NEW held \in Int, NEW lots \in Int, lots # 0, Opposed(held, lots),
           Abs(lots) <= Abs(held), NEW basis \in Int, NEW cost \in Int, Sided(held, basis),
           NEW price \in Nat,
           NEW kept, kept = Share(basis, Abs(held + lots), Abs(held))
    PROVE  /\ Sided(held + lots, kept)
           /\ Committed(held + lots, kept, cost + lots * price) <= Committed(held, basis, cost)
    <1> DEFINE left == held + lots
               paid == lots * price
    <1>1. left \in Int /\ held # 0 /\ Abs(held) \in Nat \ {0} /\ Abs(left) \in 0 .. Abs(held)
        BY DEF Opposed, SameSide, Abs
    <1>2. kept \in Int /\ (basis >= 0 => kept >= 0 /\ kept <= basis)
          /\ (basis <= 0 => kept <= 0 /\ kept >= basis)
        <2>1. kept \in Int
            BY <1>1, ShareInt
        <2> QED
            BY <1>1, <2>1, ShareWithin
    <1>3. left = 0 => kept = 0
        <2>1. SUFFICES ASSUME left = 0 PROVE kept = 0
            OBVIOUS
        <2>2. Abs(left) = 0
            BY <2>1 DEF Abs
        <2> QED
            BY <1>1, <2>2, ShareNone
    <1>4. paid \in Int /\ (lots > 0 => paid >= 0) /\ (lots < 0 => paid <= 0)
        OBVIOUS
    <1>5. /\ held > 0 => lots < 0 /\ left >= 0
          /\ held < 0 => lots > 0 /\ left <= 0
        BY <1>1 DEF Opposed, SameSide, Abs
    <1> HIDE DEF left, paid
    <1>6. Sided(left, kept)
        BY <1>1, <1>2, <1>3, <1>5 DEF Sided
    <1>7. CASE held > 0
        BY <1>1, <1>2, <1>3, <1>4, <1>5, <1>6, <1>7 DEF Committed, Above, Abs, Sided, left, paid
    <1>8. CASE held < 0
        BY <1>1, <1>2, <1>3, <1>4, <1>5, <1>6, <1>8 DEF Committed, Above, Abs, Sided, left, paid
    <1> QED
        BY <1>1, <1>7, <1>8

LegOf(lots, cost) == IF lots = 0 THEN 0 ELSE cost

(* An order's change of exposure, as the gate asks it, is no less than what *)
(* any part of the order pays, but for the spread.                          *)
LEMMA ChangeCovers ==
    ASSUME NEW order \in Int, NEW lots \in Executions(order), NEW quote \in Price,
           NEW size \in Nat \ {0}
    PROVE  /\ order * size * quote \in Int /\ lots * FillPrice(lots, quote) \in Int
           /\ Abs(lots) * (quote \div SpreadDivisor) \in Nat
           /\ lots > 0 => /\ order * size * quote >= 0
                          /\ lots * FillPrice(lots, quote)
                               <= order * size * quote + Abs(lots) * (quote \div SpreadDivisor)
           /\ lots < 0 => /\ order * size * quote <= 0
                          /\ lots * FillPrice(lots, quote)
                               >= order * size * quote - Abs(lots) * (quote \div SpreadDivisor)
    <1> DEFINE s == quote \div SpreadDivisor
               n == Abs(order)
               k == Abs(lots)
               price == FillPrice(lots, quote)
    <1>1. quote \in Nat \ {0} /\ s \in Nat /\ price \in Nat
          /\ price = IF lots < 0 THEN quote - s ELSE quote + s
        <2>1. lots \in Int
            BY AbsNat DEF Executions
        <2> QED
            BY <2>1, TradeAssumption, FillPriceNat DEF FillPrice
    <1>2. /\ lots \in Int /\ lots # 0 /\ n \in Nat /\ k \in Nat /\ k <= n
          /\ lots > 0 => order = n /\ lots = k
          /\ lots < 0 => order = -n /\ lots = -k
        BY AbsNat DEF Executions, SameSide, Abs
    <1> DEFINE full == (n * size) * quote
               part == k * quote
               slip == k * s
               paid == lots * price
               change == order * size * quote
    <1> HIDE DEF s, n, k, price
    <1>3. full \in Nat /\ part \in Nat /\ slip \in Nat /\ part <= full
        <2>1. n * 1 <= n * size /\ n * size \in Nat
            BY <1>2, TimesMonotonic
        <2>2. quote * k <= quote * (n * size)
            BY <1>1, <1>2, <2>1, TimesMonotonic
        <2> QED
            BY <1>1, <1>2, <2>1, <2>2
    <1>4. lots > 0 => paid = part + slip /\ change = full
        BY <1>1, <1>2
    <1>5. lots < 0 => paid = -part + slip /\ change = -full
        BY <1>1, <1>2
    <1> HIDE DEF full, part, slip, paid, change
    <1>6. /\ change \in Int /\ paid \in Int /\ slip \in Nat
          /\ lots > 0 => change >= 0 /\ paid <= change + slip
          /\ lots < 0 => change <= 0 /\ paid >= change - slip
        BY <1>2, <1>3, <1>4, <1>5
    <1> QED
        BY <1>6, Zenon DEF change, paid, slip, price, k, s

(* A fill either commits no more of the cap, or what it commits is in the  *)
(* leg the gate was shown when it asked, but for the spread.               *)
LEMMA FillCommits ==
    ASSUME NEW s \in Ledger, NEW e \in EnginePosition, NEW order \in Int,
           NEW lots \in Executions(order), NEW quote \in Price, NEW size \in Nat \ {0},
           NEW s1, NEW e1, e.lots = s.lots, Sided(s.lots, e.basis), s.lots = 0 => e.comm = 0,
           s1 = Row(s, lots, FillPrice(lots, quote)),
           e1 = EngineFill(e, s.lots + lots, EnginePrice(s.lots, s.lots + lots, quote))
    PROVE  /\ Sided(s1.lots, e1.basis)
           /\ s1.lots = 0 => e1.comm = 0
           /\ \/ Committed(s1.lots, e1.basis, s1.cost) <= Committed(s.lots, e.basis, s.cost)
              \/ /\ s.lots + order # 0
                 /\ order * size * quote # 0
                 /\ Committed(s1.lots, e1.basis, s1.cost)
                      <= Abs(LegOf(s.lots, s.cost) + order * size * quote)
                           + Abs(lots) * (quote \div SpreadDivisor)
    <1> DEFINE held   == s.lots
               left   == s.lots + lots
               price  == FillPrice(lots, quote)
               sim    == EnginePrice(held, left, quote)
               paid   == lots * price
               change == order * size * quote
               slip   == Abs(lots) * (quote \div SpreadDivisor)
    <1>1. /\ lots \in Int /\ lots # 0 /\ held \in Int /\ left \in Int /\ left # held
          /\ left - held = lots /\ s.cost \in Int /\ e.basis \in Int /\ e.lots = held
          /\ Abs(lots) <= Abs(order) /\ SameSide(lots, order)
        BY AbsNat DEF Executions, Ledger, EnginePosition, Abs
    <1>2. price \in Nat /\ sim \in Int /\ quote \in Nat \ {0}
        BY <1>1, TradeAssumption, FillPriceNat DEF EnginePrice
    <1>3. s1.lots = left /\ s1.cost = s.cost + paid
        BY DEF Row
    <1>4. /\ change \in Int /\ paid \in Int /\ slip \in Nat
          /\ lots > 0 => change >= 0 /\ paid <= change + slip
          /\ lots < 0 => change <= 0 /\ paid >= change - slip
        BY ChangeCovers
    <1>5. change # 0
        <2>1. order # 0
            BY <1>1 DEF Abs, SameSide
        <2> QED
            BY <1>2, <2>1
    <1>6. /\ paid = Worth(lots, price)
          /\ lots > 0 => paid >= 0
          /\ lots < 0 => paid <= 0
        BY <1>1, <1>2 DEF Worth
    <1>7. e.lots = 0 => e.basis = 0 /\ e.comm = 0
        BY <1>1 DEF Sided
    <1>8. /\ (held = 0 \/ Crosses(held, left)) =>
                e1.basis = Worth(left, sim) /\ e1.comm = Commission(left, sim)
          /\ (held # 0 /\ ~Crosses(held, left) /\ Abs(left) > Abs(held)) =>
                e1.basis = e.basis + Worth(lots, sim)
          /\ (held # 0 /\ ~Crosses(held, left) /\ Abs(left) <= Abs(held)) =>
                e1.basis = Share(e.basis, Abs(left), Abs(held))
        <2> HIDE DEF held, left, sim
        <2>1. e1 = EngineFill(e, left, sim)
            BY DEF held, left, sim
        <2> QED
            BY <1>1, <1>2, <1>7, <2>1, EngineFillIs
    <1>9. left = 0 => e1.basis = 0 /\ e1.comm = 0
        <2>1. SUFFICES ASSUME left = 0 PROVE e1.basis = 0 /\ e1.comm = 0
            OBVIOUS
        <2>2. Worth(0, sim) = 0 /\ Commission(0, sim) = 0
            BY <1>2, CommissionNone DEF Worth
        <2>3. Crosses(held, left)
            BY <2>1 DEF Crosses
        <2> HIDE DEF held, left, sim
        <2> QED
            BY <1>8, <2>1, <2>2, <2>3
    <1>10. CASE Opposed(held, lots) /\ Abs(lots) <= Abs(held)
        <2>1. e1.basis = Share(e.basis, Abs(left), Abs(held))
            <3>1. CASE left = 0
                <4>1. Abs(left) = 0 /\ Abs(held) \in Nat \ {0}
                    BY <1>1, <1>10, <3>1 DEF Abs, Opposed
                <4>2. Share(e.basis, Abs(left), Abs(held)) = 0
                    BY <1>1, <4>1, ShareNone
                <4> QED
                    BY <1>9, <3>1, <4>2
            <3>2. CASE left # 0
                <4>1. held # 0 /\ ~Crosses(held, left) /\ Abs(left) <= Abs(held)
                    BY <1>1, <1>10, <3>2 DEF Crosses, Opposed, SameSide, Abs
                <4> HIDE DEF held, left, sim
                <4> QED
                    BY <1>8, <4>1
            <3> QED
                BY <3>1, <3>2
        <2>2. /\ Sided(left, e1.basis)
              /\ Committed(left, e1.basis, s.cost + paid) <= Committed(held, e.basis, s.cost)
            BY <1>1, <1>2, <1>10, <2>1, ReducingCommitsNoMore
        <2> QED
            BY <1>3, <1>9, <2>2
    <1>11. CASE ~(Opposed(held, lots) /\ Abs(lots) <= Abs(held))
        <2>1. /\ lots > 0 => left > 0 /\ held + order > 0
              /\ lots < 0 => left < 0 /\ held + order < 0
            BY <1>1, <1>11 DEF Opposed, SameSide, Abs
        <2>2. sim = price /\ left # 0
            BY <1>1, <2>1 DEF EnginePrice, FillPrice
        <2>3. /\ Worth(left, price) \in Int
              /\ left > 0 => Worth(left, price) >= 0
              /\ left < 0 => Worth(left, price) <= 0
            BY <1>1, <1>2 DEF Worth
        <2> HIDE DEF price, sim, paid, change, slip
        <2>4. /\ e1.basis \in Int /\ Sided(left, e1.basis)
              /\ held = 0 => e1.basis = paid
            <3>1. CASE held = 0 \/ Crosses(held, left)
                <4>1. e1.basis = Worth(left, price)
                    BY <1>8, <2>2, <3>1
                <4>2. held = 0 => left = lots
                    BY <1>1
                <4> QED
                    BY <1>1, <1>6, <2>1, <2>3, <4>1, <4>2 DEF Sided
            <3>2. CASE held # 0 /\ ~Crosses(held, left)
                <4>1. Abs(left) > Abs(held) /\ SameSide(held, lots)
                    BY <1>1, <2>1, <2>2, <3>2 DEF Crosses, SameSide, Abs
                <4>2. e1.basis = e.basis + paid
                    BY <1>6, <1>8, <2>2, <3>2, <4>1
                <4> QED
                    BY <1>1, <1>4, <1>6, <2>1, <3>2, <4>1, <4>2 DEF Sided, SameSide
            <3> QED
                BY <3>1, <3>2
        <2>5. /\ Committed(left, e1.basis, s.cost + paid) \in Int
              /\ left > 0 => Committed(left, e1.basis, s.cost + paid) <= Above(s.cost + paid)
              /\ left < 0 => Committed(left, e1.basis, s.cost + paid) <= Above(-(s.cost + paid))
              /\ Committed(left, e1.basis, s.cost + paid) <= Abs(e1.basis)
            <3>1. s.cost + paid \in Int
                BY <1>1, <1>4
            <3> QED
                BY <1>1, <2>4, <3>1, CommittedBounds
        <2> DEFINE now == Committed(left, e1.basis, s.cost + paid)
        <2> HIDE DEF now
        <2>6. now <= Abs(LegOf(held, s.cost) + change) + slip
            <3>1. CASE held = 0
                <4>1. Abs(LegOf(held, s.cost) + change) = Abs(change)
                    BY <1>4, <3>1 DEF LegOf
                <4> QED
                    BY <1>1, <1>4, <1>6, <2>1, <2>4, <2>5, <3>1, <4>1 DEF Abs, now
            <3>2. CASE held # 0
                <4>1. LegOf(held, s.cost) = s.cost
                    BY <3>2 DEF LegOf
                <4> QED
                    BY <1>1, <1>4, <2>1, <2>5, <4>1 DEF Abs, now, Above
            <3> QED
                BY <3>1, <3>2
        <2>7. held + order # 0
            BY <1>1, <2>1
        <2> QED
            BY <1>3, <1>5, <2>2, <2>4, <2>6, <2>7, Zenon DEF now, change, slip
    <1> QED
        BY <1>10, <1>11

-----------------------------------------------------------------------------
(***************************************************************************)
(* The inductive invariant.                                                *)
(***************************************************************************)

IInv == BooksInv /\ MoneyConserved /\ RestartKeepsVerdict

LEMMA InitIInv == Init => IInv
    BY LimitAssumption
       DEF Init, IInv, BooksInv, TypeOK, SameLots, MoneyConserved, RestartKeepsVerdict,
           Ledger, TickerState, Position, EnginePosition, Untouched, NoPosition, NoTrade

LEMMA TradeKeepsIInv ==
    ASSUME IInv, NEW t \in Ticker, NEW desired \in Target, NEW quote \in Price,
           NEW lots, Trade(t, desired, quote, lots)
    PROVE  IInv'
    <1> DEFINE held  == store[t].lots
               price == FillPrice(lots, quote)
               sim   == EnginePrice(held, held + lots, quote)
    <1>1. TypeOK /\ SameLots /\ MoneyConserved /\ RestartKeepsVerdict
        BY DEF IInv, BooksInv
    <1>2. held \in Int /\ desired \in Int /\ desired - held \in Int
        BY <1>1, TradeAssumption DEF TypeOK, Ledger
    <1>3. lots \in Int /\ lots # 0 /\ held + lots \in Int /\ held + lots # held
        BY <1>2, AbsNat DEF Trade, Executions
    <1>4. price \in Int /\ sim \in Int
        BY <1>2, <1>3, FillPriceInt DEF EnginePrice
    <1>5. store' = [store EXCEPT ![t] = Row(@, lots, price)]
        BY DEF Trade
    <1>6. seeded' = [seeded EXCEPT ![t] = Record(@, lots, price)]
        BY DEF Trade
    <1>7. /\ live' = [live EXCEPT ![t] = IF lots = desired - held
                                         THEN Record(@, lots, price) ELSE @]
          /\ missed' = [missed EXCEPT ![t] = @ \/ lots # desired - held]
        BY DEF Trade, Observed
    <1>8. engine' = [engine EXCEPT ![t] = EngineFill(@, held + lots, sim)]
        BY DEF Trade
    <1>9. tested' = [tested EXCEPT ![t] = FeedBreaker(@, held, held + lots, sim)]
        BY DEF Trade
    <1>10. summary' = [summary EXCEPT ![t] = SummaryRecord(@, lots, price)]
        BY DEF Trade
    <1>11. /\ covered' \in [Ticker -> BOOLEAN] /\ trimmed' \in [Ticker -> BOOLEAN]
           /\ missed' \in [Ticker -> BOOLEAN] /\ fills' \in 0 .. MaxFills
        BY <1>1, LimitAssumption DEF Trade, TypeOK
    <1>12. store[t] \in Ledger /\ seeded[t] \in TickerState /\ live[t] \in TickerState
           /\ engine[t] \in EnginePosition /\ tested[t] \in TickerState
           /\ summary[t] \in Position
        BY <1>1 DEF TypeOK
    <1>13. seeded[t].lots = held /\ engine[t].lots = held /\ tested[t].lots = held
        BY <1>1 DEF SameLots
    <1> HIDE DEF price, sim
    <1>14. /\ Row(store[t], lots, price) \in Ledger
           /\ Row(store[t], lots, price).lots = held + lots
           /\ Row(store[t], lots, price).cost + Row(store[t], lots, price).fees
                = store[t].cost + store[t].fees + Paid(lots, price)
        <2> DEFINE cost == lots * price
                   fee  == Commission(lots, price)
        <2>1. cost \in Int /\ fee \in Int /\ Paid(lots, price) = cost + fee
            BY <1>3, <1>4, CommissionInt DEF Paid
        <2>2. Row(store[t], lots, price) =
                 [lots |-> held + lots, cost |-> store[t].cost + cost,
                  fees |-> store[t].fees + fee]
            BY DEF Row
        <2> HIDE DEF cost, fee
        <2> QED
            BY <1>2, <1>3, <1>12, <2>1, <2>2 DEF Ledger
    <1>15. /\ Record(seeded[t], lots, price) \in TickerState
           /\ Record(seeded[t], lots, price).lots = held + lots
           /\ Record(seeded[t], lots, price).basis - Record(seeded[t], lots, price).realized
                = seeded[t].basis - seeded[t].realized + Paid(lots, price)
        <2>1. /\ Record(seeded[t], lots, price) \in TickerState
              /\ Record(seeded[t], lots, price).lots = seeded[t].lots + lots
              /\ Record(seeded[t], lots, price).basis
                   - Record(seeded[t], lots, price).realized
                   = seeded[t].basis - seeded[t].realized + Paid(lots, price)
            BY <1>3, <1>4, <1>12, RecordMoves, Zenon
        <2> QED
            BY <1>13, <2>1, Zenon
    <1>16. Record(live[t], lots, price) \in TickerState
        BY <1>3, <1>4, <1>12, RecordMoves
    <1>17. /\ EngineFill(engine[t], held + lots, sim) \in EnginePosition
           /\ EngineFill(engine[t], held + lots, sim).lots = held + lots
        BY <1>3, <1>4, <1>12, EngineFillMoves
    <1>18. /\ FeedBreaker(tested[t], held, held + lots, sim) \in TickerState
           /\ FeedBreaker(tested[t], held, held + lots, sim).lots = held + lots
        BY <1>2, <1>3, <1>4, <1>12, <1>13, FeedBreakerMoves
    <1>19. SummaryRecord(summary[t], lots, price) \in Position
        BY <1>3, <1>4, <1>12, SummaryRecordType
    <1>20. TypeOK'
        <2>1. store' \in [Ticker -> Ledger]
            BY <1>1, <1>5, <1>14 DEF TypeOK
        <2>2. live' \in [Ticker -> TickerState]
            BY <1>1, <1>7, <1>12, <1>16 DEF TypeOK
        <2>3. seeded' \in [Ticker -> TickerState]
            BY <1>1, <1>6, <1>15 DEF TypeOK
        <2>4. tested' \in [Ticker -> TickerState]
            BY <1>1, <1>9, <1>18 DEF TypeOK
        <2>5. summary' \in [Ticker -> Position]
            BY <1>1, <1>10, <1>19 DEF TypeOK
        <2>6. engine' \in [Ticker -> EnginePosition]
            BY <1>1, <1>8, <1>17 DEF TypeOK
        <2> QED
            BY <1>11, <2>1, <2>2, <2>3, <2>4, <2>5, <2>6 DEF TypeOK
    <1>21. SameLots'
        BY <1>1, <1>5, <1>6, <1>8, <1>9, <1>14, <1>15, <1>17, <1>18 DEF SameLots, TypeOK
    <1>22. MoneyConserved'
        <2> DEFINE paid == Paid(lots, price)
        <2>1. paid \in Int
            BY <1>3, <1>4, PaidInt
        <2>2. seeded[t].basis - seeded[t].realized = store[t].cost + store[t].fees
            BY <1>1 DEF MoneyConserved
        <2> HIDE DEF paid
        <2>3. Record(seeded[t], lots, price).basis - Record(seeded[t], lots, price).realized
                = Row(store[t], lots, price).cost + Row(store[t], lots, price).fees
            BY <1>12, <1>14, <1>15, <2>1, <2>2 DEF paid
        <2>4. ASSUME NEW u \in Ticker
              PROVE  seeded'[u].basis - seeded'[u].realized = store'[u].cost + store'[u].fees
            <3>1. CASE u = t
                BY <1>1, <1>5, <1>6, <2>3, <3>1 DEF TypeOK
            <3>2. CASE u # t
                BY <1>1, <1>5, <1>6, <3>2 DEF TypeOK, MoneyConserved
            <3> QED
                BY <3>1, <3>2
        <2> QED
            BY <2>4 DEF MoneyConserved
    <1>23. RestartKeepsVerdict'
        <2>1. ASSUME NEW u \in Ticker
              PROVE  missed'[u] \/ live'[u] = seeded'[u]
            <3>1. missed[u] \/ live[u] = seeded[u]
                BY <1>1 DEF RestartKeepsVerdict
            <3>2. CASE u = t
                BY <1>1, <1>6, <1>7, <3>1, <3>2 DEF TypeOK
            <3>3. CASE u # t
                BY <1>1, <1>6, <1>7, <3>1, <3>3 DEF TypeOK
            <3> QED
                BY <3>2, <3>3
        <2> QED
            BY <2>1 DEF RestartKeepsVerdict
    <1> QED
        BY <1>20, <1>21, <1>22, <1>23 DEF IInv, BooksInv

LEMMA RestartKeepsIInv == IInv /\ Restart => IInv'
    BY DEF IInv, Restart, BooksInv, TypeOK, SameLots, MoneyConserved, RestartKeepsVerdict

LEMMA RestartUnreadKeepsIInv == IInv /\ RestartUnread => IInv'
    <1>1. Untouched \in TickerState
        BY DEF Untouched, TickerState
    <1> QED
        BY <1>1 DEF IInv, RestartUnread, BooksInv, TypeOK, SameLots, MoneyConserved,
                    RestartKeepsVerdict

LEMMA NextKeepsIInv == IInv /\ [Next]_vars => IInv'
    <1> SUFFICES ASSUME IInv, [Next]_vars
                 PROVE  IInv'
        OBVIOUS
    <1>1. CASE UNCHANGED vars
        BY <1>1 DEF vars, IInv, BooksInv, TypeOK, SameLots, MoneyConserved, RestartKeepsVerdict
    <1>2. ASSUME NEW t \in Ticker, NEW desired \in Target, NEW quote \in Price,
                 NEW lots \in Executions(desired - store[t].lots),
                 Trade(t, desired, quote, lots)
          PROVE  IInv'
        BY <1>2, TradeKeepsIInv
    <1>3. CASE Restart
        BY <1>3, RestartKeepsIInv
    <1>4. CASE RestartUnread
        BY <1>4, RestartUnreadKeepsIInv
    <1> QED
        BY <1>1, <1>2, <1>3, <1>4 DEF Next

LEMMA SpecKeepsIInv == Spec => []IInv
    BY InitIInv, NextKeepsIInv, PTL DEF Spec

(* A trade changes the books of its ticker, and of no other.               *)
LEMMA TradeDoes ==
    ASSUME IInv, NEW t \in Ticker, NEW desired \in Target, NEW quote \in Price,
           NEW lots, Trade(t, desired, quote, lots)
    PROVE  LET held  == store[t].lots
               price == FillPrice(lots, quote)
               sim   == EnginePrice(held, held + lots, quote)
           IN /\ held \in Int /\ desired \in Int /\ lots \in Int /\ lots # 0
              /\ lots \in Executions(desired - held)
              /\ store'[t] = Row(store[t], lots, price)
              /\ seeded'[t] = Record(seeded[t], lots, price)
              /\ summary'[t] = SummaryRecord(summary[t], lots, price)
              /\ engine'[t] = EngineFill(engine[t], held + lots, sim)
              /\ tested'[t] = FeedBreaker(tested[t], held, held + lots, sim)
              /\ covered'[t] = (covered[t] \/ (held < 0 /\ lots > 0 /\ held + lots <= 0))
              /\ trimmed'[t] = (trimmed[t] \/ Trims(held, lots))
              /\ \A u \in Ticker \ {t} :
                    /\ store'[u] = store[u] /\ seeded'[u] = seeded[u]
                    /\ summary'[u] = summary[u] /\ engine'[u] = engine[u]
                    /\ tested'[u] = tested[u] /\ covered'[u] = covered[u]
                    /\ trimmed'[u] = trimmed[u]
    <1> DEFINE held  == store[t].lots
               price == FillPrice(lots, quote)
               sim   == EnginePrice(held, held + lots, quote)
    <1>1. TypeOK
        BY DEF IInv, BooksInv
    <1>2. held \in Int /\ desired \in Int /\ desired - held \in Int
        BY <1>1, TradeAssumption DEF TypeOK, Ledger
    <1>3. lots \in Int /\ lots # 0 /\ lots \in Executions(desired - held)
        BY <1>2, AbsNat DEF Trade, Executions
    <1>4. /\ store' = [store EXCEPT ![t] = Row(@, lots, price)]
          /\ seeded' = [seeded EXCEPT ![t] = Record(@, lots, price)]
          /\ summary' = [summary EXCEPT ![t] = SummaryRecord(@, lots, price)]
          /\ engine' = [engine EXCEPT ![t] = EngineFill(@, held + lots, sim)]
          /\ tested' = [tested EXCEPT ![t] = FeedBreaker(@, held, held + lots, sim)]
          /\ covered' = [covered EXCEPT ![t] = @ \/ (held < 0 /\ lots > 0 /\ held + lots <= 0)]
          /\ trimmed' = [trimmed EXCEPT ![t] = @ \/ (~SameSide(held, lots)
                           /\ SameSide(held, held + lots) /\ held + lots # 0 /\ held # 0)]
        BY DEF Trade
    <1>5. trimmed'[t] = (trimmed[t] \/ Trims(held, lots))
        BY <1>1, <1>4 DEF TypeOK, Trims
    <1> HIDE DEF held, price, sim
    <1>6. /\ store'[t] = Row(store[t], lots, price)
          /\ seeded'[t] = Record(seeded[t], lots, price)
          /\ summary'[t] = SummaryRecord(summary[t], lots, price)
          /\ engine'[t] = EngineFill(engine[t], held + lots, sim)
          /\ tested'[t] = FeedBreaker(tested[t], held, held + lots, sim)
          /\ covered'[t] = (covered[t] \/ (held < 0 /\ lots > 0 /\ held + lots <= 0))
        BY <1>1, <1>4 DEF TypeOK
    <1>7. \A u \in Ticker \ {t} :
             /\ store'[u] = store[u] /\ seeded'[u] = seeded[u]
             /\ summary'[u] = summary[u] /\ engine'[u] = engine[u]
             /\ tested'[u] = tested[u] /\ covered'[u] = covered[u]
             /\ trimmed'[u] = trimmed[u]
        BY <1>1, <1>4 DEF TypeOK
    <1> QED
        BY <1>2, <1>3, <1>5, <1>6, <1>7, Zenon DEF held, price, sim

(* Steps that are no trade change only the live breaker and `missed`.      *)
Kept == <<store, seeded, summary, engine, tested, covered, trimmed>>

LEMMA OtherSteps ==
    ASSUME [Next]_vars,
           ~ \E t \in Ticker, desired \in Target, quote \in Price :
                \E lots \in Executions(desired - store[t].lots) : Trade(t, desired, quote, lots)
    PROVE  UNCHANGED Kept
    BY DEF Next, Restart, RestartUnread, vars, Kept

-----------------------------------------------------------------------------
(***************************************************************************)
(* The summary.                                                            *)
(***************************************************************************)

SummaryInv == \A t \in Ticker : covered[t] \/ Alike(summary[t], seeded[t])

LEMMA InitSummary == Init => SummaryInv
    BY DEF Init, SummaryInv, Alike, NoPosition, Untouched

LEMMA NextKeepsSummary == IInv /\ SummaryInv /\ [Next]_vars => SummaryInv'
    <1> SUFFICES ASSUME IInv, SummaryInv, [Next]_vars
                 PROVE  SummaryInv'
        OBVIOUS
    <1>1. ASSUME NEW t \in Ticker, NEW desired \in Target, NEW quote \in Price,
                 NEW lots \in Executions(desired - store[t].lots),
                 Trade(t, desired, quote, lots)
          PROVE  SummaryInv'
        <2>1. ASSUME NEW u \in Ticker
              PROVE  covered'[u] \/ Alike(summary'[u], seeded'[u])
            <3>1. covered[u] \/ Alike(summary[u], seeded[u])
                BY DEF SummaryInv
            <3>2. CASE u # t
                BY <1>1, <3>1, <3>2, TradeDoes
            <3>3. CASE u = t
                <4> DEFINE price == FillPrice(lots, quote)
                           held  == store[t].lots
                           cover == held < 0 /\ lots > 0 /\ held + lots <= 0
                <4>1. /\ lots \in Int /\ lots # 0
                      /\ seeded'[t] = Record(seeded[t], lots, price)
                      /\ summary'[t] = SummaryRecord(summary[t], lots, price)
                      /\ covered'[t] = (covered[t] \/ cover)
                    BY <1>1, TradeDoes
                <4>2. price \in Int
                    BY <4>1, FillPriceInt
                <4>3. summary[t] \in Position /\ seeded[t] \in TickerState /\ seeded[t].lots = held
                    BY DEF IInv, BooksInv, TypeOK, SameLots
                <4>4. CASE covered[t] \/ cover
                    BY <3>3, <4>1, <4>4
                <4>5. CASE ~covered[t] /\ ~cover
                    <5>1. Alike(summary[t], seeded[t])
                        BY <3>1, <3>3, <4>5
                    <5>2. ~(seeded[t].lots < 0 /\ lots > 0 /\ seeded[t].lots + lots <= 0)
                        BY <4>3, <4>5
                    <5> HIDE DEF price
                    <5>3. Alike(SummaryRecord(summary[t], lots, price),
                                Record(seeded[t], lots, price))
                        BY <4>1, <4>2, <4>3, <5>1, <5>2, SummaryFollows
                    <5> QED
                        BY <3>3, <4>1, <5>3
                <4> QED
                    BY <4>4, <4>5
            <3> QED
                BY <3>2, <3>3
        <2> QED
            BY <2>1 DEF SummaryInv
    <1>2. CASE ~ \E t \in Ticker, desired \in Target, quote \in Price :
                    \E lots \in Executions(desired - store[t].lots) :
                       Trade(t, desired, quote, lots)
        BY <1>2, OtherSteps DEF SummaryInv, Kept
    <1> QED
        BY <1>1, <1>2

-----------------------------------------------------------------------------
(***************************************************************************)
(* The backtest.                                                           *)
(***************************************************************************)

BacktestInv == \A t \in Ticker : Apart(seeded[t], engine[t], tested[t], trimmed[t])

LEMMA InitBacktest == Init => BacktestInv
    BY DEF Init, BacktestInv, Apart, Lag, Gain, NoTrade, Untouched

LEMMA NextKeepsBacktest == IInv /\ BacktestInv /\ [Next]_vars => BacktestInv'
    <1> SUFFICES ASSUME IInv, BacktestInv, [Next]_vars
                 PROVE  BacktestInv'
        OBVIOUS
    <1>1. ASSUME NEW t \in Ticker, NEW desired \in Target, NEW quote \in Price,
                 NEW lots \in Executions(desired - store[t].lots),
                 Trade(t, desired, quote, lots)
          PROVE  BacktestInv'
        <2>1. ASSUME NEW u \in Ticker
              PROVE  Apart(seeded'[u], engine'[u], tested'[u], trimmed'[u])
            <3>1. Apart(seeded[u], engine[u], tested[u], trimmed[u])
                BY DEF BacktestInv
            <3>2. CASE u # t
                BY <1>1, <3>1, <3>2, TradeDoes
            <3>3. CASE u = t
                <4> DEFINE held == store[t].lots
                           sim  == EnginePrice(held, held + lots, quote)
                <4>1. /\ lots \in Int /\ lots # 0
                      /\ seeded'[t] = Record(seeded[t], lots, FillPrice(lots, quote))
                      /\ engine'[t] = EngineFill(engine[t], held + lots, sim)
                      /\ tested'[t] = FeedBreaker(tested[t], held, held + lots, sim)
                      /\ trimmed'[t] = (trimmed[t] \/ Trims(held, lots))
                    BY <1>1, TradeDoes
                <4>2. /\ seeded[t] \in TickerState /\ engine[t] \in EnginePosition
                      /\ tested[t] \in TickerState /\ trimmed[t] \in BOOLEAN
                      /\ seeded[t].lots = held /\ engine[t].lots = held /\ tested[t].lots = held
                    BY DEF IInv, BooksInv, TypeOK, SameLots
                <4> HIDE DEF held
                <4>3. Apart(seeded'[t], engine'[t], tested'[t], trimmed[t] \/ Trims(held, lots))
                    <5> DEFINE s == seeded[t]
                               e == engine[t]
                               b == tested[t]
                               trim == trimmed[t]
                               left == s.lots + lots
                               price == EnginePrice(s.lots, left, quote)
                    <5>1. /\ s \in TickerState /\ e \in EnginePosition /\ b \in TickerState
                          /\ trim \in BOOLEAN /\ e.lots = s.lots /\ b.lots = s.lots
                          /\ Apart(s, e, b, trim)
                        BY <3>1, <3>3, <4>2
                    <5>2. /\ seeded'[t] = Record(s, lots, FillPrice(lots, quote))
                          /\ engine'[t] = EngineFill(e, left, price)
                          /\ tested'[t] = FeedBreaker(b, s.lots, left, price)
                        BY <4>1, <4>2
                    <5> HIDE DEF s, e, b, trim
                    <5>3. Apart(seeded'[t], engine'[t], tested'[t], trim \/ Trims(s.lots, lots))
                        BY <4>1, <5>1, <5>2, FillsKeepApart
                    <5> QED
                        BY <4>2, <5>3 DEF s, trim
                <4> QED
                    BY <3>3, <4>1, <4>3
            <3> QED
                BY <3>2, <3>3
        <2> QED
            BY <2>1 DEF BacktestInv
    <1>2. CASE ~ \E t \in Ticker, desired \in Target, quote \in Price :
                    \E lots \in Executions(desired - store[t].lots) :
                       Trade(t, desired, quote, lots)
        BY <1>2, OtherSteps DEF BacktestInv, Kept
    <1> QED
        BY <1>1, <1>2

LEMMA BacktestFollows == IInv /\ BacktestInv => BacktestAgrees
    <1> SUFFICES ASSUME IInv, BacktestInv, NEW t \in Ticker
                 PROVE  IF trimmed[t]
                        THEN /\ engine[t].realized >= seeded[t].realized
                             /\ engine[t].lots = 0 => engine[t].realized > seeded[t].realized
                        ELSE /\ engine[t].realized = seeded[t].realized
                             /\ engine[t].basis + engine[t].comm = seeded[t].basis
                             /\ tested[t] = seeded[t]
        BY DEF BacktestAgrees
    <1>1. /\ seeded[t] \in TickerState /\ engine[t] \in EnginePosition
          /\ engine[t].lots = store[t].lots /\ seeded[t].lots = store[t].lots
        BY DEF IInv, BooksInv, TypeOK, SameLots
    <1>2. Apart(seeded[t], engine[t], tested[t], trimmed[t])
        BY DEF BacktestInv
    <1>3. /\ seeded[t].lots = engine[t].lots
          /\ seeded[t].basis \in Int /\ seeded[t].realized \in Int
          /\ engine[t].basis \in Int /\ engine[t].comm \in Int /\ engine[t].realized \in Int
        BY <1>1 DEF TickerState, EnginePosition
    <1>4. CASE trimmed[t]
        <2>1. /\ 0 <= Lag(seeded[t], engine[t])
              /\ Lag(seeded[t], engine[t]) <= Gain(seeded[t], engine[t])
              /\ Gain(seeded[t], engine[t]) >= 1
              /\ seeded[t].lots = 0 =>
                    seeded[t].basis = 0 /\ engine[t].basis = 0 /\ engine[t].comm = 0
            BY <1>2, <1>4 DEF Apart
        <2>2. /\ engine[t].realized >= seeded[t].realized
              /\ engine[t].lots = 0 => engine[t].realized > seeded[t].realized
            <3> DEFINE a == seeded[t].basis
                       b == engine[t].basis
                       c == engine[t].comm
                       x == seeded[t].realized
                       y == engine[t].realized
            <3>1. /\ 0 <= a - (b + c) /\ a - (b + c) <= (a - x) - (b + c - y)
                  /\ (a - x) - (b + c - y) >= 1
                  /\ engine[t].lots = 0 => a = 0 /\ b = 0 /\ c = 0
                BY <1>3, <2>1 DEF Lag, Gain
            <3> HIDE DEF a, b, c, x, y
            <3>2. a \in Int /\ b \in Int /\ c \in Int /\ x \in Int /\ y \in Int
                BY <1>3 DEF a, b, c, x, y
            <3>3. y >= x
                BY <3>1, <3>2
            <3>4. a = 0 /\ b = 0 /\ c = 0 => y > x
                BY <3>1, <3>2
            <3> QED
                BY <3>1, <3>3, <3>4, Zenon DEF x, y
        <2> QED
            BY <1>4, <2>2
    <1>5. CASE ~trimmed[t]
        <2>1. /\ Lag(seeded[t], engine[t]) = 0 /\ Gain(seeded[t], engine[t]) = 0
              /\ tested[t] = seeded[t]
            BY <1>2, <1>5 DEF Apart
        <2>2. /\ engine[t].realized = seeded[t].realized
              /\ engine[t].basis + engine[t].comm = seeded[t].basis
            <3> DEFINE a == seeded[t].basis
                       b == engine[t].basis
                       c == engine[t].comm
                       x == seeded[t].realized
                       y == engine[t].realized
            <3>1. a - (b + c) = 0 /\ (a - x) - (b + c - y) = 0
                BY <2>1 DEF Lag, Gain
            <3> HIDE DEF a, b, c, x, y
            <3>2. a \in Int /\ b \in Int /\ c \in Int /\ x \in Int /\ y \in Int
                BY <1>3 DEF a, b, c, x, y
            <3>3. y = x /\ b + c = a
                BY <3>1, <3>2
            <3> QED
                BY <3>3, Zenon DEF a, b, c, x, y
        <2> QED
            BY <1>5, <2>1, <2>2
    <1> QED
        BY <1>4, <1>5

-----------------------------------------------------------------------------
(***************************************************************************)
(* The cap on gross exposure.                                              *)
(***************************************************************************)

Commit == [t \in Ticker |-> Committed(store[t].lots, engine[t].basis, store[t].cost)]
Size == [t \in Ticker |-> Abs(Leg(t))]

SmallLots == \A t \in Ticker : Abs(store[t].lots) <= MaxLots
EngineSided ==
    \A t \in Ticker : /\ Sided(store[t].lots, engine[t].basis)
                      /\ store[t].lots = 0 => engine[t].comm = 0
CommitmentsCapped ==
    MaxNetExposure > 0 =>
       \E quote \in Price \cup {0} :
          SumFunctionOnSet(Commit, Ticker) <= MaxNetExposure + Slippage(quote)

CapInv == SmallLots /\ EngineSided /\ CommitmentsCapped

LEMMA SlippageNat ==
    ASSUME NEW quote \in Price \cup {0}
    PROVE  Slippage(quote) \in Nat
    <1>1. quote \in Nat /\ SpreadDivisor \in Nat \ {0} /\ MaxLots \in Nat
        BY TradeAssumption, LimitAssumption
    <1>2. quote \div SpreadDivisor \in Nat
        BY <1>1
    <1> QED
        BY <1>1, <1>2 DEF Slippage

LEMMA InitCap == Init => CapInv
    <1> SUFFICES ASSUME Init
                 PROVE  CapInv
        OBVIOUS
    <1>1. SmallLots
        BY LimitAssumption DEF Init, SmallLots, Abs
    <1>2. EngineSided
        BY DEF Init, EngineSided, Sided, NoTrade
    <1>3. ASSUME NEW t \in Ticker
          PROVE  Commit[t] = 0
        <2>1. Commit[t] = Committed(0, 0, 0)
            BY DEF Init, Commit, NoTrade
        <2>2. \A n \in Int : n + n = n => Committed(n, n, n) = n
            BY DEF Committed, Abs
        <2>3. Committed(0, 0, 0) = 0
            BY <2>2
        <2> QED
            BY <2>1, <2>3
    <1> DEFINE sum == SumFunctionOnSet(Commit, Ticker)
    <1>4. sum = sum + sum
        <2>1. \A t \in Ticker : Commit[t] \in Int /\ Commit[t] = Commit[t] + Commit[t]
            BY <1>3
        <2> QED
            BY <2>1, TickerAssumption, SumPlus
    <1>5. sum \in Int
        BY <1>3, TickerAssumption, SumInt
    <1> HIDE DEF sum
    <1>6. sum = 0
        BY <1>4, <1>5
    <1>7. 0 \in Price \cup {0} /\ Slippage(0) \in Nat /\ MaxNetExposure \in Nat
        BY SlippageNat, LimitAssumption
    <1>8. CommitmentsCapped
        <2>1. SumFunctionOnSet(Commit, Ticker) <= MaxNetExposure + Slippage(0)
            BY <1>6, <1>7 DEF sum
        <2> QED
            BY <1>7, <2>1 DEF CommitmentsCapped
    <1> QED
        BY <1>1, <1>2, <1>8 DEF CapInv

\* What the positions commit, they commit within the legs.
LEMMA CommitTypes ==
    ASSUME IInv
    PROVE  \A t \in Ticker : /\ store[t] \in Ledger /\ engine[t] \in EnginePosition
                             /\ engine[t].lots = store[t].lots
                             /\ Commit[t] \in Int /\ Size[t] \in Int
                             /\ Commit[t] <= Size[t]
                             /\ Leg(t) = LegOf(store[t].lots, store[t].cost)
    <1> TAKE t \in Ticker
    <1>1. store[t] \in Ledger /\ engine[t] \in EnginePosition /\ engine[t].lots = store[t].lots
        BY DEF IInv, BooksInv, TypeOK, SameLots
    <1> DEFINE lots == store[t].lots
               cost == store[t].cost
               basis == engine[t].basis
    <1>2. lots \in Int /\ cost \in Int /\ basis \in Int
        BY <1>1 DEF Ledger, EnginePosition
    <1>3. Commit[t] = Committed(lots, basis, cost) /\ Leg(t) = LegOf(lots, cost)
          /\ Size[t] = Abs(LegOf(lots, cost))
        BY DEF Commit, Leg, LegOf, Size
    <1> HIDE DEF lots, cost, basis
    <1>4. /\ Committed(lots, basis, cost) \in Int
          /\ Committed(lots, basis, cost) <= Abs(LegOf(lots, cost))
        BY <1>2, CommittedBounds DEF LegOf
    <1>5. Abs(LegOf(lots, cost)) \in Int
        BY <1>2 DEF Abs, LegOf
    <1> QED
        BY <1>1, <1>3, <1>4, <1>5, Zenon DEF lots, cost

(* The gate saw the legs of the other tickers, and the leg of this one as  *)
(* the order would make it.                                                *)
LEMMA GateSees ==
    ASSUME IInv, NEW t \in Ticker, NEW change \in Int, MaxNetExposure > 0,
           ~ExceedsMaxNetExposure(t, change)
    PROVE  SumFunctionOnSet(Commit, Ticker \ {t})
             + Abs(LegOf(store[t].lots, store[t].cost) + change) <= MaxNetExposure
    <1> DEFINE rest == Ticker \ {t}
               grown == Abs(LegOf(store[t].lots, store[t].cost) + change)
    <1>1. IsFiniteSet(rest)
        BY TickerAssumption, FS_Subset
    <1>2. SumFunctionOnSet(Commit, rest) <= SumFunctionOnSet(Size, rest)
        BY <1>1, CommitTypes, SumMonotonic
    <1>3. SumFunctionOnSet(Commit, rest) \in Int /\ SumFunctionOnSet(Size, rest) \in Int
        BY <1>1, CommitTypes, SumInt
    <1>4. Projected(Ticker, t, change) = SumFunctionOnSet(Size, rest) + grown
        BY CommitTypes DEF Projected, SumSizes, Size
    <1>5. grown \in Int
        BY CommitTypes DEF LegOf, Ledger, Abs
    <1> HIDE DEF grown, rest
    <1>6. Projected(Ticker, t, change) <= MaxNetExposure
        BY <1>3, <1>4, <1>5, LimitAssumption DEF ExceedsMaxNetExposure
    <1>7. SumFunctionOnSet(Commit, rest) + grown <= MaxNetExposure
        BY <1>2, <1>3, <1>4, <1>5, <1>6, LimitAssumption
    <1> QED
        BY <1>7, Zenon DEF grown, rest

LEMMA TradeKeepsCap ==
    ASSUME IInv, CapInv, NEW t \in Ticker, NEW desired \in Target, NEW quote \in Price,
           NEW lots, Trade(t, desired, quote, lots)
    PROVE  CapInv'
    <1> DEFINE held   == store[t].lots
               order  == desired - held
               size   == LotSize[t]
               price  == FillPrice(lots, quote)
               change == order * size * quote
               slip   == Abs(lots) * (quote \div SpreadDivisor)
    <1>1. /\ held \in Int /\ desired \in Int /\ lots \in Int /\ lots # 0 /\ order \in Int
          /\ lots \in Executions(order)
          /\ store'[t] = Row(store[t], lots, price)
          /\ engine'[t] = EngineFill(engine[t], held + lots, EnginePrice(held, held + lots, quote))
        BY TradeDoes
    <1>2. \A u \in Ticker \ {t} : store'[u] = store[u] /\ engine'[u] = engine[u]
        BY TradeDoes
    <1>3. /\ store[t] \in Ledger /\ engine[t] \in EnginePosition /\ engine[t].lots = held
        BY CommitTypes
    <1>4. Sided(held, engine[t].basis) /\ (held = 0 => engine[t].comm = 0)
        BY DEF CapInv, EngineSided
    <1>5. size \in Nat \ {0} /\ quote \in Nat \ {0} /\ SpreadDivisor \in Nat \ {0}
          /\ MaxLots \in Nat /\ MaxNetExposure \in Nat
        BY TradeAssumption, LimitAssumption
    <1>6. /\ Sided(store'[t].lots, engine'[t].basis)
          /\ store'[t].lots = 0 => engine'[t].comm = 0
          /\ \/ Committed(store'[t].lots, engine'[t].basis, store'[t].cost)
                  <= Committed(held, engine[t].basis, store[t].cost)
             \/ /\ held + order # 0
                /\ change # 0
                /\ Committed(store'[t].lots, engine'[t].basis, store'[t].cost)
                     <= Abs(LegOf(held, store[t].cost) + change) + slip
        <2> HIDE DEF order
        <2> QED
            BY <1>1, <1>3, <1>4, <1>5, FillCommits
    <1>7. store'[t].lots = held + lots
        BY <1>1 DEF Row
    <1>8. /\ Abs(held) <= MaxLots /\ Abs(desired) <= MaxLots /\ ~live[t].tripped
          /\ (desired # 0 /\ change # 0) => ~ExceedsMaxNetExposure(t, change)
        BY DEF Trade, Approved, CapInv, SmallLots
    <1>9. Abs(lots) \in Nat /\ Abs(lots) <= 2 * MaxLots /\ Abs(held + lots) <= MaxLots
        BY <1>1, <1>5, <1>8, AbsNat DEF Executions, SameSide, Abs
    <1>10. change \in Int /\ slip \in Nat
        BY <1>1, <1>5, ChangeCovers
    <1>11. slip <= Slippage(quote) /\ Slippage(quote) \in Nat
        <2> DEFINE spread == quote \div SpreadDivisor
                   two == 2 * MaxLots
        <2>1. spread \in Nat /\ two \in Nat
            BY <1>5
        <2> HIDE DEF spread, two
        <2>2. spread * Abs(lots) <= spread * two
            BY <1>5, <1>9, <2>1, TimesMonotonic DEF two
        <2>3. spread * Abs(lots) = Abs(lots) * spread /\ spread * two = two * spread
            BY <1>9, <2>1
        <2> QED
            BY <2>2, <2>3, SlippageNat DEF spread, two, Slippage
    <1> HIDE DEF price, slip
    <1>12. SmallLots'
        BY <1>2, <1>7, <1>9 DEF CapInv, SmallLots
    <1>13. EngineSided'
        BY <1>2, <1>6 DEF CapInv, EngineSided
    <1>14. IInv'
        BY TradeKeepsIInv
    <1> DEFINE now == SumFunctionOnSet(Commit', Ticker)
               was == SumFunctionOnSet(Commit, Ticker)
               rest == SumFunctionOnSet(Commit, Ticker \ {t})
    <1>15. /\ now = Commit'[t] + rest
           /\ was = Commit[t] + rest
           /\ rest \in Int /\ Commit[t] \in Int /\ Commit'[t] \in Int
        <2>1. \A u \in Ticker : Commit[u] \in Int
            BY CommitTypes
        <2>2. \A u \in Ticker : Commit'[u] \in Int
            <3>1. \A u \in Ticker : store'[u] \in Ledger /\ engine'[u] \in EnginePosition
                BY <1>14 DEF IInv, BooksInv, TypeOK
            <3>2. ASSUME NEW u \in Ticker
                  PROVE  Commit'[u] \in Int
                <4>1. /\ store'[u].lots \in Int /\ store'[u].cost \in Int
                      /\ engine'[u].basis \in Int
                    BY <3>1 DEF Ledger, EnginePosition
                <4>2. Committed(store'[u].lots, engine'[u].basis, store'[u].cost) \in Int
                    BY <4>1, CommittedBounds
                <4> QED
                    BY <4>2 DEF Commit
            <3> QED
                BY <3>2
        <2>3. \A u \in Ticker \ {t} : Commit'[u] = Commit[u]
            BY <1>2 DEF Commit
        <2>4. IsFiniteSet(Ticker \ {t})
            BY TickerAssumption, FS_Subset
        <2>5. rest = SumFunctionOnSet(Commit', Ticker \ {t})
            BY <2>1, <2>3, <2>4, SumSame
        <2>6. now = Commit'[t] + SumFunctionOnSet(Commit', Ticker \ {t})
            BY <2>2, TickerAssumption, SumRemove
        <2>7. was = Commit[t] + rest
            BY <2>1, TickerAssumption, SumRemove
        <2>8. rest \in Int
            BY <2>1, <2>4, SumInt
        <2> QED
            BY <2>1, <2>2, <2>5, <2>6, <2>7, <2>8
    <1>16. /\ Commit[t] = Committed(held, engine[t].basis, store[t].cost)
           /\ Commit'[t] = Committed(store'[t].lots, engine'[t].basis, store'[t].cost)
        BY DEF Commit
    <1>17. CommitmentsCapped'
        <2> SUFFICES ASSUME MaxNetExposure > 0
                     PROVE  \E q \in Price \cup {0} : now <= MaxNetExposure + Slippage(q)
            BY DEF CommitmentsCapped, Slippage
        <2>1. CASE Commit'[t] <= Commit[t]
            <3>1. PICK q \in Price \cup {0} : was <= MaxNetExposure + Slippage(q)
                BY DEF CapInv, CommitmentsCapped
            <3>2. Slippage(q) \in Nat
                BY SlippageNat
            <3> HIDE DEF now, was, rest
            <3>3. now <= MaxNetExposure + Slippage(q)
                BY <1>5, <1>15, <2>1, <3>1, <3>2
            <3> QED
                BY <3>3
        <2>2. CASE ~(Commit'[t] <= Commit[t])
            <3> DEFINE grown == Abs(LegOf(held, store[t].cost) + change)
            <3>1. held + order # 0 /\ change # 0 /\ Commit'[t] <= grown + slip
                BY <1>6, <1>16, <2>2
            <3>2. desired # 0
                BY <1>1, <3>1
            <3>3. ~ExceedsMaxNetExposure(t, change)
                BY <1>8, <3>1, <3>2
            <3>4. rest + grown <= MaxNetExposure
                <4> HIDE DEF change
                <4> QED
                    BY <1>10, <3>3, GateSees
            <3>5. grown \in Int
                BY <1>3, <1>10 DEF Ledger, LegOf, Abs
            <3> HIDE DEF grown, now, rest
            <3>6. now <= MaxNetExposure + Slippage(quote)
                BY <1>5, <1>10, <1>11, <1>15, <3>1, <3>4, <3>5
            <3> QED
                BY <3>6
        <2> QED
            BY <2>1, <2>2
    <1> QED
        BY <1>12, <1>13, <1>17 DEF CapInv

LEMMA NextKeepsCap == IInv /\ CapInv /\ [Next]_vars => CapInv'
    <1> SUFFICES ASSUME IInv, CapInv, [Next]_vars
                 PROVE  CapInv'
        OBVIOUS
    <1>1. ASSUME NEW t \in Ticker, NEW desired \in Target, NEW quote \in Price,
                 NEW lots \in Executions(desired - store[t].lots),
                 Trade(t, desired, quote, lots)
          PROVE  CapInv'
        BY <1>1, TradeKeepsCap
    <1>2. CASE ~ \E t \in Ticker, desired \in Target, quote \in Price :
                    \E lots \in Executions(desired - store[t].lots) :
                       Trade(t, desired, quote, lots)
        BY <1>2, OtherSteps
           DEF Kept, CapInv, SmallLots, EngineSided, CommitmentsCapped, Commit, Slippage
    <1> QED
        BY <1>1, <1>2

LEMMA CapFollows == IInv /\ CapInv => CapUpToRealized
    <1> SUFFICES ASSUME IInv, CapInv, MaxNetExposure > 0
                 PROVE  CapUpToRealized
        BY DEF CapUpToRealized
    <1> DEFINE held  == [t \in Ticker |-> Abs(engine[t].basis)]
               gross == [t \in Ticker |-> Hidden(t)]
               both  == [t \in Ticker |-> Commit[t] + gross[t]]
    <1>1. \A t \in Ticker : /\ held[t] \in Int /\ gross[t] \in Int /\ Commit[t] \in Int
                            /\ held[t] <= both[t]
        <2> TAKE t \in Ticker
        <2> DEFINE lots == store[t].lots
                   cost == store[t].cost
                   basis == engine[t].basis
        <2>1. lots \in Int /\ cost \in Int /\ basis \in Int /\ Commit[t] \in Int
            BY CommitTypes DEF Ledger, EnginePosition
        <2>2. Sided(lots, basis)
            BY DEF CapInv, EngineSided
        <2>3. Commit[t] = Committed(lots, basis, cost) /\ held[t] = Abs(basis)
            BY DEF Commit
        <2>4. gross[t] = HiddenOf(lots, basis, cost)
            BY <2>1 DEF Hidden, HiddenOf, Leg, Above
        <2>5. Abs(basis) \in Int
            BY <2>1 DEF Abs
        <2> HIDE DEF lots, cost, basis
        <2>6. /\ HiddenOf(lots, basis, cost) \in Int
              /\ Abs(basis) <= Committed(lots, basis, cost) + HiddenOf(lots, basis, cost)
            BY <2>1, <2>2, CommittedBounds
        <2> QED
            BY <2>1, <2>3, <2>4, <2>5, <2>6
    <1>2. PICK q \in Price \cup {0} :
             SumFunctionOnSet(Commit, Ticker) <= MaxNetExposure + Slippage(q)
        BY DEF CapInv, CommitmentsCapped
    <1> HIDE DEF held, gross
    <1>3. SumFunctionOnSet(held, Ticker) <= SumFunctionOnSet(both, Ticker)
        <2>1. \A t \in Ticker : held[t] \in Int /\ both[t] \in Int /\ held[t] <= both[t]
            BY <1>1
        <2> HIDE DEF both
        <2> QED
            BY <2>1, TickerAssumption, SumMonotonic
    <1>4. SumFunctionOnSet(both, Ticker)
            = SumFunctionOnSet(Commit, Ticker) + SumFunctionOnSet(gross, Ticker)
        <2>1. \A t \in Ticker : /\ Commit[t] \in Int /\ gross[t] \in Int
                                /\ both[t] = Commit[t] + gross[t]
            BY <1>1
        <2> HIDE DEF both
        <2> QED
            BY <2>1, TickerAssumption, SumPlus
    <1>5. /\ SumFunctionOnSet(held, Ticker) \in Int /\ SumFunctionOnSet(gross, Ticker) \in Int
          /\ SumFunctionOnSet(Commit, Ticker) \in Int
        BY <1>1, TickerAssumption, SumInt
    <1>6. Slippage(q) \in Nat /\ MaxNetExposure \in Nat
        BY SlippageNat, LimitAssumption
    <1>7. SumFunctionOnSet(held, Ticker)
            <= MaxNetExposure + SumFunctionOnSet(gross, Ticker) + Slippage(q)
        BY <1>2, <1>3, <1>4, <1>5, <1>6
    <1> QED
        BY <1>7 DEF CapUpToRealized, held, gross

-----------------------------------------------------------------------------
(***************************************************************************)
(* Results.                                                                *)
(***************************************************************************)

(* The ledger, the breaker seeded from it, the backtest and its breaker    *)
(* hold the same position whatever is filled, in whole or in part: none of *)
(* the four ways the code splits a fill loses a lot.                       *)
THEOREM BooksAgree == Spec => []BooksInv
    BY SpecKeepsIInv, PTL DEF IInv

(* Average cost accounting moves money between a position and its realized *)
(* result and never makes or loses any, whatever the rounding of averages: *)
(* what the ledger's leg leaves out is what the name has realized.         *)
THEOREM MoneyIsConserved == Spec => []MoneyConserved
    BY SpecKeepsIInv, PTL DEF IInv

(* A restart that reads the log leaves the breaker's verdict on a name as  *)
(* it was, if every order of the name was filled whole.                    *)
THEOREM RestartsKeepVerdicts == Spec => []RestartKeepsVerdict
    BY SpecKeepsIInv, PTL DEF IInv

(* The daily summary and the P&L replay hold the lots, the cost and the    *)
(* result the breaker holds, though they split a fill otherwise, until a   *)
(* buy reduces a short.                                                    *)
THEOREM SummaryAgreesWithBreaker == Spec => []SummaryAgrees
    <1>1. SummaryInv => SummaryAgrees
        BY DEF SummaryInv, SummaryAgrees, Alike
    <1> QED
        BY <1>1, SpecKeepsIInv, InitSummary, NextKeepsSummary, PTL DEF Spec

(* The backtest earns what the live books earn until a position is reduced *)
(* without being closed; from then on it earns more, and strictly more     *)
(* once the position is flat.                                              *)
THEOREM BacktestEarnsAlike == Spec => []BacktestAgrees
    BY SpecKeepsIInv, InitBacktest, NextKeepsBacktest, BacktestFollows, PTL DEF Spec

(* The cap the gate puts on the legs of the ledger caps the average cost   *)
(* of the positions, but for what the legs of the positions held hide and  *)
(* the spread of one order, whatever is filled and however the names are   *)
(* traded in turn: a closed trade excuses nothing once its name is flat.   *)
(* The cost is lots times price, as the ledger counts it.                  *)
THEOREM GrossExposureIsCapped == Spec => []CapUpToRealized
    BY SpecKeepsIInv, InitCap, NextKeepsCap, CapFollows, PTL DEF Spec

=============================================================================
