---------------------------- MODULE FinanceVerdicts ----------------------------
(***************************************************************************)
(* What a household is told of a listing it may or may not afford, in four *)
(* places: the chip of the overview, the filter of the overview, the scan  *)
(* of the finance page and the card of the detail page.  The chip and the  *)
(* filter compare a price with ceilings worked out once; the scan and the  *)
(* card work out what the listing costs a month.                           *)
(*                                                                         *)
(* Money is counted in hundreds of euros and multiplied out: a monthly     *)
(* amount is held in 12000ths.  The code rounds every product and every    *)
(* quotient to a double, each place in its own way; amounts of whole cents *)
(* are far enough apart for that to decide only what is exactly equal, and *)
(* there Rounded says for a household which comparisons it turns.  One     *)
(* person, one scenario without extra payments; closing costs a tenth.     *)
(***************************************************************************)
EXTENDS Integers

CONSTANTS
  Households,                 \* their income, living costs and the rate of an old debt, by the month
  Surcharges,                 \* Nebenkosten in percent
  Equities, Terms, Payments,  \* of the scenario: <<Sollzins, Tilgung>>; 0 is no fixed instalment
  Discount,                   \* for a Sollzins: 1 / (1 + r/12)^600, in thousandths
  Prices,
  Threshold,                  \* purchasePriceThreshold
  Rounded                     \* for a household: the Ties that rounding turns

VARIABLES
  profile,                    \* finance_profile of the user's settings
  listing                     \* the listing looked at, with the deal type of its job

vars == <<profile, listing>>

(* Comparisons of equals, by what is compared: an amount with a ceiling, a  *)
(* ceiling with nothing, a share of the income with its percentage, a rate  *)
(* with what is left.                                                       *)
Ties == ({"ceiling", "nothing", "share"} \X {35, 40}) \cup {<<"cash", 100>>}

(* A larger ceiling is not rounded below a smaller one.                     *)
InOrder(turned) ==
  /\ <<"ceiling", 40>> \in turned => <<"ceiling", 35>> \in turned
  /\ <<"nothing", 35>> \in turned => <<"nothing", 40>> \in turned

Roundings == {turned \in SUBSET Ties : InOrder(turned)}

Renting == [surcharge : Surcharges]
Financing == [equity : Equities, terms : Terms, payment : Payments]
Listing == [price : Prices, deal : {"rent", "buy", "unknown"}, charges : BOOLEAN]

(* A tab of the profile is a set: empty, or with what was saved.            *)
TypeOK ==
  /\ profile.household \in Households
  /\ profile.renting \in {{}} \cup {{x} : x \in Renting}
  /\ profile.financing \in {{}} \cup {{x} : x \in Financing}
  /\ listing \in Listing

Init ==
  /\ profile \in [household : Households, renting : {{}}, financing : {{}}]
  /\ listing \in Listing

-----------------------------------------------------------------------------
(* mergeSection: the other tab stays as it is stored.                       *)
SaveRenting(h, x) ==
  /\ profile' = [profile EXCEPT !.household = h, !.renting = {x}]
  /\ UNCHANGED listing

SaveFinancing(h, x) ==
  /\ profile' = [profile EXCEPT !.household = h, !.financing = {x}]
  /\ UNCHANGED listing

(* stripSection: the household stays.                                      *)
RemoveRenting == profile' = [profile EXCEPT !.renting = {}] /\ UNCHANGED listing
RemoveFinancing == profile' = [profile EXCEPT !.financing = {}] /\ UNCHANGED listing

Next ==
  \/ \E h \in Households, x \in Renting : SaveRenting(h, x)
  \/ \E h \in Households, x \in Financing : SaveFinancing(h, x)
  \/ RemoveRenting
  \/ RemoveFinancing

Spec == Init /\ [][Next]_vars

-----------------------------------------------------------------------------
Least(a, b) == IF a <= b THEN a ELSE b
AtLeast0(a) == IF a >= 0 THEN a ELSE 0
Turned(by, percent) == <<by, percent>> \in Rounded[profile.household]
Fits(by, percent, amount, limit) == amount < limit \/ (amount = limit /\ ~Turned(by, percent))

Income == profile.household.income
Surcharge == (CHOOSE x \in profile.renting : TRUE).surcharge
Loan == CHOOSE x \in profile.financing : TRUE
Percent == Loan.terms[1] + Loan.terms[2]

(* isRentProfileComplete, isProfileComplete.                                *)
RentComplete == profile.renting # {} /\ Income > 0
BuyComplete == profile.financing # {} /\ Income > 0 /\ Percent > 0

(* computeBudget: what is left, and what 35 and 40 percent leave.           *)
Disposable == 12000 * (Income - profile.household.costs - profile.household.debt)
Headroom(percent) == 120 * percent * Income - 12000 * profile.household.debt

(* classify: the share of the income is a quotient, the headroom a product. *)
Classify(rate) ==
  IF Income <= 0 \/ ~Fits("cash", 100, rate, Disposable) THEN "unaffordable"
  ELSE IF Fits("share", 35, rate, Headroom(35)) THEN "affordable"
  ELSE IF Fits("share", 40, rate, Headroom(40)) THEN "stretch"
  ELSE "unaffordable"

Ceiling(percent) == AtLeast0(Least(Headroom(percent), Disposable))

(* rentThresholds and verdictForRent: the ceiling is converted to a cold    *)
(* rent where the advert quotes one.                                        *)
RentWithin(price, charges, percent) ==
  Fits("ceiling", percent, IF charges THEN 12000 * price ELSE 120 * (100 + Surcharge) * price,
       Ceiling(percent))

(* priceForMonthlyRate: a price whose annuity the ceiling carries.  The     *)
(* least trace of a ceiling carries what the equity pays for.               *)
Carries(percent) ==
  \/ Ceiling(percent) > 0
  \/ Least(Headroom(percent), Disposable) = 0 /\ Turned("nothing", percent)

PriceWithin(price, percent) ==
  \/ price <= 0
  \/ /\ Carries(percent)
     /\ Fits("ceiling", percent, (11 * price - 10 * Loan.equity) * Percent, Ceiling(percent))

-----------------------------------------------------------------------------
VerdictForRent(price, charges) ==
  IF ~RentComplete \/ price <= 0 THEN "none"
  ELSE IF RentWithin(price, charges, 35) THEN "affordable"
  ELSE IF RentWithin(price, charges, 40) THEN "stretch"
  ELSE "unaffordable"

VerdictForPrice(price) ==
  IF ~BuyComplete \/ price < Threshold THEN "none"
  ELSE IF PriceWithin(price, 35) THEN "affordable"
  ELSE IF PriceWithin(price, 40) THEN "stretch"
  ELSE "unaffordable"

(* verdictForRow and verdictForListing.                                     *)
Chip(l) == IF l.deal = "rent" THEN VerdictForRent(l.price, l.charges) ELSE VerdictForPrice(l.price)

Bands == {"affordable", "stretch", "unaffordable"}

(* A window: above the ceiling of the band below it, up to its own.         *)
InWindow(affordable, stretch, band) ==
  CASE band = "affordable"   -> affordable
    [] band = "stretch"      -> ~affordable /\ stretch
    [] band = "unaffordable" -> ~stretch

RentWindow(price, charges, band) ==
  InWindow(RentWithin(price, charges, 35), RentWithin(price, charges, 40), band)

(* A bug: every rent is held against the cold ceilings.                     *)
RentArmCold(l, band) ==
  RentComplete /\ l.deal = "rent" /\ l.price > 0 /\ RentWindow(l.price, FALSE, band)

(* rentBand and the two arms of its SQL.                                    *)
RentArm(l, band) ==
  /\ RentComplete /\ l.deal = "rent" /\ l.price > 0
  /\ \/ ~l.charges /\ RentWindow(l.price, FALSE, band)
     \/ l.charges /\ RentWindow(l.price, TRUE, band)

(* buyBand and its arm.                                                     *)
BuyArm(l, band) ==
  /\ BuyComplete /\ l.deal = "buy" /\ l.price >= Threshold
  /\ InWindow(PriceWithin(l.price, 35), PriceWithin(l.price, 40), band)

(* affordabilityBandFor: without a yardstick there is no filter.            *)
Filtered(l, band) == (RentComplete \/ BuyComplete) => RentArm(l, band) \/ BuyArm(l, band)

-----------------------------------------------------------------------------
(* calculateFinancing: the loan, in tenths, and the instalment of it.       *)
LoanFor(price) == AtLeast0(11 * price - 10 * Loan.equity)
Instalment(price) ==
  IF Loan.payment > 0 /\ LoanFor(price) > 0 THEN 12000 * Loan.payment ELSE LoanFor(price) * Percent

(* What the loop of buildSchedule comes to: after fifty years of the same    *)
(* instalment something is owed.                                            *)
NeverPaysOff(price) ==
  LET interest == LoanFor(price) * Loan.terms[1]
  IN  LoanFor(price) > 0 /\ IF interest = 0 THEN Instalment(price) < 2 * LoanFor(price)
                            ELSE Instalment(price) * (1000 - Discount[Loan.terms[1]]) < 1000 * interest

(* warmRent, and rentIncludesCharges before it.                             *)
WarmRent(l) == IF l.charges THEN 12000 * l.price ELSE 120 * (100 + Surcharge) * l.price

(* dealTypeForPrice, for a job from before the deal type.                   *)
DealType(l) == IF l.deal # "unknown" THEN l.deal ELSE IF l.price >= Threshold THEN "buy" ELSE "rent"

(* scoreRentListing and scoreListing, behind POST /api/finance/affordability. *)
Scan(l) ==
  IF l.price <= 0 THEN "none"
  ELSE IF DealType(l) = "rent" THEN IF RentComplete THEN Classify(WarmRent(l)) ELSE "none"
  ELSE IF ~BuyComplete THEN "none"
  ELSE IF NeverPaysOff(l.price) THEN "unaffordable"
  ELSE IF Loan.payment > 0 /\ VerdictForPrice(l.price) # "none" THEN VerdictForPrice(l.price)
  ELSE Classify(Instalment(l.price))

(* GET /api/finance/listing/:listingId: scoreRentListing, and for a         *)
(* purchase computeFinanceResult.                                           *)
Card(l) ==
  IF l.price <= 0 THEN "none"
  ELSE IF DealType(l) = "rent" THEN IF RentComplete THEN Classify(WarmRent(l)) ELSE "none"
  ELSE IF BuyComplete THEN Classify(Instalment(l.price)) ELSE "none"

-----------------------------------------------------------------------------
(***************************************************************************)
(* Properties                                                              *)
(***************************************************************************)

(* Whatever the profile and the price, and however a ceiling is rounded,    *)
(* the filter finds a listing under exactly the band its chip names, at     *)
(* every boundary, and without a chip under none - for a job with a deal    *)
(* type, once there is a yardstick.                                         *)
FilterIsChip ==
  listing.deal # "unknown" /\ (RentComplete \/ BuyComplete)
    => \A band \in Bands : Filtered(listing, band) <=> Chip(listing) = band

(* What a listing costs a month is exactly what a limit allows, and two     *)
(* ways of reckoning it are rounded.                                        *)
OnALimit(l) ==
  LET limits == {Headroom(35), Headroom(40), Disposable}
  IN  \/ l.deal = "rent" /\ WarmRent(l) \in limits
      \/ l.deal = "buy" /\ Loan.payment = 0 /\ Instalment(l.price) \in limits

(* The monthly reckoning of the scan and the ceilings of the chip come to   *)
(* the same, except exactly on a limit, where each is rounded in its own    *)
(* way, and where the loan is never repaid or none is needed, which the     *)
(* ceilings do not know of.                                                 *)
ScanIsChip ==
  listing.deal # "unknown" /\ Chip(listing) # "none" /\ Scan(listing) # "none" =>
    \/ Scan(listing) = Chip(listing)
    \/ OnALimit(listing)
    \/ listing.deal = "buy" /\ (LoanFor(listing.price) = 0 \/ NeverPaysOff(listing.price))

(* What affordability.js says of the ceilings: "the filter, the verdict     *)
(* chips and the detail card can never disagree".  The card judges a        *)
(* purchase by its instalment alone: it disagrees where that is fixed or    *)
(* repays nothing.                                                          *)
CardIsChip ==
  Chip(listing) # "none" /\ Card(listing) # "none" /\ listing.deal # "unknown"
    => Card(listing) = Chip(listing)
=============================================================================
