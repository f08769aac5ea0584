------------------------------ MODULE Campaign ------------------------------
(* A Run from the choice of its King to victory: what the player holds, and
   the screens that change it (board-render/src/run/model.ts, deployment.ts,
   and RunScreen.tsx, which calls them).

   A War is a sequence of Battles.  A Battle starts with a Deployment, is won,
   is reported, and leads to the Sectio, where cards and one lipsanon can be
   bought; a Battle with loot closes a Conflict, and the next Conflict opens
   with a lipsanon to take (Bona Vacantia).

   The Battle itself is module RunBattle; here it is won, or deployed anew.
   Shuffles are choices.  A unit is its id, a card its id, its core and the
   units in its seats; shapes and squares are the number of squares. *)
EXTENDS Integers, FiniteSets, Sequences

CONSTANTS
  War,            \* the Battles: [loot, deals, capacity, prize]
  Kings, Cards,   \* cores of the starter cards and of the cards on offer
  Pieces,         \* units a core seats
  Cost,           \* gold a core costs on offer
  Fee,            \* gold it costs to strike a card of that core
  KingBonus,      \* gold a King adds to the purse
  Lipsana,        \* the pool of lipsana
  Payout,         \* gold a lipsanon pays when it is taken
  Shopkey, Ledger, Rifle,   \* the lipsana that change the market or the reward
  OfferCount,     \* cards a Sectio offers
  RevealCount,    \* lipsana a Bona Vacantia offers
  SpeedBonus,     \* gold a fast Battle may pay
  Tributes,       \* gold the standing enemies may pay
  MaxRerolls,
  None

Battles == DOMAIN War
Cores == Kings \cup Cards

ASSUME WarAssumption ==
  /\ War \in Seq([loot : BOOLEAN, deals : Nat \ {0}, capacity : Nat, prize : Nat])
  /\ War # <<>>
ASSUME CoreAssumption ==
  /\ Kings \cap Cards = {}
  /\ Pieces \in [Cores -> Nat \ {0}] /\ Cost \in [Cards -> Nat] /\ Fee \in [Cores -> Nat]
  /\ KingBonus \in [Kings -> Nat]
ASSUME LipsanaAssumption == Payout \in [Lipsana -> Nat] /\ None \notin Lipsana
ASSUME NumberAssumption ==
  /\ {OfferCount, RevealCount, MaxRerolls} \subseteq Nat
  /\ SpeedBonus \subseteq Nat /\ Tributes \subseteq Nat

VARIABLES
  phase, battle, conflict,
  gold,
  army, cards, nextUnit, nextCard,
  lipsana, seen, paid,      \* held, ever revealed, and each Conflict's paid offer
  cursor,                   \* cards consumed from the pile
  deployment, aftermath, sectio, vacantia,
  banked,                   \* history: gold paid for each Battle
  rerolls

force == <<army, cards, nextUnit, nextCard>>
relics == <<lipsana, seen, paid>>
screens == <<deployment, aftermath, sectio, vacantia>>
vars == <<phase, battle, conflict, gold, army, cards, nextUnit, nextCard, lipsana, seen, paid, cursor,
          deployment, aftermath, sectio, vacantia, banked, rerolls>>

----------------------------------------------------------------------------
StartingGold == 80
RerollCost == 50
PaidLipsanonCost == 100

\* Units of the King's card have ids of their own.
King == -1
StarterUnits(king) == {-i : i \in 1..Pieces[king]}
StarterCard(king) == [id |-> 0, core |-> king, seats |-> StarterUnits(king)]

IsStarter(card) == card.core \in Kings
Seats(deck) == UNION {card.seats : card \in deck}
Held(lipsanon) == lipsanon \in lipsana
CanPay(price) == gold >= price

\* conflictOpensWithVacantia
OpensWithVacantia(first) == \E b \in Battles : b >= first /\ War[b].loot

----------------------------------------------------------------------------
(* Deployment *)

\* The orders in which part of a deck can be dealt.
Deals(deck, count) ==
  LET size == IF Cardinality(deck) < count THEN Cardinality(deck) ELSE count IN
  {hand \in [1..size -> deck] : \A i, j \in 1..size : hand[i] = hand[j] => i = j}

\* Mutant: the King's card is shuffled in with the others.
Hands_Shuffled(deck, count) == Deals(deck, count)

\* The hands prepareDeployment may deal: the King's card, then ordinary ones.
Hands(deck, count) == {hand \in Deals(deck, count) : IsStarter(hand[1])}

\* resolveDeploymentCapacity: the longest part of the hand that fits.
Admitted(hand, capacity) ==
  {hand[i] : i \in {j \in DOMAIN hand : Cardinality(Seats({hand[k] : k \in 1..j})) <= capacity}}

\* freshDeploymentState for Battle b
FreshDeployment(hand, b, stage) ==
  [stage |-> stage, hand |-> hand, admitted |-> Admitted(hand, War[b].capacity), placed |-> {}]

\* prepareDeployment
Deal(b) == \E hand \in Hands(cards, War[b].deals) : deployment' = FreshDeployment(hand, b, "awaiting-deal")

PrepareDeployment ==
  /\ phase = "deployment" /\ deployment = None
  /\ Deal(battle)
  /\ UNCHANGED <<phase, battle, conflict, gold, force, relics, cursor, aftermath, sectio, vacantia, banked, rerolls>>

SetDeploymentChoices(next) ==
  /\ phase = "deployment" /\ deployment # None
  /\ deployment' = next
  /\ UNCHANGED <<phase, battle, conflict, gold, force, relics, cursor, aftermath, sectio, vacantia, banked, rerolls>>

\* beginDeploymentDeal and, when both halves of the deck have settled, completeDeploymentDeal
DealCards ==
  /\ deployment # None /\ deployment.stage \in {"awaiting-deal", "dealing"}
  /\ SetDeploymentChoices([deployment EXCEPT !.stage = IF @ = "dealing" THEN "arranging" ELSE "dealing"])

\* placeArrangedDeploymentCard: a formation goes onto the board whole, on squares nobody holds.
PlaceCard(card) ==
  /\ deployment # None /\ deployment.stage = "arranging"
  /\ card \in deployment.admitted
  /\ Cardinality(Seats(deployment.placed \cup {card})) <= War[battle].capacity
  /\ SetDeploymentChoices([deployment EXCEPT !.placed = @ \cup {card}])

\* removeArrangedDeploymentCard
RemoveCard(card) ==
  /\ deployment # None /\ deployment.stage = "arranging"
  /\ card \in deployment.placed
  /\ SetDeploymentChoices([deployment EXCEPT !.placed = @ \ {card}])

\* beginArrangedBattle: the King has to stand on the board.
BeginBattle ==
  /\ phase = "deployment" /\ deployment # None
  /\ deployment.stage = "arranging" /\ King \in Seats(deployment.placed)
  /\ phase' = "battle"
  /\ deployment' = [deployment EXCEPT !.stage = "complete"]
  /\ UNCHANGED <<battle, conflict, gold, force, relics, cursor, aftermath, sectio, vacantia, banked, rerolls>>

\* rerollDeployment: the same hand, to be placed again.
RerollDeployment ==
  /\ phase = "battle" /\ CanPay(RerollCost) /\ rerolls < MaxRerolls
  /\ phase' = "deployment" /\ gold' = gold - RerollCost /\ rerolls' = rerolls + 1
  /\ deployment' = FreshDeployment(deployment.hand, battle, "arranging")
  /\ aftermath' = None
  /\ UNCHANGED <<battle, conflict, force, relics, cursor, sectio, vacantia, banked>>

----------------------------------------------------------------------------
(* After the Battle *)

\* battleRewardTenths, for a Battle that earned that speed bonus and tribute.
Reward(speed, tribute, surviving) ==
  War[battle].prize + speed + tribute + (IF Held(Rifle) THEN surviving ELSE 0)

\* A row of `count` cards from the pile, at the cursor.
Offers(count) ==
  {{[at |-> cursor + i, core |-> row[i]] : i \in 1..count} : row \in [1..count -> Cards]}

\* availableLipsana
Available(known, held) == Lipsana \ (known \cup held)

\* The parts of a pool with `count` members, or all of it.
Draws(pool, count) ==
  {part \in SUBSET pool : Cardinality(part) = IF Cardinality(pool) < count THEN Cardinality(pool) ELSE count}

\* revealLipsana for a Bona Vacantia
Reveals(known, held) == Draws(Available(known, held), RevealCount)

\* Mutant: the visit is remembered as it was before its lipsanon was revealed.
EntrySnapshot_Early(bought) ==
  [gold |-> gold', army |-> army, cards |-> cards, lipsana |-> lipsana', seen |-> seen, paid |-> paid,
   nextUnit |-> nextUnit, nextCard |-> nextCard, bought |-> bought]

\* The visit, as it will be taken back to by Reset: everything but the row and the cursor.
EntrySnapshot(bought) ==
  [gold |-> gold', army |-> army, cards |-> cards, lipsana |-> lipsana', seen |-> seen', paid |-> paid',
   nextUnit |-> nextUnit, nextCard |-> nextCard, bought |-> bought]

\* What a Sectio may sell besides cards: the lipsanon already revealed for this Conflict, or a new one.
PaidOffers(known, held) ==
  IF Shopkey \in held /\ paid[conflict] # None THEN {paid[conflict]}
  ELSE IF Shopkey \notin held \/ Available(known, held) = {} THEN {[lipsanon |-> None, bought |-> FALSE]}
  ELSE [lipsanon : Available(known, held), bought : {FALSE}]

\* openPostBattleSectio, with gold' and lipsana' settled and `known` lipsana shown so far.
OpenPostBattleSectio(known) ==
  LET count == OfferCount + (IF Ledger \in lipsana' THEN 1 ELSE 0) IN
  \E row \in Offers(count), offer \in PaidOffers(known, lipsana') :
    /\ phase' = "sectio" /\ vacantia' = None
    /\ cursor' = cursor + count
    /\ seen' = known \cup ({offer.lipsanon} \ {None})
    /\ paid' = IF offer.lipsanon = None THEN paid ELSE [paid EXCEPT ![conflict] = offer]
    /\ sectio' = [after |-> battle, offers |-> row, admitted |-> None, offer |-> offer.lipsanon,
                  bought |-> offer.bought, struck |-> None, entry |-> EntrySnapshot(offer.bought)]

\* openSectio, past the final Battle: bank the reward, then Bona Vacantia or the Sectio.
OpenSectio(reward) ==
  /\ gold' = gold + reward
  /\ banked' = [banked EXCEPT ![battle] = @ + reward]
  /\ deployment' = None
  /\ UNCHANGED lipsana
  /\ IF War[battle].loot /\ OpensWithVacantia(battle + 1)
     THEN \E offers \in Reveals(seen, lipsana) :
            /\ phase' = "bona-vacantia" /\ vacantia' = offers
            /\ seen' = seen \cup offers /\ sectio' = None
            /\ UNCHANGED <<paid, cursor>>
     ELSE OpenPostBattleSectio(seen)

\* closeBattle: the report is settled once, on one reading of the clock; the last Battle ends the War.
CloseBattle(speed, tribute, surviving) ==
  /\ phase = "battle"
  /\ IF battle = Len(War)
     THEN /\ phase' = "victory" /\ aftermath' = None /\ sectio' = None
     ELSE /\ phase' = "aftermath"
          /\ aftermath' = [battle |-> battle, speed |-> speed, tribute |-> tribute, surviving |-> surviving,
                           gold |-> Reward(speed, tribute, surviving)]
          /\ UNCHANGED sectio
  /\ deployment' = None
  /\ UNCHANGED <<battle, conflict, gold, force, relics, cursor, vacantia, banked, rerolls>>

\* Mutant: a report that is left banks its Battle, reviewed or not.
Reviewed_Never == FALSE

\* Is the report reached back to from the Sectio it opened?
Reviewed == sectio # None /\ sectio.after = aftermath.battle

\* leaveAftermath
LeaveAftermath ==
  /\ phase = "aftermath"
  /\ IF Reviewed
     THEN phase' = "sectio" /\ UNCHANGED <<gold, banked, relics, cursor, deployment, sectio, vacantia>>
     ELSE OpenSectio(Reward(aftermath.speed, aftermath.tribute, aftermath.surviving))
  /\ UNCHANGED <<battle, conflict, force, aftermath, rerolls>>

\* reviewSectioBattleReport
ReviewReport ==
  /\ phase = "sectio" /\ aftermath # None /\ aftermath.battle = sectio.after
  /\ phase' = "aftermath"
  /\ UNCHANGED <<battle, conflict, gold, force, relics, cursor, screens, banked, rerolls>>

\* acquireLipsanon, which shows what it grants; the purse is the caller's.
Acquire(lipsanon) == lipsana' = lipsana \cup {lipsanon}

\* takeVacantiaLipsanon
TakeVacantiaLipsanon(lipsanon) ==
  /\ phase = "bona-vacantia"
  /\ lipsanon \in vacantia /\ ~Held(lipsanon)
  /\ Acquire(lipsanon)
  /\ gold' = gold + Payout[lipsanon]
  /\ OpenPostBattleSectio(seen \cup {lipsanon})
  /\ UNCHANGED <<battle, conflict, force, deployment, aftermath, banked, rerolls>>

----------------------------------------------------------------------------
(* The Sectio *)

InSectio == phase = "sectio"

\* performAdlectio: one card a visit.
Adlect(offer) ==
  /\ InSectio /\ offer \in sectio.offers /\ sectio.admitted = None
  /\ CanPay(Cost[offer.core])
  /\ LET units == nextUnit..(nextUnit + Pieces[offer.core] - 1)
         card == [id |-> nextCard, core |-> offer.core, seats |-> units]
     IN /\ army' = army \cup units
        /\ cards' = cards \cup {card}
        /\ nextUnit' = nextUnit + Pieces[offer.core]
        /\ nextCard' = nextCard + 1
  /\ gold' = gold - Cost[offer.core]
  /\ sectio' = [sectio EXCEPT !.admitted = offer]
  /\ UNCHANGED <<phase, battle, conflict, relics, cursor, deployment, aftermath, vacantia, banked, rerolls>>

\* Mutant: any card can be struck.
Removable_Any(card) == TRUE

\* A King's card cannot be struck.
Removable(card) == ~IsStarter(card)

\* performExpunctio: one card a visit, with its intact formation.
Expunge(card) ==
  /\ InSectio /\ sectio.struck = None
  /\ card \in cards /\ Removable(card) /\ card.seats \subseteq army
  /\ CanPay(Fee[card.core])
  /\ gold' = gold - Fee[card.core]
  /\ army' = army \ card.seats
  /\ cards' = cards \ {card}
  /\ sectio' = [sectio EXCEPT !.struck = card]
  /\ UNCHANGED <<phase, battle, conflict, nextUnit, nextCard, relics, cursor, deployment, aftermath, vacantia,
                 banked, rerolls>>

\* buyPaidLipsanon
BuyPaidLipsanon ==
  /\ InSectio /\ sectio.offer # None /\ ~sectio.bought
  /\ CanPay(PaidLipsanonCost) /\ ~Held(sectio.offer)
  /\ Acquire(sectio.offer)
  /\ gold' = gold + Payout[sectio.offer] - PaidLipsanonCost
  /\ seen' = seen \cup {sectio.offer}
  /\ paid' = [paid EXCEPT ![conflict] = [lipsanon |-> sectio.offer, bought |-> TRUE]]
  /\ sectio' = [sectio EXCEPT !.bought = TRUE]
  /\ UNCHANGED <<phase, battle, conflict, force, cursor, deployment, aftermath, vacantia, banked, rerolls>>

\* Mutant: what was bought is paid back and kept.
RestoredLipsana_Kept(entry) == lipsana
RestoredLipsana(entry) == entry.lipsana

\* resetSectio
ResetSectio ==
  /\ InSectio
  /\ LET entry == sectio.entry IN
     /\ gold' = entry.gold /\ army' = entry.army /\ cards' = entry.cards
     /\ lipsana' = RestoredLipsana(entry) /\ seen' = entry.seen /\ paid' = entry.paid
     /\ nextUnit' = entry.nextUnit /\ nextCard' = entry.nextCard
     /\ sectio' = [sectio EXCEPT !.admitted = None, !.bought = entry.bought, !.struck = None]
  /\ UNCHANGED <<phase, battle, conflict, cursor, deployment, aftermath, vacantia, banked, rerolls>>

\* leaveSectio, and the Deployment that the same press prepares.
LeaveSectio ==
  /\ InSectio
  /\ phase' = "deployment"
  /\ battle' = battle + 1
  /\ conflict' = IF War[sectio.after].loot THEN conflict + 1 ELSE conflict
  /\ sectio' = None /\ aftermath' = None
  /\ Deal(battle + 1)
  /\ UNCHANGED <<gold, force, relics, cursor, vacantia, banked, rerolls>>

----------------------------------------------------------------------------
\* createRun, on the choice of a King
Init ==
  /\ phase = "commendatio" /\ battle = 1 /\ conflict = 1
  /\ gold = StartingGold
  /\ army = {} /\ cards = {} /\ nextUnit = 1 /\ nextCard = 1
  /\ lipsana = {} /\ seen = {} /\ paid = [c \in Battles |-> None]
  /\ cursor = 0
  /\ deployment = None /\ aftermath = None /\ sectio = None /\ vacantia = None
  /\ banked = [b \in Battles |-> 0]
  /\ rerolls = 0

\* takeCommendatioKing
TakeCommendatioKing(king) ==
  /\ phase = "commendatio"
  /\ phase' = "deployment"
  /\ gold' = gold + KingBonus[king]
  /\ army' = StarterUnits(king) /\ cards' = {StarterCard(king)}
  /\ sectio' = None /\ vacantia' = None
  /\ UNCHANGED <<battle, conflict, nextUnit, nextCard, relics, cursor, deployment, aftermath, banked, rerolls>>

Next ==
  \/ \E king \in Kings : TakeCommendatioKing(king)
  \/ PrepareDeployment
  \/ DealCards
  \/ \E card \in cards : PlaceCard(card) \/ RemoveCard(card) \/ Expunge(card)
  \/ BeginBattle
  \/ RerollDeployment
  \/ \E speed \in SpeedBonus, tribute \in Tributes, surviving \in {1, Cardinality(army)} :
       CloseBattle(speed, tribute, surviving)
  \/ LeaveAftermath
  \/ ReviewReport
  \/ \E lipsanon \in Lipsana : TakeVacantiaLipsanon(lipsanon)
  \/ InSectio /\ \E offer \in sectio.offers : Adlect(offer)
  \/ BuyPaidLipsanon
  \/ ResetSectio
  \/ LeaveSectio

Spec == Init /\ [][Next]_vars

----------------------------------------------------------------------------
OwnedCards == [id : Nat, core : Cores, seats : SUBSET Int]
PaidRecords == [lipsanon : Lipsana, bought : BOOLEAN]
CardOffers == [at : Nat, core : Cards]
Entries ==
  [gold : Nat, army : SUBSET Int, cards : SUBSET OwnedCards, lipsana : SUBSET Lipsana, seen : SUBSET Lipsana,
   paid : [Battles -> PaidRecords \cup {None}], nextUnit : Nat, nextCard : Nat, bought : BOOLEAN]
Sectios ==
  [after : Battles, offers : SUBSET CardOffers, admitted : CardOffers \cup {None}, offer : Lipsana \cup {None},
   bought : BOOLEAN, struck : OwnedCards \cup {None}, entry : Entries]
Deployments ==
  [stage : {"awaiting-deal", "dealing", "arranging", "complete"}, hand : Seq(OwnedCards),
   admitted : SUBSET OwnedCards, placed : SUBSET OwnedCards]
Aftermaths == [battle : Battles, speed : Nat, tribute : Nat, surviving : Nat, gold : Nat]

ASSUME NoRecordAssumption ==
  None \notin Sectios /\ None \notin PaidRecords /\ None \notin OwnedCards /\ None \notin CardOffers

TypeOK ==
  /\ phase \in {"commendatio", "deployment", "battle", "aftermath", "bona-vacantia", "sectio", "victory"}
  /\ battle \in Battles /\ conflict \in Battles
  /\ {gold, nextUnit, nextCard, cursor, rerolls} \subseteq Nat
  /\ army \subseteq Int /\ cards \subseteq OwnedCards
  /\ lipsana \subseteq Lipsana /\ seen \subseteq Lipsana
  /\ paid \in [Battles -> PaidRecords \cup {None}]
  /\ deployment \in Deployments \cup {None}
  /\ aftermath \in Aftermaths \cup {None}
  /\ sectio \in Sectios \cup {None}
  /\ vacantia \in (SUBSET Lipsana) \cup {None}
  /\ banked \in [Battles -> Nat]

(* Every unit of the army has exactly one seat on a card that is held, the
   King among them, and ids are never used twice: whatever was bought, struck
   and taken back (addArmyPieces, performExpunctio, resetSectio). *)
EveryUnitIsSeated ==
  phase # "commendatio" =>
    /\ army = Seats(cards)
    /\ \A c, d \in cards : c # d => c.id # d.id /\ c.seats \cap d.seats = {}
    /\ King \in army
    /\ \A u \in army : u < nextUnit
    /\ \A c \in cards : c.id < nextCard

(* A Battle is fought with the King on the board: he is in every hand and is
   admitted wherever his card fits, also after a reroll, and the hand is of
   cards that are held (prepareDeployment, resolveDeploymentCapacity). *)
KingTakesTheField ==
  deployment # None =>
    LET hand == {deployment.hand[i] : i \in DOMAIN deployment.hand} IN
    /\ hand \subseteq cards
    /\ deployment.placed \subseteq deployment.admitted /\ deployment.admitted \subseteq hand
    /\ phase = "battle" => King \in Seats(deployment.placed)
    /\ \E card \in hand :
         IsStarter(card) /\ (Cardinality(card.seats) <= War[battle].capacity => card \in deployment.admitted)

(* A Battle is banked once, with the gold its report shows, however long the
   report is read and however often it is opened again from the Sectio
   (closeBattle, leaveAftermath, reviewSectioBattleReport). *)
BankedAsReported ==
  aftermath # None =>
    banked[aftermath.battle] = IF phase = "aftermath" /\ sectio = None THEN 0 ELSE aftermath.gold

Price(offer) == IF offer = None THEN 0 ELSE Cost[offer.core]
StrikeFee(card) == IF card = None THEN 0 ELSE Fee[card.core]

(* What a visit to the Sectio has done can be read off its record, and nothing
   else has changed since it was entered: not the purse, the cards, the army's
   numbering or the lipsana, also after Reset and after the report was opened
   in between. *)
VisitBalances ==
  sectio # None =>
    LET entry == sectio.entry
        bought == sectio.bought /\ ~entry.bought
        had == cards \cup ({sectio.struck} \ {None})
    IN /\ gold = entry.gold - Price(sectio.admitted) - StrikeFee(sectio.struck)
                  + (IF bought THEN Payout[sectio.offer] - PaidLipsanonCost ELSE 0)
       /\ entry.cards \subseteq had
       /\ {c.core : c \in had \ entry.cards} = (IF sectio.admitted = None THEN {} ELSE {sectio.admitted.core})
       /\ Cardinality(had) = Cardinality(entry.cards) + (nextCard - entry.nextCard)
       /\ lipsana = entry.lipsana \cup (IF bought THEN {sectio.offer} ELSE {})
       /\ seen = entry.seen

(* A lipsanon is shown on one occasion of a Run only: what is held or on offer
   counts as seen, two Conflicts never sell the same one, and a paid offer is
   bought exactly if it is held, also when Reset has taken the visit back
   (revealLipsana, openPostBattleSectio, buyPaidLipsanon, resetSectio). *)
LipsanaAccounted ==
  /\ lipsana \subseteq seen
  /\ vacantia # None => vacantia \subseteq seen \ lipsana
  /\ sectio # None /\ sectio.offer # None =>
       paid[conflict] = [lipsanon |-> sectio.offer, bought |-> sectio.bought]
  /\ \A c \in Battles : paid[c] # None =>
       /\ paid[c].lipsanon \in seen
       /\ paid[c].bought <=> Held(paid[c].lipsanon)
       /\ vacantia # None => paid[c].lipsanon \notin vacantia
       /\ \A d \in Battles : d # c /\ paid[d] # None => paid[c].lipsanon # paid[d].lipsanon
=============================================================================
