-------------------------- MODULE Campaign_proofs --------------------------
(* What a Run holds, for any War, any cards and any lipsana.

   The first invariant (Core) gives the types and says which screens and
   records each phase has (Flow); everything else rests on it: what has been
   banked (Banking), the army and the cards its units sit on (Seating), the
   lipsana (Accounting), the King's place in the Deployment (Fielding), and
   last, from the two before, the balance of a visit (Balancing). *)
EXTENDS Campaign, FiniteSetTheorems, SequenceTheorems, TLAPS

Phases == {"commendatio", "deployment", "battle", "aftermath", "bona-vacantia", "sectio", "victory"}
AfterBattle == {"aftermath", "bona-vacantia", "sectio"}

\* Which records are open in which phase, and that they are about this Battle.
Flow ==
  /\ conflict <= battle
  /\ phase \in AfterBattle => battle < Len(War)
  /\ aftermath # None => aftermath.battle = battle /\ phase \in AfterBattle
  /\ phase = "aftermath" => aftermath \in Aftermaths /\ aftermath.battle = battle
  /\ sectio # None => sectio.after = battle /\ phase \in {"sectio", "aftermath"}
  /\ phase = "sectio" => sectio \in Sectios
  /\ deployment # None => phase \in {"deployment", "battle"}
  /\ phase = "battle" => deployment \in Deployments
  /\ vacantia # None => phase = "bona-vacantia"
  /\ phase = "bona-vacantia" => vacantia \subseteq Lipsana

Finite ==
  /\ IsFiniteSet(cards) /\ IsFiniteSet(army)
  /\ sectio # None => IsFiniteSet(sectio.entry.cards) /\ IsFiniteSet(sectio.entry.army)

Core == TypeOK /\ Flow /\ Finite

----------------------------------------------------------------------------
(* The constants *)

LEMMA WarFacts ==
  /\ Battles = 1..Len(War) /\ Len(War) \in Nat \ {0}
  /\ \A b \in Battles : War[b].loot \in BOOLEAN /\ War[b].deals \in Nat /\ War[b].prize \in Nat
<1>1. War \in Seq([loot : BOOLEAN, deals : Nat \ {0}, capacity : Nat, prize : Nat]) /\ War # <<>>
  BY WarAssumption
<1>2. Len(War) \in Nat \ {0} BY <1>1, EmptySeq
<1>3. Battles = 1..Len(War) BY <1>1 DEF Battles
<1>4. \A b \in Battles : War[b] \in [loot : BOOLEAN, deals : Nat \ {0}, capacity : Nat, prize : Nat]
  BY <1>1, <1>3, ElementOfSeq
<1> QED BY <1>2, <1>3, <1>4

LEMMA StarterFacts ==
  ASSUME NEW king \in Kings
  PROVE  /\ StarterUnits(king) \subseteq Int /\ IsFiniteSet(StarterUnits(king))
         /\ King \in StarterUnits(king) /\ \A u \in StarterUnits(king) : u < 0
         /\ StarterCard(king) \in OwnedCards
<1>1. Pieces[king] \in Nat \ {0} BY CoreAssumption DEF Cores
<1>2. StarterUnits(king) = (0 - Pieces[king])..(0 - 1)
  <2>1. ASSUME NEW u \in StarterUnits(king) PROVE u \in (0 - Pieces[king])..(0 - 1)
    BY <1>1 DEF StarterUnits
  <2>2. ASSUME NEW u \in (0 - Pieces[king])..(0 - 1) PROVE u \in StarterUnits(king)
    <3>1. 0 - u \in 1..Pieces[king] /\ u = -(0 - u) BY <1>1
    <3> QED BY <3>1 DEF StarterUnits
  <2> QED BY <2>1, <2>2
<1>3. IsFiniteSet(StarterUnits(king))
  <2>1. 0 - Pieces[king] \in Int /\ 0 - 1 \in Int BY <1>1
  <2> QED BY <1>2, <2>1, FS_Interval
<1>4. /\ StarterUnits(king) \subseteq Int /\ King \in StarterUnits(king)
      /\ \A u \in StarterUnits(king) : u < 0
  BY <1>1, <1>2 DEF King
<1>5. StarterCard(king) \in OwnedCards BY <1>4 DEF StarterCard, OwnedCards, Cores
<1> QED BY <1>3, <1>4, <1>5

----------------------------------------------------------------------------
(* The parts of Core *)

LEMMA CoreFacts ==
  ASSUME Core
  PROVE  /\ phase \in Phases /\ battle \in Battles /\ conflict \in Battles
         /\ gold \in Nat /\ nextUnit \in Nat /\ nextCard \in Nat /\ cursor \in Nat /\ rerolls \in Nat
         /\ army \in SUBSET Int /\ cards \in SUBSET OwnedCards
         /\ lipsana \in SUBSET Lipsana /\ seen \in SUBSET Lipsana
         /\ paid \in [Battles -> PaidRecords \cup {None}]
         /\ deployment \in Deployments \cup {None} /\ aftermath \in Aftermaths \cup {None}
         /\ sectio \in Sectios \cup {None} /\ vacantia \in (SUBSET Lipsana) \cup {None}
         /\ banked \in [Battles -> Nat]
         /\ Flow /\ Finite
<1>1. TypeOK /\ Flow /\ Finite BY DEF Core
<1> QED BY <1>1 DEF TypeOK, Phases

\* The last Battle but one still has a next one.
LEMMA NextBattle ==
  ASSUME Core, phase \in AfterBattle PROVE battle + 1 \in Battles /\ conflict + 1 \in Battles
<1>1. battle \in Battles /\ conflict \in Battles /\ conflict <= battle /\ battle < Len(War)
  BY CoreFacts DEF Flow
<1> QED BY <1>1, WarFacts

\* A hand is part of the deck, and nothing stands on the board yet.
LEMMA DealFacts ==
  ASSUME Core, NEW b \in Battles, Deal(b)
  PROVE  /\ deployment' \in Deployments /\ deployment'.placed = {}
         /\ deployment'.stage = "awaiting-deal"
         /\ deployment'.hand \in Hands(cards, War[b].deals)
         /\ deployment'.hand \in Seq(cards)
         /\ deployment'.admitted = Admitted(deployment'.hand, War[b].capacity)
<1>1. PICK hand \in Hands(cards, War[b].deals) :
         deployment' = FreshDeployment(hand, b, "awaiting-deal")
  BY DEF Deal
<1>2. Cardinality(cards) \in Nat /\ cards \subseteq OwnedCards
  BY CoreFacts, FS_CardinalityType DEF Finite
<1>3. War[b].deals \in Nat BY WarFacts
<1>4. PICK size \in Nat : hand \in [1..size -> cards]
  <2> DEFINE size == IF Cardinality(cards) < War[b].deals THEN Cardinality(cards) ELSE War[b].deals
  <2>1. size \in Nat BY <1>2, <1>3
  <2>2. hand \in [1..size -> cards] BY DEF Hands, Deals
  <2> HIDE DEF size
  <2> QED BY <2>1, <2>2
<1>5. hand \in Seq(cards) /\ hand \in Seq(OwnedCards) BY <1>2, <1>4
<1>6. DOMAIN hand = 1..Len(hand) /\ \A i \in DOMAIN hand : hand[i] \in OwnedCards BY <1>5
<1>7. Admitted(hand, War[b].capacity) \in SUBSET OwnedCards BY <1>6 DEF Admitted
<1>8. /\ deployment'.stage = "awaiting-deal" /\ deployment'.hand = hand /\ deployment'.placed = {}
      /\ deployment'.admitted = Admitted(hand, War[b].capacity)
      /\ deployment' = [stage |-> "awaiting-deal", hand |-> hand,
                        admitted |-> Admitted(hand, War[b].capacity), placed |-> {}]
  BY <1>1 DEF FreshDeployment
<1>9. deployment' \in Deployments BY <1>5, <1>7, <1>8 DEF Deployments
<1> QED BY <1>1, <1>5, <1>8, <1>9

\* A visit starts from the purse, the cards and the lipsana of this moment.
LEMMA PostBattleFacts ==
  ASSUME Core, phase \in AfterBattle, NEW known \in SUBSET Lipsana, OpenPostBattleSectio(known),
         gold' \in Nat, lipsana' \in SUBSET Lipsana
  PROVE  /\ phase' = "sectio" /\ vacantia' = None /\ cursor' \in Nat
         /\ seen' \in SUBSET Lipsana /\ paid' \in [Battles -> PaidRecords \cup {None}]
         /\ sectio' \in Sectios /\ sectio'.after = battle /\ sectio'.entry.cards = cards
         /\ sectio'.entry.army = army
<1> DEFINE count == OfferCount + (IF Ledger \in lipsana' THEN 1 ELSE 0)
<1>f. /\ battle \in Battles /\ conflict \in Battles /\ cursor \in Nat
      /\ nextUnit \in Nat /\ nextCard \in Nat
      /\ army \in SUBSET Int /\ cards \in SUBSET OwnedCards
      /\ paid \in [Battles -> PaidRecords \cup {None}]
  BY CoreFacts
<1>1. PICK row \in Offers(count), offer \in PaidOffers(known, lipsana') :
        /\ phase' = "sectio" /\ vacantia' = None
        /\ cursor' = cursor + count
        /\ seen' = known \cup ({offer.lipsanon} \ {None})
        /\ paid' = IF offer.lipsanon = None THEN paid ELSE [paid EXCEPT ![conflict] = offer]
        /\ sectio' = [after |-> battle, offers |-> row, admitted |-> None, offer |-> offer.lipsanon,
                      bought |-> offer.bought, struck |-> None, entry |-> EntrySnapshot(offer.bought)]
  BY DEF OpenPostBattleSectio
<1>2. count \in Nat BY NumberAssumption
<1> HIDE DEF count
<1>3. row \subseteq CardOffers BY <1>f, <1>2 DEF Offers, CardOffers
<1>4. /\ offer.lipsanon \in Lipsana \cup {None} /\ offer.bought \in BOOLEAN
      /\ offer.lipsanon # None => offer \in PaidRecords
  <2>1. CASE Shopkey \in lipsana' /\ paid[conflict] # None
    <3>1. offer = paid[conflict] BY <2>1 DEF PaidOffers
    <3>2. offer \in PaidRecords BY <3>1, <2>1, <1>f
    <3> QED BY <3>2 DEF PaidRecords
  <2>2. CASE ~(Shopkey \in lipsana' /\ paid[conflict] # None)
             /\ (Shopkey \notin lipsana' \/ Available(known, lipsana') = {})
    <3>1. offer = [lipsanon |-> None, bought |-> FALSE] BY <2>2 DEF PaidOffers
    <3> QED BY <3>1
  <2>3. CASE ~(Shopkey \in lipsana' /\ paid[conflict] # None)
             /\ ~(Shopkey \notin lipsana' \/ Available(known, lipsana') = {})
    <3>1. offer \in [lipsanon : Available(known, lipsana'), bought : {FALSE}]
      BY <2>3 DEF PaidOffers
    <3> QED BY <3>1 DEF Available, PaidRecords
  <2> QED BY <2>1, <2>2, <2>3
<1>5. seen' \in SUBSET Lipsana BY <1>1, <1>4
<1>6. paid' \in [Battles -> PaidRecords \cup {None}]
  <2>1. CASE offer.lipsanon = None BY <2>1, <1>1, <1>f
  <2>2. CASE offer.lipsanon # None
    <3>1. offer \in PaidRecords \cup {None} BY <2>2, <1>4
    <3>2. paid' = [paid EXCEPT ![conflict] = offer] BY <2>2, <1>1
    <3> QED BY <3>1, <3>2, <1>f
  <2> QED BY <2>1, <2>2
<1>7. EntrySnapshot(offer.bought) \in Entries
  BY <1>f, <1>4, <1>5, <1>6 DEF EntrySnapshot, Entries
<1>8. EntrySnapshot(offer.bought).cards = cards /\ EntrySnapshot(offer.bought).army = army
  BY DEF EntrySnapshot
<1>9. /\ sectio'.after = battle /\ sectio'.entry = EntrySnapshot(offer.bought)
  BY <1>1
<1>10. sectio' \in Sectios BY <1>1, <1>f, <1>3, <1>4, <1>7 DEF Sectios
<1>11. cursor' \in Nat BY <1>1, <1>2, <1>f
<1> QED BY <1>1, <1>5, <1>6, <1>8, <1>9, <1>10, <1>11

----------------------------------------------------------------------------
(* Core is inductive *)

LEMMA CoreInit == Init => Core
<1> SUFFICES ASSUME Init PROVE Core OBVIOUS
<1>1. 1 \in Battles BY WarFacts
<1>2. TypeOK
  <2>1. paid \in [Battles -> PaidRecords \cup {None}] /\ banked \in [Battles -> Nat] BY DEF Init
  <2>2. {gold, nextUnit, nextCard, cursor, rerolls} \subseteq Nat BY DEF Init, StartingGold
  <2>3. /\ deployment \in Deployments \cup {None} /\ aftermath \in Aftermaths \cup {None}
        /\ sectio \in Sectios \cup {None} /\ vacantia \in (SUBSET Lipsana) \cup {None}
    BY DEF Init
  <2> QED BY <1>1, <2>1, <2>2, <2>3 DEF Init, TypeOK
<1>3. Flow BY <1>1 DEF Init, Flow, AfterBattle
<1>4. Finite BY FS_EmptySet DEF Init, Finite
<1> QED BY <1>2, <1>3, <1>4 DEF Core

\* A step that only touches the Deployment.
LEMMA DeploymentKeepsCore ==
  ASSUME Core, deployment' \in Deployments \cup {None},
         phase' = "battle" => deployment' \in Deployments,
         phase' \in {"deployment", "battle"}, phase \in {"deployment", "battle"},
         gold' \in Nat, rerolls' \in Nat, aftermath' \in {aftermath, None},
         UNCHANGED <<battle, conflict, force, relics, cursor, sectio, vacantia, banked>>
  PROVE  Core'
<1>1. /\ battle' = battle /\ conflict' = conflict /\ army' = army /\ cards' = cards
      /\ nextUnit' = nextUnit /\ nextCard' = nextCard /\ lipsana' = lipsana /\ seen' = seen
      /\ paid' = paid /\ cursor' = cursor /\ sectio' = sectio /\ vacantia' = vacantia
      /\ banked' = banked
  BY DEF force, relics
<1>2. TypeOK' BY <1>1, CoreFacts DEF TypeOK, Phases
<1>3. aftermath = None /\ sectio = None /\ vacantia = None /\ conflict <= battle
  BY CoreFacts DEF Flow, AfterBattle
<1>4. Flow' BY <1>1, <1>3 DEF Flow, AfterBattle
<1>5. Finite' BY <1>1, CoreFacts DEF Finite
<1> QED BY <1>2, <1>4, <1>5 DEF Core

LEMMA CoreTakeKing == ASSUME Core, NEW king \in Kings, TakeCommendatioKing(king) PROVE Core'
<1>1. /\ phase = "commendatio" /\ phase' = "deployment" /\ gold' = gold + KingBonus[king]
      /\ army' = StarterUnits(king) /\ cards' = {StarterCard(king)}
      /\ sectio' = None /\ vacantia' = None
      /\ battle' = battle /\ conflict' = conflict /\ nextUnit' = nextUnit /\ nextCard' = nextCard
      /\ lipsana' = lipsana /\ seen' = seen /\ paid' = paid /\ cursor' = cursor
      /\ deployment' = deployment /\ aftermath' = aftermath /\ banked' = banked /\ rerolls' = rerolls
  BY DEF TakeCommendatioKing, relics
<1>2. gold' \in Nat BY <1>1, CoreFacts, CoreAssumption
<1>3. /\ army' \in SUBSET Int /\ IsFiniteSet(army')
      /\ cards' \in SUBSET OwnedCards /\ IsFiniteSet(cards')
  BY <1>1, StarterFacts, FS_Singleton
<1>4. TypeOK' BY <1>1, <1>2, <1>3, CoreFacts DEF TypeOK
<1>5. Flow' BY <1>1, CoreFacts DEF Flow, AfterBattle
<1>6. Finite' BY <1>1, <1>3 DEF Finite
<1> QED BY <1>4, <1>5, <1>6 DEF Core

LEMMA CorePrepare == ASSUME Core, PrepareDeployment PROVE Core'
<1>1. /\ phase = "deployment" /\ phase' = phase /\ Deal(battle) /\ battle \in Battles
      /\ gold' \in Nat /\ rerolls' \in Nat /\ aftermath' = aftermath
      /\ UNCHANGED <<battle, conflict, force, relics, cursor, sectio, vacantia, banked>>
  BY CoreFacts DEF PrepareDeployment
<1>2. deployment' \in Deployments BY <1>1, DealFacts
<1> QED BY <1>1, <1>2, DeploymentKeepsCore

LEMMA CoreChoices ==
  ASSUME Core, NEW next \in Deployments, SetDeploymentChoices(next) PROVE Core'
<1>1. /\ phase = "deployment" /\ phase' = phase /\ deployment' = next
      /\ gold' \in Nat /\ rerolls' \in Nat /\ aftermath' = aftermath
      /\ UNCHANGED <<battle, conflict, force, relics, cursor, sectio, vacantia, banked>>
  BY CoreFacts DEF SetDeploymentChoices
<1> QED BY <1>1, DeploymentKeepsCore

LEMMA CoreDeal == ASSUME Core, DealCards PROVE Core'
<1> DEFINE next == [deployment EXCEPT !.stage = IF @ = "dealing" THEN "arranging" ELSE "dealing"]
<1>1. deployment # None /\ SetDeploymentChoices(next) BY DEF DealCards
<1>2. deployment \in Deployments BY <1>1, CoreFacts
<1>3. next \in Deployments BY <1>2 DEF Deployments
<1> HIDE DEF next
<1> QED BY <1>1, <1>3, CoreChoices

LEMMA CorePlace == ASSUME Core, NEW card \in cards, PlaceCard(card) \/ RemoveCard(card) PROVE Core'
<1> DEFINE placed == [deployment EXCEPT !.placed = @ \cup {card}]
           removed == [deployment EXCEPT !.placed = @ \ {card}]
<1>1. deployment # None /\ (SetDeploymentChoices(placed) \/ SetDeploymentChoices(removed))
  BY DEF PlaceCard, RemoveCard
<1>2. deployment \in Deployments /\ card \in OwnedCards BY <1>1, CoreFacts
<1>3. placed \in Deployments /\ removed \in Deployments BY <1>2 DEF Deployments
<1> HIDE DEF placed, removed
<1> QED BY <1>1, <1>3, CoreChoices

LEMMA CoreBegin == ASSUME Core, BeginBattle PROVE Core'
<1>1. /\ phase = "deployment" /\ phase' = "battle" /\ deployment # None
      /\ deployment' = [deployment EXCEPT !.stage = "complete"]
      /\ gold' \in Nat /\ rerolls' \in Nat /\ aftermath' = aftermath
      /\ UNCHANGED <<battle, conflict, force, relics, cursor, sectio, vacantia, banked>>
  BY CoreFacts DEF BeginBattle
<1>2. deployment \in Deployments BY <1>1, CoreFacts
<1>3. deployment' \in Deployments BY <1>1, <1>2 DEF Deployments
<1> QED BY <1>1, <1>3, DeploymentKeepsCore

LEMMA CoreReroll == ASSUME Core, RerollDeployment PROVE Core'
<1>1. /\ phase = "battle" /\ phase' = "deployment" /\ gold >= RerollCost
      /\ gold' = gold - RerollCost /\ rerolls' = rerolls + 1 /\ aftermath' = None
      /\ deployment' = FreshDeployment(deployment.hand, battle, "arranging")
      /\ UNCHANGED <<battle, conflict, force, relics, cursor, sectio, vacantia, banked>>
  BY DEF RerollDeployment, CanPay
<1>2. gold' \in Nat /\ rerolls' \in Nat BY <1>1, CoreFacts DEF RerollCost
<1>3. deployment.hand \in Seq(OwnedCards) BY <1>1, CoreFacts DEF Flow, Deployments
<1>4. \A i \in DOMAIN deployment.hand : deployment.hand[i] \in OwnedCards BY <1>3
<1>5. Admitted(deployment.hand, War[battle].capacity) \in SUBSET OwnedCards BY <1>4 DEF Admitted
<1>6. deployment' \in Deployments BY <1>1, <1>3, <1>5 DEF FreshDeployment, Deployments
<1> QED BY <1>1, <1>2, <1>6, DeploymentKeepsCore

LEMMA CoreClose ==
  ASSUME Core, NEW speed \in SpeedBonus, NEW tribute \in Tributes,
         NEW surviving \in {1, Cardinality(army)}, CloseBattle(speed, tribute, surviving)
  PROVE  Core'
<1> DEFINE report == [battle |-> battle, speed |-> speed, tribute |-> tribute, surviving |-> surviving,
                      gold |-> Reward(speed, tribute, surviving)]
<1>1. /\ phase = "battle" /\ deployment' = None
      /\ battle' = battle /\ conflict' = conflict /\ gold' = gold /\ army' = army /\ cards' = cards
      /\ nextUnit' = nextUnit /\ nextCard' = nextCard /\ lipsana' = lipsana /\ seen' = seen
      /\ paid' = paid /\ cursor' = cursor /\ vacantia' = vacantia /\ banked' = banked
      /\ rerolls' = rerolls
  BY DEF CloseBattle, force, relics
<1>2. /\ battle \in Battles /\ conflict <= battle /\ sectio = None /\ vacantia = None
  BY <1>1, CoreFacts DEF Flow
<1>3. surviving \in Nat BY CoreFacts, FS_CardinalityType DEF Finite
<1>4. speed \in Nat /\ tribute \in Nat BY NumberAssumption
<1>5. Reward(speed, tribute, surviving) \in Nat BY <1>2, <1>3, <1>4, WarFacts DEF Reward
<1>6. report \in Aftermaths /\ report.battle = battle BY <1>2, <1>3, <1>4, <1>5 DEF Aftermaths
<1> HIDE DEF report
<1>7. CASE battle = Len(War)
  <2>1. phase' = "victory" /\ aftermath' = None /\ sectio' = None BY <1>7 DEF CloseBattle
  <2>2. TypeOK' BY <1>1, <2>1, CoreFacts DEF TypeOK
  <2>3. Flow' BY <1>1, <1>2, <2>1 DEF Flow, AfterBattle
  <2>4. Finite' BY <1>1, <2>1, CoreFacts DEF Finite
  <2> QED BY <2>2, <2>3, <2>4 DEF Core
<1>8. CASE battle # Len(War)
  <2>1. phase' = "aftermath" /\ aftermath' = report /\ sectio' = sectio BY <1>8 DEF CloseBattle, report
  <2>2. battle < Len(War) BY <1>2, <1>8, WarFacts
  <2>3. TypeOK' BY <1>1, <1>6, <2>1, CoreFacts DEF TypeOK
  <2>4. Flow' BY <1>1, <1>2, <1>6, <2>1, <2>2 DEF Flow, AfterBattle
  <2>5. Finite' BY <1>1, <2>1, CoreFacts DEF Finite
  <2> QED BY <2>3, <2>4, <2>5 DEF Core
<1> QED BY <1>7, <1>8

\* A visit that opens leaves the report as it is.
LEMMA VisitKeepsCore ==
  ASSUME Core, phase \in AfterBattle, NEW known \in SUBSET Lipsana, OpenPostBattleSectio(known),
         gold' \in Nat, lipsana' \in SUBSET Lipsana, banked' \in [Battles -> Nat],
         deployment' = None, UNCHANGED <<battle, conflict, force, aftermath, rerolls>>
  PROVE  Core'
<1>1. /\ battle' = battle /\ conflict' = conflict /\ army' = army /\ cards' = cards
      /\ nextUnit' = nextUnit /\ nextCard' = nextCard /\ aftermath' = aftermath /\ rerolls' = rerolls
  BY DEF force
<1>2. /\ phase' = "sectio" /\ vacantia' = None /\ cursor' \in Nat
      /\ seen' \in SUBSET Lipsana /\ paid' \in [Battles -> PaidRecords \cup {None}]
      /\ sectio' \in Sectios /\ sectio'.after = battle /\ sectio'.entry.cards = cards
      /\ sectio'.entry.army = army
  BY PostBattleFacts
<1>3. TypeOK' BY <1>1, <1>2, CoreFacts DEF TypeOK
<1>4. Flow' BY <1>1, <1>2, CoreFacts DEF Flow, AfterBattle
<1>5. Finite' BY <1>1, <1>2, CoreFacts DEF Finite
<1> QED BY <1>3, <1>4, <1>5 DEF Core

\* A report in hand is banked with gold it earned.
LEMMA RewardType ==
  ASSUME Core, phase = "aftermath"
  PROVE  /\ aftermath \in Aftermaths /\ aftermath.battle = battle
         /\ Reward(aftermath.speed, aftermath.tribute, aftermath.surviving) \in Nat
<1>1. aftermath \in Aftermaths /\ aftermath.battle = battle /\ battle \in Battles
  BY CoreFacts DEF Flow
<1> QED BY <1>1, WarFacts DEF Aftermaths, Reward

LEMMA CoreLeaveAftermath == ASSUME Core, LeaveAftermath PROVE Core'
<1> DEFINE reward == Reward(aftermath.speed, aftermath.tribute, aftermath.surviving)
<1>1. /\ phase = "aftermath"
      /\ battle' = battle /\ conflict' = conflict /\ army' = army /\ cards' = cards
      /\ nextUnit' = nextUnit /\ nextCard' = nextCard /\ aftermath' = aftermath /\ rerolls' = rerolls
      /\ UNCHANGED <<battle, conflict, force, aftermath, rerolls>>
  BY DEF LeaveAftermath, force
<1>2. phase \in AfterBattle /\ reward \in Nat BY <1>1, RewardType DEF AfterBattle
<1> HIDE DEF reward
<1>3. CASE Reviewed
  <2>1. /\ phase' = "sectio" /\ gold' = gold /\ banked' = banked /\ lipsana' = lipsana /\ seen' = seen
        /\ paid' = paid /\ cursor' = cursor /\ deployment' = deployment /\ sectio' = sectio
        /\ vacantia' = vacantia
    BY <1>3 DEF LeaveAftermath, relics
  <2>2. sectio # None BY <1>3 DEF Reviewed
  <2>3. TypeOK' BY <1>1, <2>1, CoreFacts DEF TypeOK
  <2>4. Flow' BY <1>1, <2>1, <2>2, CoreFacts DEF Flow, AfterBattle
  <2>5. Finite' BY <1>1, <2>1, CoreFacts DEF Finite
  <2> QED BY <2>3, <2>4, <2>5 DEF Core
<1>4. CASE ~Reviewed
  <2>1. OpenSectio(reward) BY <1>4 DEF LeaveAftermath, reward
  <2>2. /\ gold' = gold + reward /\ banked' = [banked EXCEPT ![battle] = @ + reward]
        /\ deployment' = None /\ lipsana' = lipsana
    BY <2>1 DEF OpenSectio
  <2>3. gold' \in Nat /\ banked' \in [Battles -> Nat] /\ lipsana' \in SUBSET Lipsana
    BY <1>2, <2>2, CoreFacts
  <2>4. CASE War[battle].loot /\ OpensWithVacantia(battle + 1)
    <3>1. PICK offers \in Reveals(seen, lipsana) :
            /\ phase' = "bona-vacantia" /\ vacantia' = offers
            /\ seen' = seen \cup offers /\ sectio' = None
            /\ paid' = paid /\ cursor' = cursor
      BY <2>1, <2>4 DEF OpenSectio
    <3>2. offers \in SUBSET Lipsana BY DEF Reveals, Draws, Available
    <3>3. seen' \in SUBSET Lipsana BY <3>1, <3>2, CoreFacts
    <3>4. TypeOK' BY <1>1, <2>2, <2>3, <3>1, <3>2, <3>3, CoreFacts DEF TypeOK
    <3>5. Flow' BY <1>1, <1>2, <2>2, <3>1, <3>2, CoreFacts DEF Flow, AfterBattle
    <3>6. Finite' BY <1>1, <3>1, CoreFacts DEF Finite
    <3> QED BY <3>4, <3>5, <3>6 DEF Core
  <2>5. CASE ~(War[battle].loot /\ OpensWithVacantia(battle + 1))
    <3>1. OpenPostBattleSectio(seen) BY <2>1, <2>5 DEF OpenSectio
    <3>2. seen \in SUBSET Lipsana BY CoreFacts
    <3> QED BY <1>1, <1>2, <2>2, <2>3, <3>1, <3>2, VisitKeepsCore
  <2> QED BY <2>4, <2>5
<1> QED BY <1>3, <1>4

LEMMA CoreReview == ASSUME Core, ReviewReport PROVE Core'
<1>1. /\ phase = "sectio" /\ phase' = "aftermath" /\ aftermath # None
      /\ battle' = battle /\ conflict' = conflict /\ army' = army /\ cards' = cards /\ gold' = gold
      /\ nextUnit' = nextUnit /\ nextCard' = nextCard /\ aftermath' = aftermath /\ rerolls' = rerolls
      /\ banked' = banked /\ lipsana' = lipsana /\ seen' = seen
      /\ paid' = paid /\ cursor' = cursor /\ deployment' = deployment /\ sectio' = sectio
      /\ vacantia' = vacantia
  BY DEF ReviewReport, force, relics, screens
<1>2. TypeOK' BY <1>1, CoreFacts DEF TypeOK
<1>3. Flow' BY <1>1, CoreFacts DEF Flow, AfterBattle
<1>4. Finite' BY <1>1, CoreFacts DEF Finite
<1> QED BY <1>2, <1>3, <1>4 DEF Core

LEMMA CoreTakeVacantia ==
  ASSUME Core, NEW lipsanon \in Lipsana, TakeVacantiaLipsanon(lipsanon) PROVE Core'
<1>1. /\ phase = "bona-vacantia" /\ lipsana' = lipsana \cup {lipsanon}
      /\ gold' = gold + Payout[lipsanon] /\ OpenPostBattleSectio(seen \cup {lipsanon})
      /\ deployment' = deployment /\ banked' = banked
      /\ UNCHANGED <<battle, conflict, force, aftermath, rerolls>>
  BY DEF TakeVacantiaLipsanon, Acquire
<1>2. Payout[lipsanon] \in Nat BY LipsanaAssumption
<1>3. /\ gold' \in Nat /\ lipsana' \in SUBSET Lipsana /\ banked' \in [Battles -> Nat]
      /\ seen \cup {lipsanon} \in SUBSET Lipsana /\ phase \in AfterBattle /\ deployment' = None
  BY <1>1, <1>2, CoreFacts DEF Flow, AfterBattle
<1> QED BY <1>1, <1>3, VisitKeepsCore

\* A step of a visit.
LEMMA SectioKeepsCore ==
  ASSUME Core, phase = "sectio", phase' = phase,
         gold' \in Nat, army' \in SUBSET Int, cards' \in SUBSET OwnedCards,
         nextUnit' \in Nat, nextCard' \in Nat, lipsana' \in SUBSET Lipsana, seen' \in SUBSET Lipsana,
         paid' \in [Battles -> PaidRecords \cup {None}], IsFiniteSet(army'), IsFiniteSet(cards'),
         sectio' \in Sectios, sectio'.after = sectio.after, sectio'.entry = sectio.entry,
         UNCHANGED <<battle, conflict, cursor, deployment, aftermath, vacantia, banked, rerolls>>
  PROVE  Core'
<1>1. /\ battle' = battle /\ conflict' = conflict /\ cursor' = cursor /\ deployment' = deployment
      /\ aftermath' = aftermath /\ vacantia' = vacantia /\ banked' = banked /\ rerolls' = rerolls
  OBVIOUS
<1>2. TypeOK' BY <1>1, CoreFacts DEF TypeOK
<1>3. sectio # None BY CoreFacts, NoRecordAssumption DEF Flow
<1>4. Flow' BY <1>1, <1>3, CoreFacts DEF Flow, AfterBattle
<1>5. Finite' BY <1>1, <1>3, CoreFacts DEF Finite
<1> QED BY <1>2, <1>4, <1>5 DEF Core

\* The record of a visit and of its entry.
LEMMA SectioFacts ==
  ASSUME Core, phase = "sectio"
  PROVE  /\ sectio \in Sectios /\ sectio # None /\ sectio.after = battle
         /\ sectio.entry \in Entries
         /\ IsFiniteSet(sectio.entry.cards) /\ IsFiniteSet(sectio.entry.army)
<1>1. sectio \in Sectios /\ sectio # None BY CoreFacts, NoRecordAssumption DEF Flow
<1> QED BY <1>1, CoreFacts DEF Flow, Finite, Sectios

\* What a card on offer costs and brings.
LEMMA OfferFacts ==
  ASSUME NEW offer \in CardOffers
  PROVE  Cost[offer.core] \in Nat /\ Pieces[offer.core] \in Nat \ {0} /\ offer.core \in Cores
         /\ offer.core \notin Kings
BY CoreAssumption DEF CardOffers, Cores

LEMMA CoreAdlect == ASSUME Core, InSectio, NEW offer \in sectio.offers, Adlect(offer) PROVE Core'
<1> DEFINE units == nextUnit..(nextUnit + Pieces[offer.core] - 1)
           card == [id |-> nextCard, core |-> offer.core, seats |-> units]
           record == [sectio EXCEPT !.admitted = offer]
<1>1. /\ phase = "sectio" /\ gold >= Cost[offer.core] /\ phase' = phase
      /\ army' = army \cup units /\ cards' = cards \cup {card}
      /\ nextUnit' = nextUnit + Pieces[offer.core] /\ nextCard' = nextCard + 1
      /\ gold' = gold - Cost[offer.core] /\ sectio' = record
      /\ lipsana' = lipsana /\ seen' = seen /\ paid' = paid
      /\ UNCHANGED <<battle, conflict, cursor, deployment, aftermath, vacantia, banked, rerolls>>
  BY DEF Adlect, InSectio, CanPay, relics
<1>2. sectio \in Sectios /\ offer \in CardOffers BY <1>1, SectioFacts DEF Sectios
<1>3. Cost[offer.core] \in Nat /\ Pieces[offer.core] \in Nat \ {0} /\ offer.core \in Cores
  BY <1>2, OfferFacts
<1>f. /\ gold \in Nat /\ nextUnit \in Nat /\ nextCard \in Nat /\ army \in SUBSET Int
      /\ cards \in SUBSET OwnedCards /\ IsFiniteSet(army) /\ IsFiniteSet(cards)
      /\ lipsana \in SUBSET Lipsana /\ seen \in SUBSET Lipsana
      /\ paid \in [Battles -> PaidRecords \cup {None}]
  BY CoreFacts DEF Finite
<1>4. IsFiniteSet(units) /\ units \in SUBSET Int
  <2>1. nextUnit \in Int /\ nextUnit + Pieces[offer.core] - 1 \in Int BY <1>3, <1>f
  <2> QED BY <2>1, FS_Interval
<1> HIDE DEF units
<1>5. card \in OwnedCards BY <1>3, <1>4, <1>f DEF OwnedCards
<1> HIDE DEF card
<1>6. record \in Sectios /\ record.after = sectio.after /\ record.entry = sectio.entry
  BY <1>2 DEF Sectios
<1> HIDE DEF record
<1>7. /\ gold' \in Nat /\ nextUnit' \in Nat /\ nextCard' \in Nat BY <1>1, <1>3, <1>f
<1>8. IsFiniteSet(army') /\ army' \in SUBSET Int BY <1>1, <1>4, <1>f, FS_Union
<1>9. IsFiniteSet(cards') /\ cards' \in SUBSET OwnedCards BY <1>1, <1>5, <1>f, FS_AddElement
<1> QED BY <1>1, <1>6, <1>7, <1>8, <1>9, <1>f, SectioKeepsCore

LEMMA CoreExpunge == ASSUME Core, NEW card \in cards, Expunge(card) PROVE Core'
<1> DEFINE record == [sectio EXCEPT !.struck = card]
<1>1. /\ phase = "sectio" /\ gold >= Fee[card.core] /\ phase' = phase
      /\ army' = army \ card.seats /\ cards' = cards \ {card}
      /\ nextUnit' = nextUnit /\ nextCard' = nextCard
      /\ gold' = gold - Fee[card.core] /\ sectio' = record
      /\ lipsana' = lipsana /\ seen' = seen /\ paid' = paid
      /\ UNCHANGED <<battle, conflict, cursor, deployment, aftermath, vacantia, banked, rerolls>>
  BY DEF Expunge, InSectio, CanPay, relics
<1>2. sectio \in Sectios BY <1>1, SectioFacts
<1>f. /\ gold \in Nat /\ nextUnit \in Nat /\ nextCard \in Nat /\ army \in SUBSET Int
      /\ cards \in SUBSET OwnedCards /\ IsFiniteSet(army) /\ IsFiniteSet(cards)
      /\ lipsana \in SUBSET Lipsana /\ seen \in SUBSET Lipsana
      /\ paid \in [Battles -> PaidRecords \cup {None}]
  BY CoreFacts DEF Finite
<1>3. card \in OwnedCards BY <1>f
<1>4. Fee[card.core] \in Nat BY <1>3, CoreAssumption DEF OwnedCards
<1>5. record \in Sectios /\ record.after = sectio.after /\ record.entry = sectio.entry
  BY <1>2, <1>3 DEF Sectios
<1> HIDE DEF record
<1>6. gold' \in Nat BY <1>1, <1>4, <1>f
<1>7. army' \in SUBSET army /\ cards' \in SUBSET cards BY <1>1
<1>8. IsFiniteSet(army') /\ army' \in SUBSET Int BY <1>7, <1>f, FS_Subset
<1>9. IsFiniteSet(cards') /\ cards' \in SUBSET OwnedCards BY <1>7, <1>f, FS_Subset
<1> QED BY <1>1, <1>5, <1>6, <1>8, <1>9, <1>f, SectioKeepsCore

LEMMA CoreBuy == ASSUME Core, BuyPaidLipsanon PROVE Core'
<1> DEFINE record == [sectio EXCEPT !.bought = TRUE]
           sale == [lipsanon |-> sectio.offer, bought |-> TRUE]
<1>1. /\ phase = "sectio" /\ gold >= PaidLipsanonCost /\ phase' = phase /\ sectio.offer # None
      /\ lipsana' = lipsana \cup {sectio.offer} /\ seen' = seen \cup {sectio.offer}
      /\ gold' = gold + Payout[sectio.offer] - PaidLipsanonCost
      /\ paid' = [paid EXCEPT ![conflict] = sale] /\ sectio' = record
      /\ army' = army /\ cards' = cards /\ nextUnit' = nextUnit /\ nextCard' = nextCard
      /\ UNCHANGED <<battle, conflict, cursor, deployment, aftermath, vacantia, banked, rerolls>>
  BY DEF BuyPaidLipsanon, InSectio, CanPay, Acquire, force
<1>2. sectio \in Sectios BY <1>1, SectioFacts
<1>3. sectio.offer \in Lipsana BY <1>1, <1>2 DEF Sectios
<1>f. /\ gold \in Nat /\ nextUnit \in Nat /\ nextCard \in Nat /\ army \in SUBSET Int
      /\ cards \in SUBSET OwnedCards /\ IsFiniteSet(army) /\ IsFiniteSet(cards)
      /\ lipsana \in SUBSET Lipsana /\ seen \in SUBSET Lipsana
      /\ paid \in [Battles -> PaidRecords \cup {None}]
  BY CoreFacts DEF Finite
<1>4. Payout[sectio.offer] \in Nat BY <1>3, LipsanaAssumption
<1>5. sale \in PaidRecords BY <1>3 DEF PaidRecords
<1>6. record \in Sectios /\ record.after = sectio.after /\ record.entry = sectio.entry
  BY <1>2 DEF Sectios
<1> HIDE DEF record, sale
<1>7. gold' \in Nat BY <1>1, <1>4, <1>f DEF PaidLipsanonCost
<1>8. lipsana' \in SUBSET Lipsana /\ seen' \in SUBSET Lipsana BY <1>1, <1>3, <1>f
<1>9. paid' \in [Battles -> PaidRecords \cup {None}] BY <1>1, <1>5, <1>f
<1> QED BY <1>1, <1>6, <1>7, <1>8, <1>9, <1>f, SectioKeepsCore

LEMMA CoreReset == ASSUME Core, ResetSectio PROVE Core'
<1> DEFINE record == [sectio EXCEPT !.admitted = None, !.bought = sectio.entry.bought, !.struck = None]
<1>1. /\ phase = "sectio" /\ phase' = phase /\ gold' = sectio.entry.gold /\ army' = sectio.entry.army
      /\ cards' = sectio.entry.cards /\ lipsana' = sectio.entry.lipsana /\ seen' = sectio.entry.seen
      /\ paid' = sectio.entry.paid /\ nextUnit' = sectio.entry.nextUnit
      /\ nextCard' = sectio.entry.nextCard /\ sectio' = record
      /\ UNCHANGED <<battle, conflict, cursor, deployment, aftermath, vacantia, banked, rerolls>>
  BY DEF ResetSectio, InSectio, RestoredLipsana
<1>2. /\ sectio \in Sectios /\ sectio.entry \in Entries
      /\ IsFiniteSet(sectio.entry.cards) /\ IsFiniteSet(sectio.entry.army)
  BY <1>1, SectioFacts
<1>3. record \in Sectios /\ record.after = sectio.after /\ record.entry = sectio.entry
  BY <1>2 DEF Sectios, Entries
<1> HIDE DEF record
<1>4. /\ gold' \in Nat /\ army' \in SUBSET Int /\ cards' \in SUBSET OwnedCards
      /\ nextUnit' \in Nat /\ nextCard' \in Nat /\ lipsana' \in SUBSET Lipsana
      /\ seen' \in SUBSET Lipsana /\ paid' \in [Battles -> PaidRecords \cup {None}]
  BY <1>1, <1>2 DEF Entries
<1> QED BY <1>1, <1>2, <1>3, <1>4, SectioKeepsCore

LEMMA CoreLeaveSectio == ASSUME Core, LeaveSectio PROVE Core'
<1>1. /\ phase = "sectio" /\ phase' = "deployment" /\ battle' = battle + 1
      /\ conflict' \in {conflict, conflict + 1} /\ sectio' = None /\ aftermath' = None
      /\ Deal(battle + 1) /\ gold' = gold /\ army' = army /\ cards' = cards
      /\ nextUnit' = nextUnit /\ nextCard' = nextCard /\ lipsana' = lipsana /\ seen' = seen
      /\ paid' = paid /\ cursor' = cursor /\ vacantia' = vacantia /\ banked' = banked
      /\ rerolls' = rerolls
  BY DEF LeaveSectio, InSectio, force, relics
<1>2. /\ battle + 1 \in Battles /\ conflict + 1 \in Battles /\ conflict \in Battles
      /\ battle \in Battles /\ conflict <= battle /\ vacantia = None
  BY <1>1, NextBattle, CoreFacts DEF AfterBattle, Flow
<1>3. battle' \in Battles /\ conflict' \in Battles /\ conflict' <= battle'
  BY <1>1, <1>2, WarFacts
<1>4. deployment' \in Deployments BY <1>1, <1>2, DealFacts
<1>5. TypeOK' BY <1>1, <1>3, <1>4, CoreFacts DEF TypeOK
<1>6. Flow' BY <1>1, <1>2, <1>3 DEF Flow, AfterBattle
<1>7. Finite' BY <1>1, CoreFacts DEF Finite
<1> QED BY <1>5, <1>6, <1>7 DEF Core

LEMMA CoreStutter == ASSUME Core, UNCHANGED vars PROVE Core'
<1>1. TypeOK /\ Flow /\ Finite BY DEF Core
<1>2. TypeOK' BY <1>1 DEF TypeOK, vars
<1>3. Flow' BY <1>1 DEF Flow, vars
<1>4. Finite' BY <1>1 DEF Finite, vars
<1> QED BY <1>2, <1>3, <1>4 DEF Core

LEMMA CoreStep == Core /\ [Next]_vars => Core'
<1> SUFFICES ASSUME Core, [Next]_vars PROVE Core' OBVIOUS
<1>1. CASE \E card \in cards : PlaceCard(card) \/ RemoveCard(card) \/ Expunge(card)
  BY <1>1, CorePlace, CoreExpunge
<1>2. CASE \E speed \in SpeedBonus, tribute \in Tributes, surviving \in {1, Cardinality(army)} :
             CloseBattle(speed, tribute, surviving)
  BY <1>2, CoreClose
<1>3. CASE InSectio /\ \E offer \in sectio.offers : Adlect(offer) BY <1>3, CoreAdlect
<1>4. CASE \E king \in Kings : TakeCommendatioKing(king) BY <1>4, CoreTakeKing
<1>5. CASE \E lipsanon \in Lipsana : TakeVacantiaLipsanon(lipsanon) BY <1>5, CoreTakeVacantia
<1> QED
  BY <1>1, <1>2, <1>3, <1>4, <1>5, CorePrepare, CoreDeal, CoreBegin, CoreReroll, CoreLeaveAftermath,
     CoreReview, CoreBuy, CoreReset, CoreLeaveSectio, CoreStutter DEF Next

\* The phase, the purse, the force, the lipsana and the records of the screens keep their types.
THEOREM TypeCorrect == Spec => []TypeOK
<1>1. Core => TypeOK BY DEF Core
<1> QED BY <1>1, CoreInit, CoreStep, PTL DEF Spec

----------------------------------------------------------------------------
(* The report of a Battle and what is banked for it *)

\* Has the Battle that is named by `battle` still to be banked?
Unbanked == phase \in {"commendatio", "deployment", "battle"} \/ (phase = "aftermath" /\ sectio = None)

Banking ==
  /\ \A b \in Battles : b > battle => banked[b] = 0
  /\ Unbanked => banked[battle] = 0
  /\ phase = "aftermath" /\ sectio = None =>
       aftermath.gold = Reward(aftermath.speed, aftermath.tribute, aftermath.surviving)
  /\ BankedAsReported

\* A step within the same stage of the same Battle.
LEMMA BankingKept ==
  ASSUME Banking, battle' = battle, banked' = banked, phase' # "aftermath", phase # "aftermath",
         Unbanked' => Unbanked, aftermath' \in {aftermath, None}
  PROVE  Banking'
<1>1. \A b \in Battles : b > battle' => banked'[b] = 0 BY DEF Banking
<1>2. Unbanked' => banked'[battle'] = 0 BY DEF Banking
<1>3. BankedAsReported' BY DEF Banking, BankedAsReported
<1> QED BY <1>1, <1>2, <1>3 DEF Banking

LEMMA BankingInit == Init => Banking
<1> SUFFICES ASSUME Init PROVE Banking OBVIOUS
<1>1. battle \in Battles BY WarFacts DEF Init
<1>2. \A b \in Battles : banked[b] = 0 BY DEF Init
<1> QED BY <1>1, <1>2 DEF Init, Banking, BankedAsReported, Unbanked

LEMMA BankingClose ==
  ASSUME Core, Banking, NEW speed \in SpeedBonus, NEW tribute \in Tributes,
         NEW surviving \in {1, Cardinality(army)}, CloseBattle(speed, tribute, surviving)
  PROVE  Banking'
<1>1. /\ phase = "battle" /\ battle' = battle /\ banked' = banked /\ lipsana' = lipsana
      /\ sectio = None /\ banked[battle] = 0
  BY CoreFacts DEF CloseBattle, relics, Flow, Banking, Unbanked
<1>2. \A b \in Battles : b > battle' => banked'[b] = 0 BY <1>1 DEF Banking
<1>3. CASE battle = Len(War)
  <2>1. phase' = "victory" /\ aftermath' = None BY <1>3 DEF CloseBattle
  <2> QED BY <1>1, <1>2, <2>1 DEF Banking, Unbanked, BankedAsReported
<1>4. CASE battle # Len(War)
  <2>1. /\ phase' = "aftermath" /\ sectio' = sectio
        /\ aftermath' = [battle |-> battle, speed |-> speed, tribute |-> tribute,
                         surviving |-> surviving, gold |-> Reward(speed, tribute, surviving)]
    BY <1>4 DEF CloseBattle
  <2>2. aftermath'.gold = Reward(speed, tribute, surviving) BY <2>1
  <2>3. /\ aftermath'.battle = battle /\ aftermath'.speed = speed /\ aftermath'.tribute = tribute
        /\ aftermath'.surviving = surviving
    BY <2>1
  <2>4. Reward(speed, tribute, surviving)' = Reward(speed, tribute, surviving)
    BY <1>1 DEF Reward, Held
  <2>5. aftermath'.gold = Reward(aftermath.speed, aftermath.tribute, aftermath.surviving)'
    BY <2>2, <2>3, <2>4, <1>1 DEF Reward, Held
  <2> QED BY <1>1, <1>2, <2>1, <2>3, <2>5 DEF Banking, Unbanked, BankedAsReported
<1> QED BY <1>3, <1>4

LEMMA BankingLeaveAftermath == ASSUME Core, Banking, LeaveAftermath PROVE Banking'
<1> DEFINE reward == Reward(aftermath.speed, aftermath.tribute, aftermath.surviving)
<1>1. phase = "aftermath" /\ battle' = battle /\ aftermath' = aftermath BY DEF LeaveAftermath
<1>2. /\ aftermath.battle = battle /\ battle \in Battles /\ banked \in [Battles -> Nat]
      /\ reward \in Nat
  BY <1>1, RewardType, CoreFacts
<1>3. CASE Reviewed
  <2>1. phase' = "sectio" /\ banked' = banked /\ sectio # None
    BY <1>3 DEF LeaveAftermath, Reviewed
  <2> QED BY <1>1, <2>1 DEF Banking, Unbanked, BankedAsReported
<1>4. CASE ~Reviewed
  <2>1. OpenSectio(reward) BY <1>4 DEF LeaveAftermath
  <2>2. sectio = None BY <1>1, <1>2, <1>4, CoreFacts DEF Reviewed, Flow
  <2>3. banked[battle] = 0 /\ aftermath.gold = reward BY <1>1, <2>2 DEF Banking, Unbanked
  <2> HIDE DEF reward
  <2>4. banked' = [banked EXCEPT ![battle] = @ + reward] BY <2>1 DEF OpenSectio
  <2>5. banked'[battle] = reward BY <1>2, <2>3, <2>4
  <2>6. phase' \in {"bona-vacantia", "sectio"} BY <2>1 DEF OpenSectio, OpenPostBattleSectio
  <2>7. \A b \in Battles : b > battle' => banked'[b] = 0
    BY <1>1, <1>2, <2>4, WarFacts DEF Banking
  <2>8. BankedAsReported' BY <1>1, <1>2, <2>3, <2>5, <2>6 DEF BankedAsReported
  <2> QED BY <2>6, <2>7, <2>8 DEF Banking, Unbanked
<1> QED BY <1>3, <1>4

LEMMA BankingReview == ASSUME Core, Banking, ReviewReport PROVE Banking'
<1>1. /\ phase = "sectio" /\ phase' = "aftermath" /\ battle' = battle /\ banked' = banked
      /\ aftermath' = aftermath /\ sectio' = sectio
  BY DEF ReviewReport, screens
<1>2. sectio # None BY <1>1, SectioFacts
<1> QED BY <1>1, <1>2 DEF Banking, Unbanked, BankedAsReported

LEMMA BankingLeaveSectio == ASSUME Core, Banking, LeaveSectio PROVE Banking'
<1>1. /\ phase = "sectio" /\ phase' = "deployment" /\ battle' = battle + 1 /\ banked' = banked
      /\ aftermath' = None
  BY DEF LeaveSectio, InSectio
<1>2. battle \in Battles /\ battle + 1 \in Battles BY <1>1, NextBattle, CoreFacts DEF AfterBattle
<1>3. \A b \in Battles : b > battle' => banked'[b] = 0 BY <1>1, <1>2, WarFacts DEF Banking
<1>4. banked'[battle'] = 0 BY <1>1, <1>2, WarFacts DEF Banking
<1> QED BY <1>1, <1>3, <1>4 DEF Banking, BankedAsReported

LEMMA BankingStep == Core /\ Banking /\ [Next]_vars => Banking'
<1> SUFFICES ASSUME Core, Banking, [Next]_vars PROVE Banking' OBVIOUS
<1>1. ASSUME NEW king \in Kings, TakeCommendatioKing(king) PROVE Banking'
  BY <1>1, BankingKept DEF TakeCommendatioKing, Unbanked
<1>2. CASE PrepareDeployment BY <1>2, BankingKept DEF PrepareDeployment, Unbanked
<1>3. ASSUME NEW next, SetDeploymentChoices(next) PROVE Banking'
  BY <1>3, BankingKept DEF SetDeploymentChoices, Unbanked
<1>4. CASE DealCards \/ \E card \in cards : PlaceCard(card) \/ RemoveCard(card)
  BY <1>3, <1>4 DEF DealCards, PlaceCard, RemoveCard
<1>5. CASE BeginBattle BY <1>5, BankingKept DEF BeginBattle, Unbanked
<1>6. CASE RerollDeployment BY <1>6, BankingKept DEF RerollDeployment, Unbanked
<1>7. ASSUME NEW speed \in SpeedBonus, NEW tribute \in Tributes,
             NEW surviving \in {1, Cardinality(army)}, CloseBattle(speed, tribute, surviving)
      PROVE  Banking'
  BY <1>7, BankingClose
<1>8. ASSUME NEW lipsanon \in Lipsana, TakeVacantiaLipsanon(lipsanon) PROVE Banking'
  BY <1>8, BankingKept DEF TakeVacantiaLipsanon, OpenPostBattleSectio, Unbanked
<1>9. ASSUME phase = "sectio", phase' = phase, banked' = banked, battle' = battle, aftermath' = aftermath
      PROVE  Banking'
  BY <1>9, BankingKept DEF Unbanked
<1>10. ASSUME NEW offer, Adlect(offer) PROVE Banking' BY <1>9, <1>10 DEF Adlect, InSectio
<1>11. ASSUME NEW card, Expunge(card) PROVE Banking' BY <1>9, <1>11 DEF Expunge, InSectio
<1>12. CASE BuyPaidLipsanon BY <1>9, <1>12 DEF BuyPaidLipsanon, InSectio
<1>13. CASE ResetSectio BY <1>9, <1>13 DEF ResetSectio, InSectio
<1>14. CASE UNCHANGED vars
  <2>1. /\ phase' = phase /\ battle' = battle /\ banked' = banked /\ aftermath' = aftermath
        /\ sectio' = sectio /\ lipsana' = lipsana
    BY <1>14 DEF vars
  <2> QED BY <2>1 DEF Banking, Unbanked, BankedAsReported, Reward, Held
<1> QED
  BY <1>1, <1>2, <1>4, <1>5, <1>6, <1>7, <1>8, <1>10, <1>11, <1>12, <1>13, <1>14,
     BankingLeaveAftermath, BankingReview, BankingLeaveSectio DEF Next

(* However long the report of a Battle is read, and however often it is opened
   again from the Sectio it led to, the Battle is banked once, with the gold
   the report shows (closeBattle, leaveAftermath, reviewSectioBattleReport). *)
THEOREM BankedOnce == Spec => []BankedAsReported
<1>1. Banking => BankedAsReported BY DEF Banking
<1> QED BY <1>1, CoreInit, CoreStep, BankingInit, BankingStep, PTL DEF Spec

----------------------------------------------------------------------------
(* The army and the cards its units sit on *)

Numbered(units, deck, unit, card) ==
  /\ units = Seats(deck)
  /\ \A c, d \in deck : c # d => c.id # d.id /\ c.seats \cap d.seats = {}
  /\ King \in units
  /\ \A u \in units : u < unit
  /\ \A c \in deck : c.id < card
  /\ \A c \in deck : King \in c.seats => IsStarter(c)

\* What Reset would bring back is as well numbered as what is there.
Seating ==
  /\ phase = "commendatio" => nextCard = 1
  /\ phase # "commendatio" => Numbered(army, cards, nextUnit, nextCard)
  /\ sectio # None =>
       Numbered(sectio.entry.army, sectio.entry.cards, sectio.entry.nextUnit, sectio.entry.nextCard)

\* The record of a new visit holds the force of this moment.
LEMMA EntryForce ==
  ASSUME NEW known, OpenPostBattleSectio(known)
  PROVE  /\ phase' = "sectio"
         /\ sectio'.entry.army = army /\ sectio'.entry.cards = cards
         /\ sectio'.entry.nextUnit = nextUnit /\ sectio'.entry.nextCard = nextCard
<1>1. PICK row, offer :
        /\ phase' = "sectio"
        /\ sectio' = [after |-> battle, offers |-> row, admitted |-> None, offer |-> offer.lipsanon,
                      bought |-> offer.bought, struck |-> None, entry |-> EntrySnapshot(offer.bought)]
  BY DEF OpenPostBattleSectio
<1>2. sectio'.entry = EntrySnapshot(offer.bought) BY <1>1
<1> QED BY <1>1, <1>2 DEF EntrySnapshot

\* Most steps leave the force alone, and the record of the visit or its entry.
LEMMA SeatingKept ==
  ASSUME Seating, UNCHANGED force, phase # "commendatio" \/ phase' = phase,
         phase = "commendatio" \/ phase' # "commendatio",
         sectio' # None => sectio' = sectio \/ (sectio # None /\ sectio'.entry = sectio.entry)
  PROVE  Seating'
<1>1. army' = army /\ cards' = cards /\ nextUnit' = nextUnit /\ nextCard' = nextCard BY DEF force
<1> QED BY <1>1 DEF Seating

LEMMA SeatingVisit ==
  ASSUME Seating, UNCHANGED force, NEW known, OpenPostBattleSectio(known), phase # "commendatio"
  PROVE  Seating'
<1>1. army' = army /\ cards' = cards /\ nextUnit' = nextUnit /\ nextCard' = nextCard BY DEF force
<1>2. Numbered(army, cards, nextUnit, nextCard) BY DEF Seating
<1>3. Numbered(sectio.entry.army, sectio.entry.cards, sectio.entry.nextUnit, sectio.entry.nextCard)'
  BY <1>2, EntryForce
<1> QED BY <1>1, <1>2, <1>3, EntryForce DEF Seating

LEMMA SeatingInit == Init => Seating
BY DEF Init, Seating

LEMMA SeatingTakeKing ==
  ASSUME Core, Seating, NEW king \in Kings, TakeCommendatioKing(king) PROVE Seating'
<1>1. /\ phase = "commendatio" /\ phase' = "deployment" /\ sectio' = None
      /\ army' = StarterUnits(king) /\ cards' = {StarterCard(king)}
      /\ nextUnit' = nextUnit /\ nextCard' = nextCard /\ nextCard = 1 /\ nextUnit \in Nat
  BY CoreFacts DEF TakeCommendatioKing, Seating
<1>2. /\ StarterUnits(king) \subseteq Int /\ King \in StarterUnits(king)
      /\ \A u \in StarterUnits(king) : u < 0
  BY StarterFacts
<1>3. /\ StarterCard(king).id = 0 /\ StarterCard(king).seats = StarterUnits(king)
      /\ IsStarter(StarterCard(king))
  BY DEF StarterCard, IsStarter
<1>4. army' = Seats(cards') BY <1>1, <1>3 DEF Seats
<1>5. \A u \in army' : u < nextUnit' BY <1>1, <1>2
<1>6. Numbered(army', cards', nextUnit', nextCard') BY <1>1, <1>2, <1>3, <1>4, <1>5 DEF Numbered
<1> QED BY <1>1, <1>6 DEF Seating

\* New units get new numbers.
LEMMA SeatingAdlect ==
  ASSUME Core, Seating, InSectio, NEW offer \in sectio.offers, Adlect(offer) PROVE Seating'
<1> DEFINE units == nextUnit..(nextUnit + Pieces[offer.core] - 1)
           card == [id |-> nextCard, core |-> offer.core, seats |-> units]
           record == [sectio EXCEPT !.admitted = offer]
<1>1. /\ phase = "sectio" /\ phase' = phase
      /\ army' = army \cup units /\ cards' = cards \cup {card}
      /\ nextUnit' = nextUnit + Pieces[offer.core] /\ nextCard' = nextCard + 1 /\ sectio' = record
  BY DEF Adlect, InSectio
<1>2. /\ sectio \in Sectios /\ offer \in CardOffers /\ sectio # None
      /\ Pieces[offer.core] \in Nat \ {0}
  BY <1>1, SectioFacts, OfferFacts DEF Sectios
<1>3. /\ nextUnit \in Nat /\ nextCard \in Nat /\ army \in SUBSET Int /\ cards \in SUBSET OwnedCards
  BY CoreFacts
<1>4. Numbered(army, cards, nextUnit, nextCard) BY <1>1 DEF Seating
<1>5. /\ \A u \in units : u \in Int /\ u >= nextUnit /\ u < nextUnit + Pieces[offer.core]
      /\ King \notin units
  BY <1>2, <1>3 DEF King
<1> HIDE DEF units
<1>6. card.id = nextCard /\ card.seats = units OBVIOUS
<1> HIDE DEF card
<1>7. army' = Seats(cards') BY <1>1, <1>4, <1>6 DEF Numbered, Seats
<1>8. \A c \in cards : c.id \in Nat /\ c.id < nextCard /\ c.seats \subseteq army
  BY <1>3, <1>4 DEF Numbered, Seats, OwnedCards
<1>9. \A c \in cards : c.id # card.id /\ c.seats \cap card.seats = {}
  <2> SUFFICES ASSUME NEW c \in cards PROVE c.id # card.id /\ c.seats \cap card.seats = {} OBVIOUS
  <2>1. c.id # card.id BY <1>3, <1>6, <1>8
  <2>2. \A u \in army : u \in Int /\ u < nextUnit BY <1>3, <1>4 DEF Numbered
  <2>3. \A u \in c.seats : u \notin units BY <1>3, <1>5, <1>8, <2>2
  <2> QED BY <2>1, <2>3, <1>6
<1>10. \A c, d \in cards' : c # d => c.id # d.id /\ c.seats \cap d.seats = {}
  BY <1>1, <1>4, <1>9 DEF Numbered
<1>11. \A u \in army' : u < nextUnit'
  BY <1>1, <1>2, <1>3, <1>4, <1>5 DEF Numbered
<1>12. \A c \in cards' : c.id < nextCard' BY <1>1, <1>3, <1>6, <1>8
<1>13. King \in army' BY <1>1, <1>4 DEF Numbered
<1>14. \A c \in cards' : King \in c.seats => IsStarter(c) BY <1>1, <1>4, <1>5, <1>6 DEF Numbered
<1>15. Numbered(army', cards', nextUnit', nextCard')
  BY <1>7, <1>10, <1>11, <1>12, <1>13, <1>14 DEF Numbered
<1>16. sectio'.entry = sectio.entry BY <1>1, <1>2 DEF Sectios
<1> QED BY <1>1, <1>2, <1>15, <1>16 DEF Seating

\* A card goes with exactly the units in its seats, and the King's never goes.
LEMMA SeatingExpunge == ASSUME Core, Seating, NEW card \in cards, Expunge(card) PROVE Seating'
<1>1. /\ phase = "sectio" /\ phase' = phase /\ ~IsStarter(card)
      /\ army' = army \ card.seats /\ cards' = cards \ {card}
      /\ nextUnit' = nextUnit /\ nextCard' = nextCard /\ sectio' = [sectio EXCEPT !.struck = card]
  BY DEF Expunge, InSectio, Removable
<1>2. sectio \in Sectios /\ sectio # None BY <1>1, SectioFacts
<1>3. Numbered(army, cards, nextUnit, nextCard) BY <1>1 DEF Seating
<1>4. army' = Seats(cards')
  <2>1. ASSUME NEW u \in army' PROVE u \in Seats(cards') BY <2>1, <1>1, <1>3 DEF Numbered, Seats
  <2>2. ASSUME NEW u \in Seats(cards') PROVE u \in army'
    <3>1. PICK c \in cards' : u \in c.seats BY DEF Seats
    <3>2. c \in cards /\ c # card BY <1>1, <3>1
    <3>3. u \in army /\ u \notin card.seats BY <3>1, <3>2, <1>3 DEF Numbered, Seats
    <3> QED BY <1>1, <3>3
  <2> QED BY <2>1, <2>2
<1>5. King \in army' BY <1>1, <1>3 DEF Numbered
<1>6. Numbered(army', cards', nextUnit', nextCard') BY <1>1, <1>3, <1>4, <1>5 DEF Numbered
<1>7. sectio'.entry = sectio.entry BY <1>1, <1>2 DEF Sectios
<1> QED BY <1>1, <1>2, <1>6, <1>7 DEF Seating

LEMMA SeatingReset == ASSUME Core, Seating, ResetSectio PROVE Seating'
<1>1. /\ phase = "sectio" /\ phase' = phase /\ army' = sectio.entry.army
      /\ cards' = sectio.entry.cards /\ nextUnit' = sectio.entry.nextUnit
      /\ nextCard' = sectio.entry.nextCard
      /\ sectio' = [sectio EXCEPT !.admitted = None, !.bought = sectio.entry.bought, !.struck = None]
  BY DEF ResetSectio, InSectio
<1>2. sectio \in Sectios /\ sectio # None BY <1>1, SectioFacts
<1>3. sectio'.entry = sectio.entry BY <1>1, <1>2 DEF Sectios
<1> QED BY <1>1, <1>2, <1>3 DEF Seating

LEMMA SeatingStep == Core /\ Seating /\ [Next]_vars => Seating'
<1> SUFFICES ASSUME Core, Seating, [Next]_vars PROVE Seating' OBVIOUS
<1>1. CASE PrepareDeployment BY <1>1, SeatingKept DEF PrepareDeployment
<1>2. ASSUME NEW next, SetDeploymentChoices(next) PROVE Seating'
  BY <1>2, SeatingKept DEF SetDeploymentChoices
<1>3. CASE DealCards \/ \E card \in cards : PlaceCard(card) \/ RemoveCard(card)
  BY <1>2, <1>3 DEF DealCards, PlaceCard, RemoveCard
<1>4. CASE BeginBattle BY <1>4, SeatingKept DEF BeginBattle
<1>5. CASE RerollDeployment BY <1>5, SeatingKept DEF RerollDeployment
<1>6. ASSUME NEW speed, NEW tribute, NEW surviving, CloseBattle(speed, tribute, surviving) PROVE Seating'
  BY <1>6, SeatingKept DEF CloseBattle
<1>7. CASE LeaveAftermath
  <2>1. phase = "aftermath" /\ UNCHANGED force BY <1>7 DEF LeaveAftermath
  <2>2. CASE Reviewed BY <2>1, <2>2, <1>7, SeatingKept DEF LeaveAftermath
  <2>3. CASE ~Reviewed
    <3> DEFINE reward == Reward(aftermath.speed, aftermath.tribute, aftermath.surviving)
    <3>1. OpenSectio(reward) BY <2>3, <1>7 DEF LeaveAftermath
    <3> HIDE DEF reward
    <3>2. (phase' = "bona-vacantia" /\ sectio' = None) \/ OpenPostBattleSectio(seen)
      BY <3>1 DEF OpenSectio
    <3> QED BY <2>1, <3>2, SeatingKept, SeatingVisit
  <2> QED BY <2>2, <2>3
<1>8. CASE ReviewReport BY <1>8, SeatingKept DEF ReviewReport, screens
<1>9. ASSUME NEW lipsanon, TakeVacantiaLipsanon(lipsanon) PROVE Seating'
  BY <1>9, SeatingVisit DEF TakeVacantiaLipsanon
<1>10. CASE BuyPaidLipsanon
  <2>1. phase = "sectio" /\ phase' = phase /\ sectio' = [sectio EXCEPT !.bought = TRUE] /\ UNCHANGED force
    BY <1>10 DEF BuyPaidLipsanon, InSectio
  <2>2. sectio \in Sectios /\ sectio # None BY <2>1, SectioFacts
  <2>3. sectio'.entry = sectio.entry BY <2>1, <2>2 DEF Sectios
  <2> QED BY <2>1, <2>2, <2>3, SeatingKept
<1>11. CASE LeaveSectio BY <1>11, SeatingKept DEF LeaveSectio, InSectio
<1>12. CASE UNCHANGED vars BY <1>12, SeatingKept DEF vars, force
<1> QED
  BY <1>1, <1>3, <1>4, <1>5, <1>6, <1>7, <1>8, <1>9, <1>10, <1>11, <1>12,
     SeatingTakeKing, SeatingAdlect, SeatingExpunge, SeatingReset DEF Next

(* Every unit has exactly one seat on a card that is held, the King among them,
   and no id is used twice, whatever is bought, struck and taken back
   (addArmyPieces, performExpunctio, resetSectio). *)
THEOREM UnitsSeated == Spec => []EveryUnitIsSeated
<1>1. Seating => EveryUnitIsSeated BY DEF Seating, Numbered, EveryUnitIsSeated
<1> QED BY <1>1, CoreInit, CoreStep, SeatingInit, SeatingStep, PTL DEF Spec

----------------------------------------------------------------------------
(* The lipsana *)

\* Held, seen and sold agree: for the Run now, and for what Reset would bring back.
Accounts(held, known, sold) ==
  /\ held \subseteq known
  /\ \A c \in Battles : sold[c] # None =>
       /\ sold[c].lipsanon \in known
       /\ sold[c].bought <=> sold[c].lipsanon \in held
       /\ \A d \in Battles : d # c /\ sold[d] # None => sold[c].lipsanon # sold[d].lipsanon

Apart(offers, held, known, sold) ==
  /\ offers \subseteq known \ held
  /\ \A c \in Battles : sold[c] # None => sold[c].lipsanon \notin offers

Accounting ==
  /\ Accounts(lipsana, seen, paid)
  /\ vacantia # None \/ phase = "bona-vacantia" => Apart(vacantia, lipsana, seen, paid)
  /\ sectio # None =>
       /\ Accounts(sectio.entry.lipsana, sectio.entry.seen, sectio.entry.paid)
       /\ sectio.offer # None =>
            /\ paid[conflict] = [lipsanon |-> sectio.offer, bought |-> sectio.bought]
            /\ sectio.entry.paid[conflict] = [lipsanon |-> sectio.offer, bought |-> sectio.entry.bought]

\* Steps that leave the lipsana alone.
LEMMA AccountingKept ==
  ASSUME Accounting, UNCHANGED relics,
         vacantia' # None \/ phase' = "bona-vacantia" =>
           vacantia' = vacantia /\ (vacantia # None \/ phase = "bona-vacantia"),
         sectio' # None =>
           /\ sectio # None /\ sectio'.entry = sectio.entry /\ sectio'.offer = sectio.offer
           /\ sectio'.bought = sectio.bought /\ conflict' = conflict
  PROVE  Accounting'
<1>1. lipsana' = lipsana /\ seen' = seen /\ paid' = paid BY DEF relics
<1>2. Accounts(lipsana, seen, paid)' BY <1>1 DEF Accounting
<1>3. (vacantia # None \/ phase = "bona-vacantia" => Apart(vacantia, lipsana, seen, paid))'
  BY <1>1 DEF Accounting
<1> QED BY <1>1, <1>2, <1>3 DEF Accounting

\* Showing more does no harm.
LEMMA AccountsGrow ==
  ASSUME NEW held, NEW known, NEW more, NEW sold, Accounts(held, known, sold), known \subseteq more
  PROVE  Accounts(held, more, sold)
BY DEF Accounts

\* A visit puts one lipsanon on sale at most, and one that nobody has seen if it is new.
LEMMA AccountingVisit ==
  ASSUME Core, NEW known \in SUBSET Lipsana, OpenPostBattleSectio(known),
         lipsana' \in SUBSET Lipsana, Accounts(lipsana', known, paid), conflict' = conflict
  PROVE  Accounting'
<1> DEFINE count == OfferCount + (IF Ledger \in lipsana' THEN 1 ELSE 0)
<1>1. PICK row \in Offers(count), offer \in PaidOffers(known, lipsana') :
        /\ phase' = "sectio" /\ vacantia' = None
        /\ seen' = known \cup ({offer.lipsanon} \ {None})
        /\ paid' = IF offer.lipsanon = None THEN paid ELSE [paid EXCEPT ![conflict] = offer]
        /\ sectio' = [after |-> battle, offers |-> row, admitted |-> None, offer |-> offer.lipsanon,
                      bought |-> offer.bought, struck |-> None, entry |-> EntrySnapshot(offer.bought)]
  BY DEF OpenPostBattleSectio
<1> HIDE DEF count
<1>2. conflict \in Battles /\ paid \in [Battles -> PaidRecords \cup {None}] BY CoreFacts
<1>3. /\ sectio'.offer = offer.lipsanon /\ sectio'.bought = offer.bought
      /\ sectio'.entry = EntrySnapshot(offer.bought)
  BY <1>1
<1>4. /\ sectio'.entry.lipsana = lipsana' /\ sectio'.entry.seen = seen' /\ sectio'.entry.paid = paid'
      /\ sectio'.entry.bought = offer.bought
  BY <1>3 DEF EntrySnapshot
<1>5. CASE offer.lipsanon = None
  <2>1. seen' = known /\ paid' = paid BY <1>1, <1>5
  <2>2. Accounts(lipsana, seen, paid)' BY <2>1 DEF Accounts
  <2>3. Accounts(sectio.entry.lipsana, sectio.entry.seen, sectio.entry.paid)'
    BY <1>4, <2>2 DEF Accounts
  <2> QED BY <1>1, <1>3, <1>5, <2>2, <2>3 DEF Accounting
<1>6. CASE offer.lipsanon # None
  <2>1. offer \in PaidRecords /\ Accounts(lipsana', seen', paid')
    <3>1. CASE Shopkey \in lipsana' /\ paid[conflict] # None
      <4>1. offer = paid[conflict] BY <3>1 DEF PaidOffers
      <4>2. paid' = [paid EXCEPT ![conflict] = offer] BY <1>1, <1>6
      <4>3. paid' = paid BY <4>1, <4>2, <1>2
      <4>4. known \subseteq seen' BY <1>1
      <4>5. offer \in PaidRecords BY <3>1, <4>1, <1>2
      <4> QED BY <4>3, <4>4, <4>5, AccountsGrow
    <3>2. CASE ~(Shopkey \in lipsana' /\ paid[conflict] # None)
      <4>1. ~(Shopkey \notin lipsana' \/ Available(known, lipsana') = {})
        <5>1. SUFFICES ASSUME Shopkey \notin lipsana' \/ Available(known, lipsana') = {} PROVE FALSE
          OBVIOUS
        <5>2. offer = [lipsanon |-> None, bought |-> FALSE] BY <3>2, <5>1 DEF PaidOffers
        <5> QED BY <5>2, <1>6
      <4>2. offer \in [lipsanon : Available(known, lipsana'), bought : {FALSE}]
        BY <3>2, <4>1 DEF PaidOffers
      <4>3. /\ offer.lipsanon \in Lipsana /\ offer.lipsanon \notin known
            /\ offer.lipsanon \notin lipsana' /\ offer.bought = FALSE
        BY <4>2 DEF Available
      <4>4. offer \in PaidRecords BY <4>2, <4>3 DEF PaidRecords
      <4>5. seen' = known \cup {offer.lipsanon} BY <1>1, <1>6
      <4>6. paid' = [paid EXCEPT ![conflict] = offer] BY <1>1, <1>6
      <4>7. paid'[conflict] = offer /\ \A c \in Battles \ {conflict} : paid'[c] = paid[c]
        BY <4>6, <1>2
      <4>8. lipsana' \subseteq seen' BY <4>5 DEF Accounts
      <4>9. \A c \in Battles \ {conflict} : paid[c] # None => paid[c].lipsanon # offer.lipsanon
        BY <4>3 DEF Accounts
      <4>10. ASSUME NEW c \in Battles, paid'[c] # None
             PROVE  /\ paid'[c].lipsanon \in seen'
                    /\ paid'[c].bought <=> paid'[c].lipsanon \in lipsana'
                    /\ \A d \in Battles : d # c /\ paid'[d] # None =>
                         paid'[c].lipsanon # paid'[d].lipsanon
        <5>1. CASE c = conflict BY <5>1, <4>3, <4>5, <4>7, <4>9
        <5>2. CASE c # conflict
          <6>1. paid'[c] = paid[c] /\ paid[c] # None BY <5>2, <4>7, <4>10
          <6>2. /\ paid[c].lipsanon \in seen'
                /\ paid[c].bought <=> paid[c].lipsanon \in lipsana'
            BY <6>1, <4>5 DEF Accounts
          <6>3. ASSUME NEW d \in Battles, d # c, paid'[d] # None
                PROVE  paid[c].lipsanon # paid'[d].lipsanon
            <7>1. CASE d = conflict BY <7>1, <5>2, <6>1, <4>7, <4>9
            <7>2. CASE d # conflict BY <7>2, <6>1, <6>3, <4>7 DEF Accounts
            <7> QED BY <7>1, <7>2
          <6> QED BY <6>1, <6>2, <6>3
        <5> QED BY <5>1, <5>2
      <4> QED BY <4>4, <4>8, <4>10 DEF Accounts
    <3> QED BY <3>1, <3>2
  <2>2. paid'[conflict'] = offer
    <3>1. paid' = [paid EXCEPT ![conflict] = offer] BY <1>1, <1>6
    <3> QED BY <3>1, <1>2
  <2>3. offer = [lipsanon |-> offer.lipsanon, bought |-> offer.bought] BY <2>1 DEF PaidRecords
  <2>4. Accounts(sectio.entry.lipsana, sectio.entry.seen, sectio.entry.paid)'
    BY <1>4, <2>1 DEF Accounts
  <2>5. Accounts(lipsana, seen, paid)' BY <2>1 DEF Accounts
  <2>6. /\ paid'[conflict'] = [lipsanon |-> sectio'.offer, bought |-> sectio'.bought]
        /\ sectio'.entry.paid[conflict'] = [lipsanon |-> sectio'.offer, bought |-> sectio'.entry.bought]
    BY <2>2, <2>3, <1>3, <1>4
  <2>7. ~(vacantia' # None \/ phase' = "bona-vacantia") BY <1>1
  <2> QED BY <2>4, <2>5, <2>6, <2>7 DEF Accounting
<1> QED BY <1>5, <1>6

LEMMA AccountingInit == Init => Accounting
<1> SUFFICES ASSUME Init PROVE Accounting OBVIOUS
<1>1. \A c \in Battles : paid[c] = None BY DEF Init
<1>2. Accounts(lipsana, seen, paid) BY <1>1 DEF Init, Accounts
<1> QED BY <1>2 DEF Init, Accounting

LEMMA AccountingLeaveAftermath == ASSUME Core, Accounting, LeaveAftermath PROVE Accounting'
<1> DEFINE reward == Reward(aftermath.speed, aftermath.tribute, aftermath.surviving)
<1>1. phase = "aftermath" /\ conflict' = conflict BY DEF LeaveAftermath
<1>2. CASE Reviewed
  <2>1. phase' = "sectio" /\ UNCHANGED relics /\ sectio' = sectio /\ vacantia' = vacantia
    BY <1>2 DEF LeaveAftermath
  <2> QED BY <1>1, <2>1, AccountingKept
<1>3. CASE ~Reviewed
  <2>1. OpenSectio(reward) BY <1>3 DEF LeaveAftermath
  <2> HIDE DEF reward
  <2>2. lipsana' = lipsana BY <2>1 DEF OpenSectio
  <2>3. Accounts(lipsana, seen, paid) /\ lipsana \in SUBSET Lipsana /\ seen \in SUBSET Lipsana
    BY CoreFacts DEF Accounting
  <2>4. CASE War[battle].loot /\ OpensWithVacantia(battle + 1)
    <3>1. PICK offers \in Reveals(seen, lipsana) :
            vacantia' = offers /\ seen' = seen \cup offers /\ sectio' = None /\ paid' = paid
      BY <2>1, <2>4 DEF OpenSectio
    <3>2. offers \cap seen = {} /\ offers \cap lipsana = {} BY DEF Reveals, Draws, Available
    <3>3. Accounts(lipsana', seen', paid') BY <2>2, <2>3, <3>1, AccountsGrow
    <3>4. \A c \in Battles : paid[c] # None => paid[c].lipsanon \notin offers
      BY <2>3, <3>2 DEF Accounts
    <3>5. Apart(vacantia', lipsana', seen', paid') BY <2>2, <3>1, <3>2, <3>4 DEF Apart
    <3>6. Accounts(lipsana, seen, paid)' /\ Apart(vacantia, lipsana, seen, paid)'
      BY <3>3, <3>5 DEF Accounts, Apart
    <3> QED BY <3>1, <3>6 DEF Accounting
  <2>5. CASE ~(War[battle].loot /\ OpensWithVacantia(battle + 1))
    <3>1. OpenPostBattleSectio(seen) BY <2>1, <2>5 DEF OpenSectio
    <3> QED BY <1>1, <2>2, <2>3, <3>1, AccountingVisit
  <2> QED BY <2>4, <2>5
<1> QED BY <1>2, <1>3

LEMMA AccountingTake ==
  ASSUME Core, Accounting, NEW lipsanon \in Lipsana, TakeVacantiaLipsanon(lipsanon) PROVE Accounting'
<1>1. /\ phase = "bona-vacantia" /\ lipsanon \in vacantia /\ lipsana' = lipsana \cup {lipsanon}
      /\ OpenPostBattleSectio(seen \cup {lipsanon}) /\ conflict' = conflict
  BY DEF TakeVacantiaLipsanon, Acquire
<1>2. Accounts(lipsana, seen, paid) /\ Apart(vacantia, lipsana, seen, paid) BY <1>1 DEF Accounting
<1>3. Accounts(lipsana', seen \cup {lipsanon}, paid) BY <1>1, <1>2 DEF Accounts, Apart
<1>4. lipsana' \in SUBSET Lipsana /\ seen \cup {lipsanon} \in SUBSET Lipsana BY <1>1, CoreFacts
<1> QED BY <1>1, <1>3, <1>4, AccountingVisit

\* A step of a visit that leaves the lipsana alone.
LEMMA AccountingSectio ==
  ASSUME Core, Accounting, phase = "sectio", phase' = phase, conflict' = conflict, UNCHANGED relics,
         vacantia' = vacantia, sectio'.entry = sectio.entry, sectio'.offer = sectio.offer,
         sectio'.bought = sectio.bought
  PROVE  Accounting'
<1>1. sectio # None BY SectioFacts
<1>2. vacantia = None BY CoreFacts DEF Flow
<1> QED BY <1>1, <1>2, AccountingKept

LEMMA AccountingBuy == ASSUME Core, Accounting, BuyPaidLipsanon PROVE Accounting'
<1> DEFINE sale == [lipsanon |-> sectio.offer, bought |-> TRUE]
<1>1. /\ phase = "sectio" /\ phase' = phase /\ sectio.offer # None /\ conflict' = conflict
      /\ lipsana' = lipsana \cup {sectio.offer} /\ seen' = seen \cup {sectio.offer}
      /\ paid' = [paid EXCEPT ![conflict] = sale] /\ sectio' = [sectio EXCEPT !.bought = TRUE]
      /\ vacantia' = vacantia
  BY DEF BuyPaidLipsanon, InSectio, Acquire
<1>2. sectio \in Sectios /\ sectio # None /\ vacantia = None BY <1>1, SectioFacts, CoreFacts DEF Flow
<1>3. conflict \in Battles /\ paid \in [Battles -> PaidRecords \cup {None}] BY CoreFacts
<1>4. /\ sectio'.entry = sectio.entry /\ sectio'.offer = sectio.offer /\ sectio'.bought = TRUE
  BY <1>1, <1>2 DEF Sectios
<1>5. /\ Accounts(lipsana, seen, paid)
      /\ Accounts(sectio.entry.lipsana, sectio.entry.seen, sectio.entry.paid)
      /\ paid[conflict] = [lipsanon |-> sectio.offer, bought |-> sectio.bought]
      /\ sectio.entry.paid[conflict] = [lipsanon |-> sectio.offer, bought |-> sectio.entry.bought]
  BY <1>1, <1>2 DEF Accounting
<1>6. paid[conflict] # None /\ paid[conflict].lipsanon = sectio.offer
  <2>1. sectio.offer \in Lipsana /\ sectio.bought \in BOOLEAN BY <1>1, <1>2 DEF Sectios
  <2>2. paid[conflict] \in PaidRecords BY <1>5, <2>1 DEF PaidRecords
  <2> QED BY <1>5, <2>2, NoRecordAssumption
<1>7. paid'[conflict] = sale /\ \A c \in Battles \ {conflict} : paid'[c] = paid[c]
  BY <1>1, <1>3
<1>8. \A c \in Battles \ {conflict} : paid[c] # None => paid[c].lipsanon # sectio.offer
  BY <1>3, <1>5, <1>6 DEF Accounts
<1>9. ASSUME NEW c \in Battles, paid'[c] # None
      PROVE  /\ paid'[c].lipsanon \in seen'
             /\ paid'[c].bought <=> paid'[c].lipsanon \in lipsana'
             /\ \A d \in Battles : d # c /\ paid'[d] # None => paid'[c].lipsanon # paid'[d].lipsanon
  <2>1. CASE c = conflict
    <3>1. paid'[c].lipsanon = sectio.offer /\ paid'[c].bought = TRUE BY <2>1, <1>7
    <3> QED BY <2>1, <3>1, <1>1, <1>7, <1>8
  <2>2. CASE c # conflict
    <3>1. paid'[c] = paid[c] /\ paid[c] # None BY <2>2, <1>7, <1>9
    <3>2. paid[c].lipsanon \in seen /\ (paid[c].bought <=> paid[c].lipsanon \in lipsana)
      BY <3>1, <1>5 DEF Accounts
    <3>3. paid[c].lipsanon # sectio.offer BY <2>2, <3>1, <1>8
    <3>4. ASSUME NEW d \in Battles, d # c, paid'[d] # None PROVE paid[c].lipsanon # paid'[d].lipsanon
      <4>1. CASE d = conflict BY <4>1, <3>3, <1>7
      <4>2. CASE d # conflict BY <4>2, <3>1, <3>4, <1>5, <1>7 DEF Accounts
      <4> QED BY <4>1, <4>2
    <3> QED BY <3>1, <3>2, <3>3, <3>4, <1>1
  <2> QED BY <2>1, <2>2
<1>10. lipsana' \subseteq seen' BY <1>1, <1>5 DEF Accounts
<1>11. Accounts(lipsana, seen, paid)' BY <1>9, <1>10 DEF Accounts
<1>12. ~(vacantia' # None \/ phase' = "bona-vacantia") BY <1>1, <1>2
<1> HIDE DEF sale
<1>13. Accounts(sectio.entry.lipsana, sectio.entry.seen, sectio.entry.paid)'
  BY <1>4, <1>5 DEF Accounts
<1>14. /\ paid'[conflict'] = [lipsanon |-> sectio'.offer, bought |-> sectio'.bought]
       /\ sectio'.entry.paid[conflict'] = [lipsanon |-> sectio'.offer, bought |-> sectio'.entry.bought]
  BY <1>1, <1>4, <1>5, <1>7 DEF sale
<1> QED BY <1>11, <1>12, <1>13, <1>14 DEF Accounting

LEMMA AccountingReset == ASSUME Core, Accounting, ResetSectio PROVE Accounting'
<1> DEFINE entry == sectio.entry
<1>1. /\ phase = "sectio" /\ phase' = phase /\ conflict' = conflict /\ vacantia' = vacantia
      /\ lipsana' = entry.lipsana /\ seen' = entry.seen /\ paid' = entry.paid
      /\ sectio' = [sectio EXCEPT !.admitted = None, !.bought = entry.bought, !.struck = None]
  BY DEF ResetSectio, InSectio, RestoredLipsana
<1>2. sectio \in Sectios /\ sectio # None /\ vacantia = None BY <1>1, SectioFacts, CoreFacts DEF Flow
<1>3. /\ sectio'.entry = entry /\ sectio'.offer = sectio.offer /\ sectio'.bought = entry.bought
  BY <1>1, <1>2 DEF Sectios
<1>4. /\ Accounts(entry.lipsana, entry.seen, entry.paid)
      /\ sectio.offer # None =>
           entry.paid[conflict] = [lipsanon |-> sectio.offer, bought |-> entry.bought]
  BY <1>2 DEF Accounting
<1> HIDE DEF entry
<1>5. Accounts(lipsana, seen, paid)' BY <1>1, <1>4 DEF Accounts
<1>6. Accounts(sectio.entry.lipsana, sectio.entry.seen, sectio.entry.paid)'
  BY <1>3, <1>4 DEF Accounts
<1>7. ~(vacantia' # None \/ phase' = "bona-vacantia") BY <1>1, <1>2
<1> QED BY <1>1, <1>3, <1>4, <1>5, <1>6, <1>7 DEF Accounting

LEMMA AccountingStep == Core /\ Accounting /\ [Next]_vars => Accounting'
<1> SUFFICES ASSUME Core, Accounting, [Next]_vars PROVE Accounting' OBVIOUS
<1>1. CASE \E king \in Kings : TakeCommendatioKing(king)
  BY <1>1, AccountingKept DEF TakeCommendatioKing
<1>2. CASE PrepareDeployment BY <1>2, AccountingKept DEF PrepareDeployment
<1>3. ASSUME NEW next, SetDeploymentChoices(next) PROVE Accounting'
  BY <1>3, AccountingKept DEF SetDeploymentChoices
<1>4. CASE DealCards \/ \E card \in cards : PlaceCard(card) \/ RemoveCard(card)
  BY <1>3, <1>4 DEF DealCards, PlaceCard, RemoveCard
<1>5. CASE BeginBattle BY <1>5, AccountingKept DEF BeginBattle
<1>6. CASE RerollDeployment BY <1>6, AccountingKept DEF RerollDeployment
<1>7. ASSUME NEW speed, NEW tribute, NEW surviving, CloseBattle(speed, tribute, surviving)
      PROVE  Accounting'
  BY <1>7, AccountingKept DEF CloseBattle
<1>8. CASE ReviewReport BY <1>8, AccountingKept DEF ReviewReport, screens
<1>9. ASSUME NEW offer, Adlect(offer) PROVE Accounting'
  <2>1. /\ phase = "sectio" /\ phase' = phase /\ conflict' = conflict /\ UNCHANGED relics
        /\ vacantia' = vacantia /\ sectio' = [sectio EXCEPT !.admitted = offer]
    BY <1>9 DEF Adlect, InSectio
  <2>2. sectio \in Sectios BY <2>1, SectioFacts
  <2> QED BY <2>1, <2>2, AccountingSectio DEF Sectios
<1>10. ASSUME NEW card, Expunge(card) PROVE Accounting'
  <2>1. /\ phase = "sectio" /\ phase' = phase /\ conflict' = conflict /\ UNCHANGED relics
        /\ vacantia' = vacantia /\ sectio' = [sectio EXCEPT !.struck = card]
    BY <1>10 DEF Expunge, InSectio
  <2>2. sectio \in Sectios BY <2>1, SectioFacts
  <2> QED BY <2>1, <2>2, AccountingSectio DEF Sectios
<1>11. CASE LeaveSectio
  <2>1. /\ phase = "sectio" /\ phase' = "deployment" /\ UNCHANGED relics /\ vacantia' = vacantia
        /\ sectio' = None
    BY <1>11 DEF LeaveSectio, InSectio
  <2>2. vacantia = None BY <2>1, CoreFacts DEF Flow
  <2> QED BY <2>1, <2>2, AccountingKept
<1>12. CASE UNCHANGED vars BY <1>12, AccountingKept DEF vars, relics
<1> QED
  BY <1>1, <1>2, <1>4, <1>5, <1>6, <1>7, <1>8, <1>9, <1>10, <1>11, <1>12, AccountingLeaveAftermath,
     AccountingTake, AccountingBuy, AccountingReset DEF Next

(* What is held or on offer has been seen, two Conflicts never sell the same
   lipsanon, and a paid offer is bought exactly if it is held, also when Reset
   has taken the visit back (revealLipsana, buyPaidLipsanon, resetSectio). *)
THEOREM LipsanaOnce == Spec => []LipsanaAccounted
<1>1. Accounting => LipsanaAccounted
  BY DEF Accounting, Accounts, Apart, LipsanaAccounted, Held
<1> QED BY <1>1, CoreInit, CoreStep, AccountingInit, AccountingStep, PTL DEF Spec

----------------------------------------------------------------------------
(* The King's place in the Deployment *)

\* A Deployment is dealt from the cards that are held, the King's card first.
Fielded(dealt, deck, b) ==
  /\ dealt.hand \in Seq(deck) /\ Len(dealt.hand) > 0 /\ IsStarter(dealt.hand[1])
  /\ dealt.admitted = Admitted(dealt.hand, War[b].capacity)
  /\ dealt.placed \subseteq dealt.admitted

Fielding ==
  deployment # None \/ phase = "battle" =>
    /\ Fielded(deployment, cards, battle)
    /\ phase = "battle" => King \in Seats(deployment.placed)

LEMMA FieldingDeal ==
  ASSUME Core, Seating, phase # "commendatio", NEW b \in Battles, Deal(b)
  PROVE  Fielded(deployment', cards, b)
<1> DEFINE deals == War[b].deals
           size == IF Cardinality(cards) < deals THEN Cardinality(cards) ELSE deals
           hand == deployment'.hand
<1>1. King \in Seats(cards) BY DEF Seating, Numbered
<1>2. cards # {} BY <1>1 DEF Seats
<1>3. Cardinality(cards) \in Nat /\ Cardinality(cards) # 0
  BY <1>2, CoreFacts, FS_EmptySet, FS_CardinalityType DEF Finite
<1>4. deals \in Nat \ {0}
  <2> DEFINE D == [loot : BOOLEAN, deals : Nat \ {0}, capacity : Nat, prize : Nat]
  <2>1. War \in Seq(D) BY WarAssumption
  <2>2. War[b] \in D
    <3> HIDE DEF D
    <3> QED BY <2>1, WarFacts, ElementOfSeq
  <2> QED BY <2>2
<1> HIDE DEF deals
<1>5. size \in Nat \ {0} BY <1>3, <1>4
<1>6. /\ hand \in Hands(cards, deals) /\ hand \in Seq(cards) /\ deployment'.placed = {}
      /\ deployment'.admitted = Admitted(hand, War[b].capacity)
  BY DealFacts DEF deals
<1>7. hand \in [1..size -> cards] /\ IsStarter(hand[1]) BY <1>6 DEF Hands, Deals
<1> HIDE DEF size, hand
<1>8. Len(hand) = size BY <1>5, <1>6, <1>7
<1> QED BY <1>5, <1>6, <1>7, <1>8 DEF Fielded, hand

\* A step outside of the Deployment.
LEMMA FieldingNone == ASSUME deployment' = None, phase' # "battle" PROVE Fielding'
BY DEF Fielding

LEMMA FieldingChoices ==
  ASSUME Fielding, deployment # None, NEW next, SetDeploymentChoices(next),
         next.hand = deployment.hand, next.admitted = deployment.admitted,
         next.placed \subseteq next.admitted
  PROVE  Fielding'
<1>1. /\ phase = "deployment" /\ phase' = phase /\ deployment' = next /\ battle' = battle
      /\ cards' = cards
  BY DEF SetDeploymentChoices, force
<1>2. Fielded(deployment, cards, battle) BY DEF Fielding
<1>3. Fielded(next, cards, battle) BY <1>2 DEF Fielded
<1> QED BY <1>1, <1>3 DEF Fielding

LEMMA FieldingStep == Core /\ Seating /\ Fielding /\ [Next]_vars => Fielding'
<1> SUFFICES ASSUME Core, Seating, Fielding, [Next]_vars PROVE Fielding' OBVIOUS
<1>0. deployment \in Deployments \cup {None} /\ battle \in Battles BY CoreFacts
<1>1. CASE \E king \in Kings : TakeCommendatioKing(king)
  <2>1. phase = "commendatio" /\ phase' = "deployment" /\ deployment' = deployment
    BY <1>1 DEF TakeCommendatioKing
  <2> QED BY <2>1, CoreFacts, FieldingNone DEF Flow
<1>2. CASE PrepareDeployment
  <2>1. /\ phase = "deployment" /\ phase' = phase /\ Deal(battle) /\ battle' = battle /\ cards' = cards
    BY <1>2 DEF PrepareDeployment, force
  <2>2. Fielded(deployment', cards, battle) BY <1>0, <2>1, FieldingDeal
  <2> QED BY <2>1, <2>2 DEF Fielding
<1>3. CASE DealCards
  <2> DEFINE next == [deployment EXCEPT !.stage = IF @ = "dealing" THEN "arranging" ELSE "dealing"]
  <2>1. deployment # None /\ SetDeploymentChoices(next) BY <1>3 DEF DealCards
  <2>2. /\ next.hand = deployment.hand /\ next.admitted = deployment.admitted
        /\ next.placed = deployment.placed
    BY <1>0, <2>1 DEF Deployments
  <2>3. deployment.placed \subseteq deployment.admitted BY <2>1 DEF Fielding, Fielded
  <2> HIDE DEF next
  <2> QED BY <2>1, <2>2, <2>3, FieldingChoices
<1>4. ASSUME NEW card \in cards, PlaceCard(card) PROVE Fielding'
  <2> DEFINE next == [deployment EXCEPT !.placed = @ \cup {card}]
  <2>1. deployment # None /\ SetDeploymentChoices(next) /\ card \in deployment.admitted
    BY <1>4 DEF PlaceCard
  <2>2. /\ next.hand = deployment.hand /\ next.admitted = deployment.admitted
        /\ next.placed = deployment.placed \cup {card}
    BY <1>0, <2>1 DEF Deployments
  <2>3. deployment.placed \subseteq deployment.admitted BY <2>1 DEF Fielding, Fielded
  <2> HIDE DEF next
  <2> QED BY <2>1, <2>2, <2>3, FieldingChoices
<1>5. ASSUME NEW card \in cards, RemoveCard(card) PROVE Fielding'
  <2> DEFINE next == [deployment EXCEPT !.placed = @ \ {card}]
  <2>1. deployment # None /\ SetDeploymentChoices(next) BY <1>5 DEF RemoveCard
  <2>2. /\ next.hand = deployment.hand /\ next.admitted = deployment.admitted
        /\ next.placed = deployment.placed \ {card}
    BY <1>0, <2>1 DEF Deployments
  <2>3. deployment.placed \subseteq deployment.admitted BY <2>1 DEF Fielding, Fielded
  <2> HIDE DEF next
  <2> QED BY <2>1, <2>2, <2>3, FieldingChoices
<1>6. CASE BeginBattle
  <2>1. /\ deployment # None /\ King \in Seats(deployment.placed) /\ phase' = "battle"
        /\ deployment' = [deployment EXCEPT !.stage = "complete"]
        /\ battle' = battle /\ cards' = cards
    BY <1>6 DEF BeginBattle, force
  <2>2. /\ deployment'.hand = deployment.hand /\ deployment'.admitted = deployment.admitted
        /\ deployment'.placed = deployment.placed
    BY <1>0, <2>1 DEF Deployments
  <2>3. Fielded(deployment', cards, battle) BY <2>1, <2>2 DEF Fielding, Fielded
  <2> QED BY <2>1, <2>2, <2>3 DEF Fielding
<1>7. CASE RerollDeployment
  <2>1. /\ phase = "battle" /\ phase' = "deployment" /\ battle' = battle /\ cards' = cards
        /\ deployment' = FreshDeployment(deployment.hand, battle, "arranging")
    BY <1>7 DEF RerollDeployment, force
  <2>2. /\ deployment'.hand = deployment.hand /\ deployment'.placed = {}
        /\ deployment'.admitted = Admitted(deployment.hand, War[battle].capacity)
    BY <2>1 DEF FreshDeployment
  <2>3. Fielded(deployment', cards, battle) BY <2>1, <2>2 DEF Fielding, Fielded
  <2> QED BY <2>1, <2>3 DEF Fielding
<1>8. ASSUME NEW speed, NEW tribute, NEW surviving, CloseBattle(speed, tribute, surviving)
      PROVE  Fielding'
  BY <1>8, FieldingNone DEF CloseBattle
<1>9. ASSUME phase \in AfterBattle, deployment' = deployment, phase' # "battle" PROVE Fielding'
  BY <1>9, CoreFacts, FieldingNone DEF Flow, AfterBattle
<1>10. CASE LeaveAftermath
  <2>1. phase = "aftermath" BY <1>10 DEF LeaveAftermath
  <2>2. CASE Reviewed BY <2>1, <2>2, <1>9, <1>10 DEF LeaveAftermath, AfterBattle
  <2>3. CASE ~Reviewed
    <3>1. OpenSectio(Reward(aftermath.speed, aftermath.tribute, aftermath.surviving))
      BY <2>3, <1>10 DEF LeaveAftermath
    <3>2. deployment' = None /\ phase' # "battle" BY <3>1 DEF OpenSectio, OpenPostBattleSectio
    <3> QED BY <3>2, FieldingNone
  <2> QED BY <2>2, <2>3
<1>11. CASE ReviewReport BY <1>9, <1>11 DEF ReviewReport, screens, AfterBattle
<1>12. ASSUME NEW lipsanon, TakeVacantiaLipsanon(lipsanon) PROVE Fielding'
  BY <1>9, <1>12 DEF TakeVacantiaLipsanon, OpenPostBattleSectio, AfterBattle
<1>13. ASSUME NEW offer, Adlect(offer) PROVE Fielding'
  BY <1>9, <1>13 DEF Adlect, InSectio, AfterBattle
<1>14. ASSUME NEW card, Expunge(card) PROVE Fielding'
  BY <1>9, <1>14 DEF Expunge, InSectio, AfterBattle
<1>15. CASE BuyPaidLipsanon BY <1>9, <1>15 DEF BuyPaidLipsanon, InSectio, AfterBattle
<1>16. CASE ResetSectio BY <1>9, <1>16 DEF ResetSectio, InSectio, AfterBattle
<1>17. CASE LeaveSectio
  <2>1. /\ phase = "sectio" /\ phase' = "deployment" /\ Deal(battle + 1) /\ battle' = battle + 1
        /\ cards' = cards
    BY <1>17 DEF LeaveSectio, InSectio, force
  <2>2. battle + 1 \in Battles BY <2>1, NextBattle DEF AfterBattle
  <2>3. Fielded(deployment', cards, battle + 1) BY <2>1, <2>2, FieldingDeal
  <2> QED BY <2>1, <2>3 DEF Fielding
<1>18. CASE UNCHANGED vars BY <1>18 DEF vars, Fielding
<1> QED
  BY <1>1, <1>2, <1>3, <1>4, <1>5, <1>6, <1>7, <1>8, <1>10, <1>11, <1>12, <1>13, <1>14, <1>15,
     <1>16, <1>17, <1>18 DEF Next

(* A Battle is fought with the King on the board, the hand is of cards that are
   held, and the King's card is admitted wherever it fits, also after a reroll
   (prepareDeployment, resolveDeploymentCapacity, rerollDeployment). *)
THEOREM KingFights == Spec => []KingTakesTheField
<1>1. Core /\ Fielding => KingTakesTheField
  <2> SUFFICES ASSUME Core, Fielding, deployment # None PROVE KingTakesTheField
    BY DEF KingTakesTheField
  <2> DEFINE hand == deployment.hand
             first == hand[1]
  <2>1. Fielded(deployment, cards, battle) BY DEF Fielding
  <2>2. hand \in Seq(cards) /\ 1 \in DOMAIN hand /\ IsStarter(first) BY <2>1 DEF Fielded
  <2>3. {hand[i] : i \in DOMAIN hand} \subseteq cards BY <2>2
  <2>4. first \in {hand[i] : i \in DOMAIN hand} BY <2>2
  <2>5. deployment.admitted \subseteq {hand[i] : i \in DOMAIN hand} BY <2>1 DEF Fielded, Admitted
  <2>6. ASSUME Cardinality(first.seats) <= War[battle].capacity PROVE first \in deployment.admitted
    <3>1. {hand[k] : k \in 1..1} = {first} OBVIOUS
    <3>2. Seats({hand[k] : k \in 1..1}) = first.seats BY <3>1 DEF Seats
    <3>3. Cardinality(Seats({hand[k] : k \in 1..1})) <= War[battle].capacity BY <2>6, <3>2
    <3> QED BY <2>1, <2>2, <3>3 DEF Fielded, Admitted
  <2>7. phase = "battle" => King \in Seats(deployment.placed) BY DEF Fielding
  <2>8. deployment.placed \subseteq deployment.admitted BY <2>1 DEF Fielded
  <2> QED BY <2>2, <2>3, <2>4, <2>5, <2>6, <2>7, <2>8 DEF KingTakesTheField
<1>2. Init => Fielding BY DEF Init, Fielding
<1> QED
  BY <1>1, <1>2, CoreInit, CoreStep, SeatingInit, SeatingStep, FieldingStep, PTL DEF Spec

----------------------------------------------------------------------------
(* A visit to the Sectio *)

\* The deck with the card that was struck back in it.
Deck(deck, struck) == deck \cup ({struck} \ {None})

\* One new card at most has been admitted to the deck of the entry.
Enrolled(had, admitted, card, entry) ==
  IF admitted = None THEN had = entry.cards /\ card = entry.nextCard
  ELSE /\ card = entry.nextCard + 1
       /\ \E new \in OwnedCards : new.core = admitted.core /\ new \notin entry.cards
                                  /\ had = entry.cards \cup {new}

Won(visit) == IF visit.bought /\ ~visit.entry.bought THEN Payout[visit.offer] - PaidLipsanonCost ELSE 0

\* How the purse, the deck, the numbering and the lipsana relate to the record of a visit.
Balanced(purse, deck, card, held, known, visit) ==
  /\ visit.bought /\ ~visit.entry.bought => visit.offer # None
  /\ purse = visit.entry.gold - Price(visit.admitted) - StrikeFee(visit.struck) + Won(visit)
  /\ Enrolled(Deck(deck, visit.struck), visit.admitted, card, visit.entry)
  /\ held = visit.entry.lipsana \cup (IF visit.bought /\ ~visit.entry.bought THEN {visit.offer} ELSE {})
  /\ known = visit.entry.seen

Balancing == sectio # None => Balanced(gold, cards, nextCard, lipsana, seen, sectio)

\* Steps that leave the purse, the cards and the lipsana alone while a visit lasts.
LEMMA BalancingKept ==
  ASSUME Balancing,
         sectio' = None \/ (sectio' = sectio /\ gold' = gold /\ cards' = cards /\ nextCard' = nextCard
                            /\ lipsana' = lipsana /\ seen' = seen)
  PROVE  Balancing'
BY DEF Balancing

\* A visit begins balanced.
LEMMA BalancingVisit ==
  ASSUME Core, NEW known, OpenPostBattleSectio(known), gold' \in Nat, UNCHANGED force
  PROVE  Balancing'
<1>1. PICK row, offer :
        sectio' = [after |-> battle, offers |-> row, admitted |-> None, offer |-> offer.lipsanon,
                   bought |-> offer.bought, struck |-> None, entry |-> EntrySnapshot(offer.bought)]
  BY DEF OpenPostBattleSectio
<1>2. /\ sectio'.admitted = None /\ sectio'.struck = None /\ sectio'.bought = offer.bought
      /\ sectio'.entry = EntrySnapshot(offer.bought)
  BY <1>1
<1>3. /\ sectio'.entry.gold = gold' /\ sectio'.entry.cards = cards /\ sectio'.entry.nextCard = nextCard
      /\ sectio'.entry.lipsana = lipsana' /\ sectio'.entry.seen = seen'
      /\ sectio'.entry.bought = offer.bought
  BY <1>2 DEF EntrySnapshot
<1>4. cards' = cards /\ nextCard' = nextCard BY DEF force
<1>5. Price(sectio'.admitted) = 0 /\ StrikeFee(sectio'.struck) = 0 BY <1>2 DEF Price, StrikeFee
<1>6. ~(sectio'.bought /\ ~sectio'.entry.bought) BY <1>2, <1>3
<1>7. Won(sectio') = 0 BY <1>6 DEF Won
<1>8. gold' = sectio'.entry.gold - Price(sectio'.admitted) - StrikeFee(sectio'.struck) + Won(sectio')
  <2>1. \A g \in Nat : g = g - 0 - 0 + 0 OBVIOUS
  <2>2. gold' = sectio'.entry.gold - 0 - 0 + 0 BY <1>3, <2>1
  <2> QED BY <1>5, <1>7, <2>2, Zenon
<1>9. Deck(cards', sectio'.struck) = cards BY <1>2, <1>4 DEF Deck
<1>10. Enrolled(Deck(cards', sectio'.struck), sectio'.admitted, nextCard', sectio'.entry)
  BY <1>2, <1>3, <1>4, <1>9 DEF Enrolled
<1>11. lipsana' = sectio'.entry.lipsana
                    \cup (IF sectio'.bought /\ ~sectio'.entry.bought THEN {sectio'.offer} ELSE {})
  BY <1>3, <1>6
<1>12. Balanced(gold', cards', nextCard', lipsana', seen', sectio')
  BY <1>3, <1>6, <1>8, <1>10, <1>11 DEF Balanced
<1> QED BY <1>12 DEF Balancing

\* The prices of a visit are numbers.
LEMMA VisitTypes ==
  ASSUME NEW visit \in Sectios
  PROVE  /\ visit.entry.gold \in Nat /\ Price(visit.admitted) \in Nat /\ StrikeFee(visit.struck) \in Nat
         /\ visit.entry \in Entries
<1>1. /\ visit.entry \in Entries /\ visit.admitted \in CardOffers \cup {None}
      /\ visit.struck \in OwnedCards \cup {None}
  BY DEF Sectios
<1>2. Price(visit.admitted) \in Nat BY <1>1, OfferFacts DEF Price
<1>3. StrikeFee(visit.struck) \in Nat
  <2>1. CASE visit.struck = None BY <2>1 DEF StrikeFee
  <2>2. CASE visit.struck # None
    <3>1. visit.struck.core \in Cores BY <2>2, <1>1 DEF OwnedCards
    <3> QED BY <2>2, <3>1, CoreAssumption DEF StrikeFee
  <2> QED BY <2>1, <2>2
<1> QED BY <1>1, <1>2, <1>3 DEF Entries

LEMMA WonType ==
  ASSUME NEW visit \in Sectios, visit.bought /\ ~visit.entry.bought => visit.offer # None
  PROVE  Won(visit) \in Int
<1>1. CASE visit.bought /\ ~visit.entry.bought
  <2>1. visit.offer \in Lipsana BY <1>1 DEF Sectios
  <2>2. Payout[visit.offer] \in Nat BY <2>1, LipsanaAssumption
  <2> QED BY <1>1, <2>2 DEF Won, PaidLipsanonCost
<1>2. CASE ~(visit.bought /\ ~visit.entry.bought) BY <1>2 DEF Won
<1> QED BY <1>1, <1>2

\* The balance of a visit that is open, and the numbers it adds up.
LEMMA BalanceFacts ==
  ASSUME Core, Balancing, phase = "sectio"
  PROVE  /\ Balanced(gold, cards, nextCard, lipsana, seen, sectio)
         /\ sectio \in Sectios /\ sectio # None
         /\ sectio.entry.gold \in Nat /\ Price(sectio.admitted) \in Nat /\ StrikeFee(sectio.struck) \in Nat
         /\ Won(sectio) \in Int
<1>1. sectio \in Sectios /\ sectio # None BY SectioFacts
<1>2. Balanced(gold, cards, nextCard, lipsana, seen, sectio) BY <1>1 DEF Balancing
<1>3. Won(sectio) \in Int BY <1>1, <1>2, WonType DEF Balanced
<1> QED BY <1>1, <1>2, <1>3, VisitTypes

\* A card that is bought takes a number no card of the entry has.
LEMMA BalancingAdlect ==
  ASSUME Core, Seating, Balancing, InSectio, NEW offer \in sectio.offers, Adlect(offer) PROVE Balancing'
<1> DEFINE units == nextUnit..(nextUnit + Pieces[offer.core] - 1)
           card == [id |-> nextCard, core |-> offer.core, seats |-> units]
<1>1. /\ phase = "sectio" /\ sectio.admitted = None /\ cards' = cards \cup {card}
      /\ nextCard' = nextCard + 1 /\ gold' = gold - Cost[offer.core]
      /\ sectio' = [sectio EXCEPT !.admitted = offer] /\ lipsana' = lipsana /\ seen' = seen
  BY DEF Adlect, InSectio, relics
<1>2. Balanced(gold, cards, nextCard, lipsana, seen, sectio) /\ sectio \in Sectios /\ sectio # None
  BY <1>1, BalanceFacts
<1>3. offer \in CardOffers /\ offer # None BY <1>2, NoRecordAssumption DEF Sectios
<1>4. /\ sectio'.admitted = offer /\ sectio'.entry = sectio.entry /\ sectio'.struck = sectio.struck
      /\ sectio'.bought = sectio.bought /\ sectio'.offer = sectio.offer
  BY <1>1, <1>2 DEF Sectios
<1>5. gold \in Nat /\ nextCard \in Nat /\ nextUnit \in Nat BY CoreFacts
<1>6. Cost[offer.core] \in Nat /\ Pieces[offer.core] \in Nat \ {0} /\ offer.core \in Cores
  BY <1>3, OfferFacts
<1>7. card \in OwnedCards
  <2>1. units \subseteq Int BY <1>5, <1>6
  <2> QED BY <2>1, <1>5, <1>6 DEF OwnedCards
<1>8. card.id = nextCard /\ card.core = offer.core OBVIOUS
<1> HIDE DEF card, units
<1>9. Deck(cards, sectio.struck) = sectio.entry.cards /\ nextCard = sectio.entry.nextCard
  BY <1>1, <1>2 DEF Balanced, Enrolled
<1>10. card \notin sectio.entry.cards
  <2>1. \A c \in sectio.entry.cards : c.id < nextCard BY <1>2, <1>9 DEF Seating, Numbered
  <2> QED BY <2>1, <1>5, <1>8
<1>11. Deck(cards', sectio'.struck) = sectio.entry.cards \cup {card} BY <1>1, <1>4, <1>9 DEF Deck
<1>12. Enrolled(Deck(cards', sectio'.struck), sectio'.admitted, nextCard', sectio'.entry)
  BY <1>1, <1>3, <1>4, <1>7, <1>8, <1>9, <1>10, <1>11 DEF Enrolled
<1>13. Won(sectio') = Won(sectio) BY <1>4 DEF Won
<1>14. Price(sectio'.admitted) = Cost[offer.core] /\ Price(sectio.admitted) = 0 BY <1>1, <1>3, <1>4 DEF Price
<1>15. gold' = sectio'.entry.gold - Price(sectio'.admitted) - StrikeFee(sectio'.struck) + Won(sectio')
  <2>1. gold = sectio.entry.gold - Price(sectio.admitted) - StrikeFee(sectio.struck) + Won(sectio)
    BY <1>2 DEF Balanced
  <2>2. sectio.entry.gold \in Nat /\ StrikeFee(sectio.struck) \in Nat /\ Won(sectio) \in Int
    BY <1>1, BalanceFacts
  <2>3. ASSUME NEW e \in Int, NEW f \in Int, NEW w \in Int, NEW p \in Int
        PROVE  (e - 0 - f + w) - p = e - p - f + w
    OBVIOUS
  <2>4. gold' = sectio.entry.gold - Cost[offer.core] - StrikeFee(sectio.struck) + Won(sectio)
    BY <1>1, <1>6, <1>14, <2>1, <2>2, <2>3
  <2> QED BY <2>4, <1>4, <1>13, <1>14, Zenon
<1>16. Balanced(gold', cards', nextCard', lipsana', seen', sectio')
  BY <1>1, <1>2, <1>4, <1>12, <1>15 DEF Balanced
<1> QED BY <1>16 DEF Balancing

\* A card that is struck stays on the record.
LEMMA BalancingExpunge ==
  ASSUME Core, Balancing, NEW card \in cards, Expunge(card) PROVE Balancing'
<1>1. /\ phase = "sectio" /\ sectio.struck = None /\ cards' = cards \ {card}
      /\ nextCard' = nextCard /\ gold' = gold - Fee[card.core]
      /\ sectio' = [sectio EXCEPT !.struck = card] /\ lipsana' = lipsana /\ seen' = seen
  BY DEF Expunge, InSectio, relics
<1>2. Balanced(gold, cards, nextCard, lipsana, seen, sectio) /\ sectio \in Sectios
  BY <1>1, BalanceFacts
<1>3. card \in OwnedCards /\ card # None BY CoreFacts, NoRecordAssumption
<1>4. /\ sectio'.admitted = sectio.admitted /\ sectio'.entry = sectio.entry /\ sectio'.struck = card
      /\ sectio'.bought = sectio.bought /\ sectio'.offer = sectio.offer
  BY <1>1, <1>2 DEF Sectios
<1>5. gold \in Nat BY CoreFacts
<1>6. Fee[card.core] \in Nat BY <1>3, CoreAssumption DEF OwnedCards
<1>7. Deck(cards', sectio'.struck) = Deck(cards, sectio.struck) BY <1>1, <1>3, <1>4 DEF Deck
<1>8. Enrolled(Deck(cards', sectio'.struck), sectio'.admitted, nextCard', sectio'.entry)
  BY <1>1, <1>2, <1>4, <1>7 DEF Balanced
<1>9. Won(sectio') = Won(sectio) BY <1>4 DEF Won
<1>10. StrikeFee(sectio'.struck) = Fee[card.core] /\ StrikeFee(sectio.struck) = 0
  BY <1>1, <1>3, <1>4 DEF StrikeFee
<1>11. gold' = sectio'.entry.gold - Price(sectio'.admitted) - StrikeFee(sectio'.struck) + Won(sectio')
  <2>1. gold = sectio.entry.gold - Price(sectio.admitted) - StrikeFee(sectio.struck) + Won(sectio)
    BY <1>2 DEF Balanced
  <2>2. sectio.entry.gold \in Nat /\ Price(sectio.admitted) \in Nat /\ Won(sectio) \in Int
    BY <1>1, BalanceFacts
  <2>3. ASSUME NEW e \in Int, NEW p \in Int, NEW w \in Int, NEW f \in Int
        PROVE  (e - p - 0 + w) - f = e - p - f + w
    OBVIOUS
  <2>4. gold' = sectio.entry.gold - Price(sectio.admitted) - Fee[card.core] + Won(sectio)
    BY <1>1, <1>6, <1>10, <2>1, <2>2, <2>3
  <2> QED BY <2>4, <1>4, <1>9, <1>10, Zenon
<1>12. Balanced(gold', cards', nextCard', lipsana', seen', sectio')
  BY <1>1, <1>2, <1>4, <1>8, <1>11 DEF Balanced
<1> QED BY <1>12 DEF Balancing

\* The lipsanon on offer was revealed when the visit began.
LEMMA BalancingBuy == ASSUME Core, Accounting, Balancing, BuyPaidLipsanon PROVE Balancing'
<1>1. /\ phase = "sectio" /\ sectio.offer # None /\ ~sectio.bought
      /\ lipsana' = lipsana \cup {sectio.offer} /\ seen' = seen \cup {sectio.offer}
      /\ gold' = gold + Payout[sectio.offer] - PaidLipsanonCost
      /\ sectio' = [sectio EXCEPT !.bought = TRUE] /\ cards' = cards /\ nextCard' = nextCard
      /\ ~Held(sectio.offer)
  BY DEF BuyPaidLipsanon, InSectio, Acquire, force
<1>2. Balanced(gold, cards, nextCard, lipsana, seen, sectio) /\ sectio \in Sectios /\ sectio # None
  BY <1>1, BalanceFacts
<1>3. /\ sectio'.admitted = sectio.admitted /\ sectio'.entry = sectio.entry
      /\ sectio'.struck = sectio.struck /\ sectio'.bought = TRUE /\ sectio'.offer = sectio.offer
  BY <1>1, <1>2 DEF Sectios
<1>4. sectio.offer \in Lipsana /\ conflict \in Battles /\ sectio.bought \in BOOLEAN
  BY <1>1, <1>2, CoreFacts DEF Sectios
<1>5. /\ Accounts(lipsana, seen, paid)
      /\ Accounts(sectio.entry.lipsana, sectio.entry.seen, sectio.entry.paid)
      /\ paid[conflict] = [lipsanon |-> sectio.offer, bought |-> sectio.bought]
      /\ sectio.entry.paid[conflict] = [lipsanon |-> sectio.offer, bought |-> sectio.entry.bought]
  BY <1>1, <1>2 DEF Accounting
<1>6. sectio.offer \in seen
  <2>1. paid[conflict] \in PaidRecords BY <1>4, <1>5 DEF PaidRecords
  <2>2. paid[conflict] # None /\ paid[conflict].lipsanon = sectio.offer BY <2>1, <1>5, NoRecordAssumption
  <2> QED BY <2>2, <1>4, <1>5 DEF Accounts
<1>7. ~sectio.entry.bought
  <2> SUFFICES ASSUME sectio.entry.bought PROVE FALSE OBVIOUS
  <2>1. sectio.entry.bought \in BOOLEAN BY <1>2, VisitTypes DEF Entries
  <2>2. sectio.entry.paid[conflict] \in PaidRecords BY <2>1, <1>4, <1>5 DEF PaidRecords
  <2>3. /\ sectio.entry.paid[conflict] # None /\ sectio.entry.paid[conflict].bought
        /\ sectio.entry.paid[conflict].lipsanon = sectio.offer
    <3>1. sectio.entry.paid[conflict] # None BY <2>2, NoRecordAssumption
    <3>2. /\ sectio.entry.paid[conflict].bought = sectio.entry.bought
          /\ sectio.entry.paid[conflict].lipsanon = sectio.offer
      BY <1>5
    <3> QED BY <3>1, <3>2
  <2>4. sectio.offer \in sectio.entry.lipsana BY <2>3, <1>4, <1>5 DEF Accounts
  <2>5. sectio.offer \in lipsana BY <2>4, <1>2 DEF Balanced
  <2> QED BY <2>5, <1>1 DEF Held
<1>8. Won(sectio) = 0 /\ Won(sectio') = Payout[sectio.offer] - PaidLipsanonCost BY <1>1, <1>3, <1>7 DEF Won
<1>9. lipsana' = sectio'.entry.lipsana
                   \cup (IF sectio'.bought /\ ~sectio'.entry.bought THEN {sectio'.offer} ELSE {})
  BY <1>1, <1>2, <1>3, <1>7 DEF Balanced
<1>10. seen' = sectio'.entry.seen BY <1>1, <1>2, <1>3, <1>6 DEF Balanced
<1>11. gold' = sectio'.entry.gold - Price(sectio'.admitted) - StrikeFee(sectio'.struck) + Won(sectio')
  <2>1. gold = sectio.entry.gold - Price(sectio.admitted) - StrikeFee(sectio.struck) + Won(sectio)
    BY <1>2 DEF Balanced
  <2>2. /\ sectio.entry.gold \in Nat /\ Price(sectio.admitted) \in Nat /\ StrikeFee(sectio.struck) \in Nat
    BY <1>1, BalanceFacts
  <2>3. Payout[sectio.offer] \in Nat BY <1>4, LipsanaAssumption
  <2>4. ASSUME NEW e \in Int, NEW p \in Int, NEW f \in Int, NEW w \in Int
        PROVE  (e - p - f + 0) + w - 100 = e - p - f + (w - 100)
    OBVIOUS
  <2>5. gold' = sectio.entry.gold - Price(sectio.admitted) - StrikeFee(sectio.struck)
                 + (Payout[sectio.offer] - PaidLipsanonCost)
    BY <1>1, <1>8, <2>1, <2>2, <2>3, <2>4 DEF PaidLipsanonCost
  <2> QED BY <2>5, <1>3, <1>8, Zenon
<1>12. Balanced(gold', cards', nextCard', lipsana', seen', sectio')
  BY <1>1, <1>2, <1>3, <1>9, <1>10, <1>11 DEF Balanced
<1> QED BY <1>12 DEF Balancing

\* Reset is the beginning of the visit.
LEMMA BalancingReset == ASSUME Core, ResetSectio PROVE Balancing'
<1> DEFINE entry == sectio.entry
<1>1. /\ phase = "sectio" /\ gold' = entry.gold /\ cards' = entry.cards
      /\ nextCard' = entry.nextCard /\ lipsana' = entry.lipsana /\ seen' = entry.seen
      /\ sectio' = [sectio EXCEPT !.admitted = None, !.bought = entry.bought, !.struck = None]
  BY DEF ResetSectio, InSectio, RestoredLipsana
<1>2. sectio \in Sectios /\ entry.gold \in Nat BY <1>1, SectioFacts, VisitTypes
<1>3. /\ sectio'.admitted = None /\ sectio'.entry = entry /\ sectio'.struck = None
      /\ sectio'.bought = entry.bought
  BY <1>1, <1>2 DEF Sectios
<1> HIDE DEF entry
<1>4. Price(sectio'.admitted) = 0 /\ StrikeFee(sectio'.struck) = 0 BY <1>3 DEF Price, StrikeFee
<1>5. ~(sectio'.bought /\ ~sectio'.entry.bought) BY <1>3
<1>6. Won(sectio') = 0 BY <1>5 DEF Won
<1>7. gold' = sectio'.entry.gold - Price(sectio'.admitted) - StrikeFee(sectio'.struck) + Won(sectio')
  <2>1. \A g \in Nat : g = g - 0 - 0 + 0 OBVIOUS
  <2>2. gold' = sectio'.entry.gold - 0 - 0 + 0 BY <1>1, <1>2, <1>3, <2>1
  <2> QED BY <1>4, <1>6, <2>2, Zenon
<1>8. Enrolled(Deck(cards', sectio'.struck), sectio'.admitted, nextCard', sectio'.entry)
  BY <1>1, <1>3 DEF Enrolled, Deck
<1>9. lipsana' = sectio'.entry.lipsana
                   \cup (IF sectio'.bought /\ ~sectio'.entry.bought THEN {sectio'.offer} ELSE {})
  BY <1>1, <1>3, <1>5
<1>10. Balanced(gold', cards', nextCard', lipsana', seen', sectio')
  BY <1>1, <1>3, <1>5, <1>7, <1>8, <1>9 DEF Balanced
<1> QED BY <1>10 DEF Balancing

LEMMA BalancingStep == Core /\ Seating /\ Accounting /\ Balancing /\ [Next]_vars => Balancing'
<1> SUFFICES ASSUME Core, Seating, Accounting, Balancing, [Next]_vars PROVE Balancing' OBVIOUS
<1>0. phase \notin {"sectio", "aftermath"} => sectio = None BY CoreFacts DEF Flow
<1>1. CASE \E king \in Kings : TakeCommendatioKing(king) BY <1>1, BalancingKept DEF TakeCommendatioKing
<1>2. CASE PrepareDeployment BY <1>2, BalancingKept DEF PrepareDeployment, force, relics
<1>3. ASSUME NEW next, SetDeploymentChoices(next) PROVE Balancing'
  BY <1>3, BalancingKept DEF SetDeploymentChoices, force, relics
<1>4. CASE DealCards \/ \E card \in cards : PlaceCard(card) \/ RemoveCard(card)
  BY <1>3, <1>4 DEF DealCards, PlaceCard, RemoveCard
<1>5. CASE BeginBattle BY <1>5, BalancingKept DEF BeginBattle, force, relics
<1>6. CASE RerollDeployment
  <2>1. phase = "battle" /\ sectio' = sectio BY <1>6 DEF RerollDeployment
  <2> QED BY <2>1, <1>0, BalancingKept
<1>7. ASSUME NEW speed, NEW tribute, NEW surviving, CloseBattle(speed, tribute, surviving)
      PROVE  Balancing'
  BY <1>7, BalancingKept DEF CloseBattle, force, relics
<1>8. CASE LeaveAftermath
  <2>1. phase = "aftermath" /\ UNCHANGED force BY <1>8 DEF LeaveAftermath
  <2>2. CASE Reviewed BY <2>1, <2>2, <1>8, BalancingKept DEF LeaveAftermath, force, relics
  <2>3. CASE ~Reviewed
    <3> DEFINE reward == Reward(aftermath.speed, aftermath.tribute, aftermath.surviving)
    <3>1. OpenSectio(reward) BY <2>3, <1>8 DEF LeaveAftermath
    <3>2. gold' \in Nat
      <4>1. Core' BY <1>8, CoreLeaveAftermath
      <4> QED BY <4>1 DEF Core, TypeOK
    <3> HIDE DEF reward
    <3>3. sectio' = None \/ OpenPostBattleSectio(seen) BY <3>1 DEF OpenSectio
    <3> QED BY <2>1, <3>2, <3>3, BalancingKept, BalancingVisit
  <2> QED BY <2>2, <2>3
<1>9. CASE ReviewReport BY <1>9, BalancingKept DEF ReviewReport, screens, force, relics
<1>10. ASSUME NEW lipsanon \in Lipsana, TakeVacantiaLipsanon(lipsanon) PROVE Balancing'
  <2>1. OpenPostBattleSectio(seen \cup {lipsanon}) /\ UNCHANGED force /\ gold' = gold + Payout[lipsanon]
    BY <1>10 DEF TakeVacantiaLipsanon
  <2>2. gold \in Nat /\ Payout[lipsanon] \in Nat BY CoreFacts, LipsanaAssumption
  <2>3. gold' \in Nat BY <2>1, <2>2
  <2> QED BY <2>1, <2>3, BalancingVisit
<1>11. CASE LeaveSectio BY <1>11, BalancingKept DEF LeaveSectio
<1>12. CASE UNCHANGED vars BY <1>12, BalancingKept DEF vars
<1> QED
  BY <1>1, <1>2, <1>4, <1>5, <1>6, <1>7, <1>8, <1>9, <1>10, <1>11, <1>12, BalancingAdlect,
     BalancingExpunge, BalancingBuy, BalancingReset DEF Next

(* What a visit has done can be read off its record: the purse, the cards, the
   numbering and the lipsana are those of the entry but for what it bought and
   struck, also after Reset (performAdlectio, performExpunctio, buyPaidLipsanon,
   resetSectio). *)
THEOREM VisitsBalance == Spec => []VisitBalances
<1>1. Core /\ Balancing => VisitBalances
  <2> SUFFICES ASSUME Core, Balancing, sectio # None PROVE VisitBalances BY DEF VisitBalances
  <2> DEFINE entry == sectio.entry
             had == Deck(cards, sectio.struck)
             grown == nextCard - entry.nextCard
  <2>1. Balanced(gold, cards, nextCard, lipsana, seen, sectio) BY DEF Balancing
  <2>2. sectio \in Sectios /\ IsFiniteSet(entry.cards) BY CoreFacts DEF Finite
  <2>3. Enrolled(had, sectio.admitted, nextCard, entry) BY <2>1 DEF Balanced
  <2>4. nextCard \in Nat /\ entry.nextCard \in Nat BY <2>2, CoreFacts, VisitTypes DEF Entries
  <2>5. Cardinality(entry.cards) \in Nat BY <2>2, FS_CardinalityType
  <2> HIDE DEF entry, had
  <2>6. /\ entry.cards \subseteq had
        /\ {c.core : c \in had \ entry.cards}
             = (IF sectio.admitted = None THEN {} ELSE {sectio.admitted.core})
        /\ Cardinality(had) = Cardinality(entry.cards) + grown
    <3>1. CASE sectio.admitted = None
      <4>1. had = entry.cards /\ grown = 0 BY <3>1, <2>3, <2>4 DEF Enrolled
      <4>2. {c.core : c \in had \ entry.cards} = {} BY <4>1
      <4> HIDE DEF grown
      <4>3. Cardinality(had) = Cardinality(entry.cards) + grown BY <4>1, <2>5
      <4> QED BY <3>1, <4>1, <4>2, <4>3
    <3>2. CASE sectio.admitted # None
      <4>1. PICK new \in OwnedCards : /\ new.core = sectio.admitted.core /\ new \notin entry.cards
                                      /\ had = entry.cards \cup {new}
        BY <3>2, <2>3 DEF Enrolled
      <4>2. grown = 1 BY <3>2, <2>3, <2>4 DEF Enrolled
      <4>3. Cardinality(had) = Cardinality(entry.cards) + 1 BY <4>1, <2>2, FS_AddElement DEF entry
      <4>4. had \ entry.cards = {new} BY <4>1
      <4>5. {c.core : c \in had \ entry.cards} = {sectio.admitted.core} BY <4>1, <4>4
      <4> HIDE DEF grown
      <4> QED BY <3>2, <4>1, <4>2, <4>3, <4>5
    <3> QED BY <3>1, <3>2
  <2>7. had = cards \cup ({sectio.struck} \ {None}) BY DEF had, Deck
  <2>8. gold = entry.gold - Price(sectio.admitted) - StrikeFee(sectio.struck)
               + (IF sectio.bought /\ ~entry.bought THEN Payout[sectio.offer] - PaidLipsanonCost ELSE 0)
    BY <2>1 DEF Balanced, Won, entry
  <2>9. /\ lipsana = entry.lipsana \cup (IF sectio.bought /\ ~entry.bought THEN {sectio.offer} ELSE {})
        /\ seen = entry.seen
    BY <2>1 DEF Balanced, entry
  <2> QED BY <2>6, <2>7, <2>8, <2>9, Zenon DEF VisitBalances, entry, grown
<1>2. Init => Balancing BY DEF Init, Balancing
<1> QED
  BY <1>1, <1>2, CoreInit, CoreStep, SeatingInit, SeatingStep, AccountingInit, AccountingStep,
     BalancingStep, PTL DEF Spec
=============================================================================
