------------------------- MODULE UserProfileService -------------------------
(***************************************************************************)
(* UserProfileService: the user profiles of one risk engine, by uid.  An   *)
(* operation gives the new profiles and the result code of the command.    *)
(***************************************************************************)
EXTENDS SymbolPosition, Sequences, SequencesExt, FiniteSetsExt

Currency == {"base", "quote"}       \* of the one currency pair traded

CurrencyId == [base |-> 1, quote |-> 2]

ZeroBalance == [currency \in Currency |-> 0]

\* positions is the hash map of positions, in the order of its iteration.
NewProfile(status) ==
  [userStatus |-> status, adjustmentsCounter |-> 0, accounts |-> ZeroBalance,
   positions |-> <<>>]

\* A profile of a user whose accounts have these amounts; on the currency pair
\* there are no positions.
Profile(amounts) ==
  [userStatus : {"ACTIVE", "SUSPENDED"}, adjustmentsCounter : Nat,
   accounts : [Currency -> amounts], positions : {<<>>}]

\* What Reset leaves.
NoProfiles == <<>>

Outcome(profiles, code) == [profiles |-> profiles, code |-> code]

WithUser(profiles, uid, profile) ==
  [u \in DOMAIN profiles \cup {uid} |-> IF u = uid THEN profile ELSE profiles[u]]

GetUserProfileOrAddSuspended(profiles, uid) ==
  IF uid \in DOMAIN profiles THEN profiles
  ELSE WithUser(profiles, uid, NewProfile("SUSPENDED"))

AppliedLast(profile, transactionId) == profile.adjustmentsCounter = transactionId

\* The code answers ..._SAME for the last transaction id and ..._MANY for a
\* smaller one.
AppliedBefore(profile, transactionId) ==
  profile.adjustmentsCounter >= transactionId

Overdraws(profile, currency, amount) ==
  amount < 0 /\ profile.accounts[currency] + amount < 0

AdjustmentCode(profiles, uid, currency, amount, transactionId) ==
  CASE uid \notin DOMAIN profiles -> "USER_MGMT_USER_NOT_FOUND"
    [] OTHER ->
         LET profile == profiles[uid]
         IN CASE AppliedBefore(profile, transactionId) ->
                   "USER_MGMT_ACCOUNT_BALANCE_ADJUSTMENT_ALREADY_APPLIED"
              [] /\ ~ AppliedBefore(profile, transactionId)
                 /\ Overdraws(profile, currency, amount) ->
                   "USER_MGMT_ACCOUNT_BALANCE_ADJUSTMENT_NSF"
              [] OTHER -> "SUCCESS"

BalanceAdjustment(profiles, uid, currency, amount, transactionId) ==
  LET code == AdjustmentCode(profiles, uid, currency, amount, transactionId)
  IN Outcome(IF code # "SUCCESS" THEN profiles
             ELSE [profiles EXCEPT ![uid].accounts[currency] = @ + amount,
                                   ![uid].adjustmentsCounter = transactionId],
             code)

AddUser(profiles, uid) ==
  IF uid \in DOMAIN profiles THEN Outcome(profiles, "USER_MGMT_USER_ALREADY_EXISTS")
  ELSE Outcome(WithUser(profiles, uid, NewProfile("ACTIVE")), "SUCCESS")

\* Mutant: open positions are not looked at.
HasNoPositions(profile) == FALSE

HasPositions(profile) ==
  \E i \in DOMAIN profile.positions : ~ IsEmptyPosition(profile.positions[i])

\* The profile goes, and its adjustmentsCounter with it.
SuspendUser(profiles, uid) ==
  CASE uid \notin DOMAIN profiles -> Outcome(profiles, "USER_MGMT_USER_NOT_FOUND")
    [] OTHER ->
         CASE profiles[uid].userStatus = "SUSPENDED" ->
                Outcome(profiles, "USER_MGMT_USER_ALREADY_SUSPENDED")
           [] /\ profiles[uid].userStatus # "SUSPENDED"
              /\ HasPositions(profiles[uid]) ->
                Outcome(profiles, "USER_MGMT_USER_NOT_SUSPENDABLE_HAS_POSITIONS")
           [] /\ profiles[uid].userStatus # "SUSPENDED"
              /\ ~ HasPositions(profiles[uid])
              /\ profiles[uid].accounts # ZeroBalance ->
                Outcome(profiles,
                        "USER_MGMT_USER_NOT_SUSPENDABLE_NON_EMPTY_ACCOUNTS")
           [] OTHER -> Outcome(Restrict(profiles, DOMAIN profiles \ {uid}), "SUCCESS")

ResumeUser(profiles, uid) ==
  CASE uid \notin DOMAIN profiles ->
         Outcome(WithUser(profiles, uid, NewProfile("ACTIVE")), "SUCCESS")
    [] OTHER ->
         IF profiles[uid].userStatus # "SUSPENDED"
         THEN Outcome(profiles, "USER_MGMT_USER_NOT_SUSPENDED")
         ELSE Outcome([profiles EXCEPT ![uid].userStatus = "ACTIVE"], "SUCCESS")
=============================================================================
