---------------------------- MODULE MemberQuota ----------------------------
(***************************************************************************)
(* What a member may consume, as the database keeps it: a balance of       *)
(* tokens with a chained ledger and reservations, vouchers that add to the *)
(* balance, and a balance of images with its own ledger.                   *)
(*                                                                         *)
(* Every operation reads what it needs, computes the next rows outside of  *)
(* any transaction, and commits them if the rows it read are still there;  *)
(* otherwise it reads again.  A call is that pair of steps: it sits on a   *)
(* teller's desk in between.  Rows carry a revision, so an equal row is an *)
(* unchanged one; integrity tags are left out, as nobody else writes.      *)
(***************************************************************************)
EXTENDS Integers, Sequences, FiniteSets, FiniteSetsExt, Totals

CONSTANTS
  Teller,        \* handlers and recovery tasks, of all slots
  Account,       \* members
  Purchase,      \* ids of model requests that reserve tokens
  Payer,         \* Payer[r] is the member of the API key that request r uses
  Voucher,       \* ids of vouchers
  Terms,         \* Terms[v] is [amount, max, recipient] of a voucher
  Grant,         \* request ids of an administrator's grants
  Adjustment,    \* adjustment ids of an administrator
  Idle, NoRow, Anyone,
  Portion, Bill, \* token amounts that are reserved or granted, and billed
  OpeningTokens, \* granted to every member before
  OldImages,     \* images of a member that an old, expired reservation still holds
  MaxCalls       \* bound on the number of calls

ASSUME QuotaAssumption ==
  /\ Payer \in [Purchase -> Account]
  /\ Terms \in [Voucher -> [amount : Nat \ {0}, max : Nat \ {0}, recipient : Account \union {Anyone}]]
  /\ \A v \in Voucher : Terms[v].recipient # Anyone => Terms[v].max = 1
  /\ Portion \subseteq Nat \ {0} /\ Bill \subseteq Nat
  /\ OpeningTokens \in Nat \ {0} /\ OldImages \in [Account -> Nat] /\ MaxCalls \in Nat
  /\ NoRow \notin [available : Int, reserved : Int, consumed : Int, revision : Int]
  /\ NoRow \notin [reserved : Int, released : Int, status : {"reserved", "settled"}, revision : Int]

VARIABLES
  purse,       \* user_balances, with the length of the chain as its last tag
  entries,     \* ledger_entries, in the order of the chain
  held,        \* quota_reservations by request
  vouchers,    \* vouchers with their delivery
  late,        \* vouchers whose time is over
  redemptions, \* voucher_redemptions
  album,       \* member_image_balances
  imageLog,    \* image_quota_ledger
  hold,        \* image_quota_reservations
  revoked,     \* members whose API key is no longer active
  desk, calls

quotaVars == <<purse, entries, held, vouchers, late, redemptions, album,
               imageLog, hold, revoked, desk, calls>>
tokenVars == <<purse, entries>>
imageVars == <<album, imageLog, hold>>
voucherVars == <<vouchers, redemptions>>

Line(kind, ref, amount, row) ==
  [kind |-> kind, ref |-> ref, amount |-> amount, previous |-> row.tail]

QuotaInit ==
  /\ purse = [a \in Account |-> [balance |-> OpeningTokens, reserved |-> 0,
        granted |-> OpeningTokens, consumed |-> 0, revision |-> 1, tail |-> 1]]
  /\ entries = [a \in Account |-> <<[kind |-> "grant", ref |-> <<"opening">>,
        amount |-> OpeningTokens, previous |-> 0]>>]
  /\ held = [r \in Purchase |-> [status |-> "none", tokens |-> 0]]
  /\ vouchers = [v \in Voucher |-> [status |-> "none", count |-> 0, delivery |-> "none", revision |-> 0]]
  /\ late = {} /\ redemptions = {} /\ revoked = {}
  /\ album = [a \in Account |-> IF OldImages[a] = 0 THEN NoRow
       ELSE [available |-> 0, reserved |-> OldImages[a], consumed |-> 0, revision |-> 1]]
  /\ hold = [a \in Account |-> IF OldImages[a] = 0 THEN NoRow
       ELSE [reserved |-> OldImages[a], released |-> 0, status |-> "reserved", revision |-> 0]]
  /\ imageLog = {[id |-> <<"old", a>>, kind |-> "adjust", account |-> a, amount |-> OldImages[a]] :
                    a \in {b \in Account : OldImages[b] > 0}}
  /\ desk = [t \in Teller |-> Idle] /\ calls = 0

----------------------------------------------------------------------------
(* Calls.  A teller begins one, and ends it when it has committed, when it  *)
(* is refused, when its retries are used up, or when it dies.               *)

Begins(t, call) ==
  /\ desk[t] = Idle /\ calls < MaxCalls
  /\ desk' = [desk EXCEPT ![t] = call] /\ calls' = calls + 1
  /\ UNCHANGED <<tokenVars, held, voucherVars, late, imageVars, revoked>>

\* The commit found another row than the call had read: it reads again.
ReadsAgain(t, call) ==
  /\ desk' = [desk EXCEPT ![t] = call]
  /\ UNCHANGED <<tokenVars, held, voucherVars, late, imageVars, revoked, calls>>

Done(t) == desk' = [desk EXCEPT ![t] = Idle] /\ UNCHANGED <<late, revoked, calls>>

Ends(t) ==
  /\ desk[t] # Idle /\ Done(t)
  /\ UNCHANGED <<tokenVars, held, voucherVars, imageVars>>

Pending(t, ops) == desk[t] # Idle /\ desk[t].op \in ops

\* The unique key of the ledger: identity, kind and reference.
Entered(a, kind, ref) ==
  \E i \in DOMAIN entries[a] : entries[a][i].kind = kind /\ entries[a][i].ref = ref

\* A row with d more tokens, of which the ledger gets one entry.
Credited(row, d) ==
  [row EXCEPT !.balance = @ + d, !.granted = @ + d, !.revision = @ + 1, !.tail = @ + 1]

Write(a, row, entry) ==
  /\ purse' = [purse EXCEPT ![a] = row]
  /\ entries' = [entries EXCEPT ![a] = Append(@, entry)]

----------------------------------------------------------------------------
(* Reservations.                                                            *)

\* The permit and the sufficiency of the balance that was read.
CanReserve(r, n) ==
  /\ Payer[r] \notin revoked
  /\ purse[Payer[r]].reserved + n <= purse[Payer[r]].balance

ReserveCall(r, n) == [op |-> "reserve", request |-> r, n |-> n, row |-> purse[Payer[r]]]

ReserveVerdict(c) ==
  LET a == Payer[c.request] IN
    IF a \in revoked \/ purse[a] # c.row THEN "conflict"
    ELSE IF held[c.request].status # "none" THEN "duplicate"
    ELSE IF c.row.balance - c.row.reserved < c.n THEN "insufficient"
    ELSE "applied"

ReserveCommits(t) ==
  LET c == desk[t]  a == Payer[c.request] IN
    /\ Pending(t, {"reserve"}) /\ ReserveVerdict(c) = "applied"
    /\ held' = [held EXCEPT ![c.request] = [status |-> "active", tokens |-> c.n]]
    /\ purse' = [purse EXCEPT ![a] = [c.row EXCEPT !.reserved = @ + c.n, !.revision = @ + 1]]
    /\ Done(t) /\ UNCHANGED <<entries, voucherVars, imageVars>>

ReserveAgain(t) ==
  LET c == desk[t] IN
    /\ Pending(t, {"reserve"}) /\ ReserveVerdict(c) = "conflict"
    /\ CanReserve(c.request, c.n) /\ ReadsAgain(t, ReserveCall(c.request, c.n))

(* The end of a reservation: the request is charged, or it failed or        *)
(* expired and the reservation is released.                                 *)

FinishCall(op, r, n) ==
  [op |-> op, request |-> r, n |-> n, row |-> purse[Payer[r]], reservation |-> held[r]]

FinishKind(op) == IF op = "settle" THEN "usage" ELSE "usage_failed"

\* A plausible bug: the settlement compares the reservation and not the balance.
FinishVerdict_AnyBalance(c) ==
  LET a == Payer[c.request] IN
    IF held[c.request] # c.reservation THEN "conflict"
    ELSE IF Entered(a, FinishKind(c.op), <<c.request>>) THEN "duplicate"
    ELSE "applied"

FinishVerdict(c) ==
  LET a == Payer[c.request] IN
    IF purse[a] # c.row \/ held[c.request] # c.reservation THEN "conflict"
    ELSE IF Entered(a, FinishKind(c.op), <<c.request>>) THEN "duplicate"
    ELSE "applied"

\* What the member can pay without touching what other requests reserved.
Charged(c) ==
  IF c.op = "fail" THEN 0
  ELSE Min({c.n, c.row.balance - (c.row.reserved - c.reservation.tokens)})

\* The reservation is given back and what was charged is gone.
Closed(c) ==
  [c.row EXCEPT !.balance = @ - Charged(c), !.consumed = @ + Charged(c),
                !.reserved = @ - c.reservation.tokens, !.revision = @ + 1, !.tail = @ + 1]

FinishCommits(t) ==
  LET c == desk[t]  a == Payer[c.request] IN
    /\ Pending(t, {"settle", "fail"}) /\ FinishVerdict(c) = "applied"
    /\ held' = [held EXCEPT ![c.request].status = IF c.op = "settle" THEN "settled" ELSE "released"]
    /\ Write(a, Closed(c), Line(FinishKind(c.op), <<c.request>>, 0 - Charged(c), c.row))
    /\ Done(t) /\ UNCHANGED <<voucherVars, imageVars>>

FinishAgain(t) ==
  LET c == desk[t] IN
    /\ Pending(t, {"settle", "fail"}) /\ FinishVerdict(c) = "conflict"
    /\ held[c.request].status = "active"
    /\ ReadsAgain(t, FinishCall(c.op, c.request, c.n))

----------------------------------------------------------------------------
(* Image balances, and an administrator's grant of tokens and images.       *)

Shown(a) == IF album[a] = NoRow THEN 0 ELSE album[a].revision
Available(row) == IF row = NoRow THEN 0 ELSE row.available

\* A new row begins with revision 0, as a row that does not exist is shown.
Adjusted(row, d) ==
  IF row = NoRow THEN [available |-> d, reserved |-> 0, consumed |-> 0, revision |-> 0]
  ELSE [row EXCEPT !.available = @ + d, !.revision = @ + 1]

Logged(id) == \E e \in imageLog : e.id = id

LogImages(id, kind, a, d) ==
  imageLog' = imageLog \union {[id |-> id, kind |-> kind, account |-> a, amount |-> d]}

\* The administrator names the revision that the page showed: a call is only
\* begun, and repeated, if it is still the current one.
GrantCall(a, g, n, d, shown) ==
  [op |-> "grant", account |-> a, ref |-> g, n |-> n, d |-> d, shown |-> shown,
   row |-> purse[a], image |-> album[a]]

CanGrant(a, d, shown) == d = 0 \/ (shown = Shown(a) /\ Available(album[a]) + d >= 0)

GrantVerdict(c) ==
  IF c.n > 0 /\ purse[c.account] # c.row THEN "conflict"
  ELSE IF c.n > 0 /\ Entered(c.account, "grant", <<"admin", c.ref>>) THEN "duplicate"
  ELSE IF c.d # 0 /\ Logged(<<"grant", c.ref>>) THEN "duplicate"
  ELSE IF c.d # 0 /\ album[c.account] # c.image THEN "conflict"
  ELSE "applied"

GrantCommits(t) ==
  LET c == desk[t] IN
    /\ Pending(t, {"grant"}) /\ GrantVerdict(c) = "applied"
    /\ IF c.n = 0 THEN UNCHANGED tokenVars
       ELSE Write(c.account, Credited(c.row, c.n), Line("grant", <<"admin", c.ref>>, c.n, c.row))
    /\ IF c.d = 0 THEN UNCHANGED <<album, imageLog>>
       ELSE /\ album' = [album EXCEPT ![c.account] = Adjusted(c.image, c.d)]
            /\ LogImages(<<"grant", c.ref>>, "adjust", c.account, c.d)
    /\ Done(t) /\ UNCHANGED <<held, voucherVars, hold>>

GrantAgain(t) ==
  LET c == desk[t] IN
    /\ Pending(t, {"grant"}) /\ GrantVerdict(c) = "conflict"
    /\ CanGrant(c.account, c.d, c.shown)
    /\ ReadsAgain(t, GrantCall(c.account, c.ref, c.n, c.d, c.shown))

\* An adjustment of one image balance is not computed again after a conflict;
\* an id that is in the ledger already is answered from it.
AdjustCall(a, id, d) ==
  [op |-> "adjust", account |-> a, id |-> id, d |-> d, image |-> album[a]]

AdjustVerdict(c) ==
  IF Logged(<<"adjust", c.id>>) THEN "duplicate"
  ELSE IF album[c.account] # c.image THEN "conflict"
  ELSE "applied"

AdjustCommits(t) ==
  LET c == desk[t] IN
    /\ Pending(t, {"adjust"}) /\ AdjustVerdict(c) = "applied"
    /\ album' = [album EXCEPT ![c.account] = Adjusted(c.image, c.d)]
    /\ LogImages(<<"adjust", c.id>>, "adjust", c.account, c.d)
    /\ Done(t) /\ UNCHANGED <<tokenVars, held, voucherVars, hold>>

(* Listings first release the images of expired reservations, one by one;   *)
(* two listings may do so at the same time.                                 *)

Final(a, i) == <<"final", a, i>>

ReleaseCall(a, i) ==
  [op |-> "release", account |-> a, child |-> i, image |-> album[a], reservation |-> hold[a]]

\* The first child without a final entry, of a reservation that still is open.
CanRelease(a, i) ==
  /\ hold[a] # NoRow /\ hold[a].released < hold[a].reserved
  /\ i \in 1..hold[a].reserved /\ ~Logged(Final(a, i))
  /\ \A j \in 1..(i - 1) : Logged(Final(a, j))

ReleaseVerdict(c) ==
  IF Logged(Final(c.account, c.child)) THEN "duplicate"
  ELSE IF album[c.account] # c.image \/ hold[c.account] # c.reservation THEN "conflict"
  ELSE "applied"

ReleaseCommits(t) ==
  LET c == desk[t] IN
    /\ Pending(t, {"release"}) /\ ReleaseVerdict(c) = "applied"
    /\ album' = [album EXCEPT ![c.account] =
         [c.image EXCEPT !.available = @ + 1, !.reserved = @ - 1, !.revision = @ + 1]]
    /\ hold' = [hold EXCEPT ![c.account] = [c.reservation EXCEPT
         !.released = @ + 1, !.revision = @ + 1,
         !.status = IF c.reservation.released + 1 = c.reservation.reserved THEN "settled" ELSE @]]
    /\ LogImages(Final(c.account, c.child), "release", c.account, 1)
    /\ Done(t) /\ UNCHANGED <<tokenVars, held, voucherVars>>

ReleaseAgain(t) ==
  LET c == desk[t] IN
    /\ Pending(t, {"release"}) /\ ReleaseVerdict(c) = "conflict"
    /\ hold[c.account].released < hold[c.account].reserved
    /\ ReadsAgain(t, ReleaseCall(c.account, c.child))

----------------------------------------------------------------------------
(* Vouchers.  One with a recipient has a delivery and is used once.         *)

CreateVouchers(v) ==
  /\ vouchers[v].status = "none" /\ calls < MaxCalls /\ calls' = calls + 1
  /\ vouchers' = [vouchers EXCEPT ![v] = [@ EXCEPT !.status = "active",
       !.delivery = IF Terms[v].recipient = Anyone THEN "none" ELSE "pending"]]
  /\ UNCHANGED <<tokenVars, held, redemptions, late, imageVars, revoked, desk>>

\* Only an unused voucher can be deleted, its delivery goes with it.
DeleteVoucher(v) ==
  /\ vouchers[v].status \notin {"none", "deleted"} /\ vouchers[v].count = 0
  /\ vouchers' = [vouchers EXCEPT ![v] = [@ EXCEPT !.status = "deleted", !.delivery = "none"]]
  /\ UNCHANGED <<tokenVars, held, redemptions, late, imageVars, revoked, desk, calls>>

VoucherExpires(v) ==
  /\ vouchers[v].status = "active" /\ late' = late \union {v}
  /\ UNCHANGED <<tokenVars, held, voucherVars, imageVars, revoked, desk, calls>>

RedeemCall(a, v, via) ==
  [op |-> "redeem", account |-> a, voucher |-> v, via |-> via,
   row |-> purse[a], seen |-> vouchers[v], late |-> v \in late]

\* A voucher is found by its code, or by the delivery to this member.
CanRedeem(a, v, via) ==
  /\ vouchers[v].status \notin {"none", "deleted"}
  /\ via = "delivery" => Terms[v].recipient = a

\* A plausible bug: the redemption compares the balance and not the voucher.
RedeemVerdict_AnyVoucher(c) ==
  LET terms == Terms[c.voucher] IN
    IF <<c.voucher, c.account>> \in redemptions THEN "already redeemed"
    ELSE IF c.seen.status # "active" \/ c.seen.count >= terms.max \/ c.late THEN "unavailable"
    ELSE IF c.via = "delivery" /\ c.seen.delivery # "pending" THEN "unavailable"
    ELSE IF c.via = "code" /\ terms.recipient # Anyone THEN "unavailable"
    ELSE IF purse[c.account] # c.row THEN "conflict"
    ELSE "applied"

RedeemVerdict(c) ==
  LET terms == Terms[c.voucher] IN
    IF vouchers[c.voucher] # c.seen THEN "conflict"
    ELSE IF <<c.voucher, c.account>> \in redemptions THEN "already redeemed"
    ELSE IF c.seen.status # "active" \/ c.seen.count >= terms.max \/ c.late THEN "unavailable"
    ELSE IF c.via = "delivery" /\ c.seen.delivery # "pending" THEN "unavailable"
    ELSE IF c.via = "code" /\ terms.recipient # Anyone THEN "unavailable"
    ELSE IF purse[c.account] # c.row THEN "conflict"
    ELSE "applied"

RedeemCommits(t) ==
  LET c == desk[t]  terms == Terms[c.voucher] IN
    /\ Pending(t, {"redeem"}) /\ RedeemVerdict(c) = "applied"
    /\ Write(c.account, Credited(c.row, terms.amount),
             Line("grant", <<"voucher", c.voucher>>, terms.amount, c.row))
    /\ redemptions' = redemptions \union {<<c.voucher, c.account>>}
    /\ vouchers' = [vouchers EXCEPT ![c.voucher] = [c.seen EXCEPT
         !.count = @ + 1, !.revision = @ + 1,
         !.status = IF c.seen.count + 1 >= terms.max THEN "redeemed" ELSE "active",
         !.delivery = IF c.via = "delivery" THEN "redeemed" ELSE @]]
    /\ Done(t) /\ UNCHANGED <<held, imageVars>>

RedeemAgain(t) ==
  LET c == desk[t] IN
    /\ Pending(t, {"redeem"}) /\ RedeemVerdict(c) = "conflict"
    /\ CanRedeem(c.account, c.voucher, c.via)
    /\ ReadsAgain(t, RedeemCall(c.account, c.voucher, c.via))

RevokeKey(a) ==
  /\ revoked' = revoked \union {a}
  /\ UNCHANGED <<tokenVars, held, voucherVars, late, imageVars, desk, calls>>

----------------------------------------------------------------------------

BeginsCall(t) ==
  \/ \E r \in Purchase, n \in Portion : CanReserve(r, n) /\ Begins(t, ReserveCall(r, n))
  \/ \E r \in Purchase, n \in Bill :
       held[r].status = "active" /\ Begins(t, FinishCall("settle", r, n))
  \/ \E r \in Purchase : held[r].status = "active" /\ Begins(t, FinishCall("fail", r, 0))
  \/ \E a \in Account, g \in Grant, n \in Portion \union {0}, d \in {0, 1} :
       /\ n > 0 \/ d # 0
       /\ CanGrant(a, d, Shown(a)) /\ Begins(t, GrantCall(a, g, n, d, Shown(a)))
  \/ \E a \in Account, id \in Adjustment, d \in {-1, 1} :
       /\ ~Logged(<<"adjust", id>>) /\ Available(album[a]) + d >= 0
       /\ Begins(t, AdjustCall(a, id, d))
  \/ \E a \in Account : \E i \in 1..OldImages[a] :
       CanRelease(a, i) /\ Begins(t, ReleaseCall(a, i))
  \/ \E a \in Account, v \in Voucher, via \in {"code", "delivery"} :
       CanRedeem(a, v, via) /\ Begins(t, RedeemCall(a, v, via))

QuotaNext ==
  \/ \E t \in Teller :
       \/ BeginsCall(t) \/ Ends(t)
       \/ ReserveCommits(t) \/ ReserveAgain(t) \/ FinishCommits(t) \/ FinishAgain(t)
       \/ GrantCommits(t) \/ GrantAgain(t) \/ AdjustCommits(t)
       \/ ReleaseCommits(t) \/ ReleaseAgain(t) \/ RedeemCommits(t) \/ RedeemAgain(t)
  \/ \E v \in Voucher : CreateVouchers(v) \/ DeleteVoucher(v) \/ VoucherExpires(v)
  \/ \E r \in Purchase : RevokeKey(Payer[r])

QuotaSpec == QuotaInit /\ [][QuotaNext]_quotaVars

----------------------------------------------------------------------------
(* Properties.                                                              *)

Active(a) == {r \in Purchase : Payer[r] = a /\ held[r].status = "active"}
EntriesOf(a, kind, ref) ==
  {i \in DOMAIN entries[a] : entries[a][i].kind = kind /\ entries[a][i].ref = ref}

\* Tokens: the balance is what was granted less what was charged and what the
\* ledger adds up to; the reservations that are active add up to reserved, which
\* the balance covers; the ledger is one chain that ends where the balance says
\* (verify_quota_ledger would refuse the member otherwise).
TokensAddUp ==
  \A a \in Account :
    LET row == purse[a]  log == entries[a] IN
      /\ row.balance = row.granted - row.consumed
      /\ row.balance = Net(Amounts(log))
      /\ row.reserved = Net([r \in Active(a) |-> held[r].tokens])
      /\ 0 <= row.reserved /\ row.reserved <= row.balance
      /\ row.tail = Len(log) /\ \A i \in DOMAIN log : log[i].previous = i - 1

\* Images: what is available, reserved and consumed is what was adjusted, no
\* image of an expired reservation is given back twice or lost.
ImagesAddUp ==
  \A a \in Account : album[a] # NoRow =>
    LET row == album[a]
        adjusted == {e \in imageLog : e.kind = "adjust" /\ e.account = a} IN
      /\ row.available >= 0
      /\ row.available + row.reserved + row.consumed
           = Net([e \in adjusted |-> e.amount])
      /\ row.reserved = IF hold[a] = NoRow THEN 0 ELSE hold[a].reserved - hold[a].released

\* Whatever races, the books of every member balance: concurrent reservations,
\* charges, grants, redemptions and releases neither lose nor repeat an amount.
BooksBalance == TokensAddUp /\ ImagesAddUp

\* A request is charged or released once, an administrator's grant and a voucher
\* enter the ledger of a member once, however often and from wherever the calls
\* are repeated; a voucher is used as often as its terms allow and only by its
\* recipient, and a deleted voucher never added anything.
CreditedOnce ==
  /\ \A r \in Purchase :
       Cardinality(EntriesOf(Payer[r], "usage", <<r>>) \union EntriesOf(Payer[r], "usage_failed", <<r>>))
         = IF held[r].status \in {"settled", "released"} THEN 1 ELSE 0
  /\ \A a \in Account, g \in Grant : Cardinality(EntriesOf(a, "grant", <<"admin", g>>)) <= 1
  /\ \A v \in Voucher :
       LET users == {a \in Account : <<v, a>> \in redemptions} IN
         /\ vouchers[v].count = Cardinality(users) /\ Cardinality(users) <= Terms[v].max
         /\ vouchers[v].status = "deleted" => users = {}
         /\ \A a \in Account : Cardinality(EntriesOf(a, "grant", <<"voucher", v>>))
                                 = IF a \in users THEN 1 ELSE 0
         /\ Terms[v].recipient # Anyone => users \subseteq {Terms[v].recipient}

\* The books of tokens, images and vouchers: they balance, and what was earned,
\* spent or released was entered once.
QuotaBooks == BooksBalance /\ CreditedOnce

=============================================================================
