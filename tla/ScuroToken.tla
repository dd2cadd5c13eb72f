----------------------------- MODULE ScuroToken -----------------------------
(***************************************************************************)
(* The SCU ledger (src/src/ScuroToken.sol over the vendored ERC20) as pure *)
(* operators on a ledger value: each call of the token has a guard, the    *)
(* condition under which it does not revert, and an effect.  A transaction *)
(* that burns and then mints is the composition of two effects.            *)
(*                                                                         *)
(* MaxSupply is the cap above which minting reverts (type(uint208).max in  *)
(* ERC20Votes); Unlimited is the allowance that spending never lowers      *)
(* (type(uint256).max).  Vote checkpoints, permits and events are left     *)
(* out: no gate of the protocol reads them.                                *)
(***************************************************************************)
EXTENDS Naturals, Functions

CONSTANTS Accounts, Spenders, MaxSupply, Unlimited

TokenAssumption ==
  MaxSupply \in Nat /\ Unlimited \in Nat /\ Unlimited > MaxSupply

Ledger == [balance: [Accounts -> Nat],
           allowance: [Accounts -> [Spenders -> Nat]],
           totalSupply: Nat]

canTransfer(l, from, amount) == l.balance[from] >= amount

transfer(l, from, to, amount) ==
  LET debited == [l.balance EXCEPT ![from] = @ - amount]
  IN  [l EXCEPT !.balance = [debited EXCEPT ![to] = @ + amount]]

approve(l, owner, spender, amount) ==
  [l EXCEPT !.allowance[owner][spender] = amount]

canSpend(l, owner, spender, amount) ==
  /\ l.allowance[owner][spender] >= amount
  /\ l.balance[owner] >= amount

spendAllowance(l, owner, spender, amount) ==
  IF l.allowance[owner][spender] = Unlimited
    THEN l
    ELSE [l EXCEPT !.allowance[owner][spender] = @ - amount]

transferFrom(l, spender, from, to, amount) ==
  transfer(spendAllowance(l, from, spender, amount), from, to, amount)

burn(l, owner, amount) ==
  [l EXCEPT !.balance[owner] = @ - amount, !.totalSupply = @ - amount]

burnFrom(l, spender, owner, amount) ==
  burn(spendAllowance(l, owner, spender, amount), owner, amount)

canMint(l, amount) == l.totalSupply + amount <= MaxSupply

mint(l, to, amount) ==
  [l EXCEPT !.balance[to] = @ + amount, !.totalSupply = @ + amount]

\* The supply the ledger reports is what its accounts hold.
SupplyHeld(l) == l.totalSupply = SumFunction(l.balance)
=============================================================================
