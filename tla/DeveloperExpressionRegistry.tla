-------------------- MODULE DeveloperExpressionRegistry --------------------
(***************************************************************************)
(* Expression NFTs (src/src/DeveloperExpressionRegistry.sol): each id, once *)
(* minted, has a fixed engine type, an owner that transfers move, and an   *)
(* active flag a moderator toggles.  Ids are handed out in order; an id    *)
(* that is not minted yet has the owner Nobody.  Hashes and URIs are left  *)
(* out: no gate reads them.                                                *)
(***************************************************************************)
EXTENDS Naturals

CONSTANTS Developers, Nobody,
          EngineTypes,    \* engine type tags an expression may carry
          MaxExpressions  \* bound: expressions minted in one behaviour

RegistryAssumption == MaxExpressions \in Nat /\ Nobody \notin Developers

VARIABLES nextExpressionId, expressions

vars == <<nextExpressionId, expressions>>

ExpressionIds == 1..MaxExpressions

Expression == [owner: Developers \cup {Nobody}, active: BOOLEAN,
               engineType: EngineTypes]

exists(id) == id \in ExpressionIds /\ expressions[id].owner # Nobody

isExpressionCompatible(engineType, id) ==
  /\ exists(id)
  /\ expressions[id].active
  /\ expressions[id].engineType = engineType

Init ==
  /\ nextExpressionId = 1
  /\ expressions = [id \in ExpressionIds |->
       [owner |-> Nobody, active |-> FALSE,
        engineType |-> CHOOSE t \in EngineTypes : TRUE]]

mintExpression(developer, engineType) ==
  /\ nextExpressionId <= MaxExpressions
  /\ expressions' = [expressions EXCEPT ![nextExpressionId] =
       [owner |-> developer, active |-> TRUE, engineType |-> engineType]]
  /\ nextExpressionId' = nextExpressionId + 1

\* MODERATOR_ROLE
setExpressionActive(id, active) ==
  /\ exists(id)
  /\ expressions' = [expressions EXCEPT ![id].active = active]
  /\ UNCHANGED nextExpressionId

\* ERC721 transfer by the owner.
transferExpression(id, to) ==
  /\ exists(id)
  /\ expressions' = [expressions EXCEPT ![id].owner = to]
  /\ UNCHANGED nextExpressionId
=============================================================================
