--------------------------- MODULE CommitParameters ---------------------------
(***************************************************************************)
(* The parameters of the ML-DSA-44 commitment route: public keys and their *)
(* expanded matrices, the registrar, the accounts and the gas.             *)
(***************************************************************************)
EXTENDS Naturals

CONSTANTS
  Keys,         \* public keys of PUBLIC_KEY_LENGTH bytes
  ShortKeys,    \* byte strings of another length
  Matrices,     \* aHat values of the K x L x 32 shape
  BadMatrices,  \* aHat values of another shape
  Callers,      \* message senders
  REGISTRAR,
  HidingWords,  \* the openers of the commitments
  Destinations,
  ExpandA,      \* [Keys -> Matrices]: the honest expansion of rho
  Trapdoored,   \* matrices the registrar can sign under itself
  Accounts,     \* the deployed accounts, a subset of Keys \X HidingWords
  GasLimits,    \* the verification gas a bundler may give
  AccountGas, SignerGas, VerifyGas,  \* what each layer needs before it calls on
  MaxOps,            \* bound: operations per account, nonces 0..MaxOps - 1
  MaxAuthorizations  \* bound: authorizations signed

ASSUME KeyInputsAssumption == /\ Keys \cap ShortKeys = {}
                              /\ Matrices \cap BadMatrices = {}
                              /\ REGISTRAR \in Callers

ASSUME RouteAssumption ==
  /\ Trapdoored \subseteq Matrices
  /\ ExpandA \in [Keys -> Matrices \ Trapdoored]
  /\ REGISTRAR \notin Keys
  /\ Accounts \subseteq Keys \X HidingWords
  /\ GasLimits \subseteq Nat
  /\ {AccountGas, SignerGas, VerifyGas, MaxOps, MaxAuthorizations} \subseteq Nat
=============================================================================
