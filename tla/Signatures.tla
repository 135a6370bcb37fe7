----------------------------- MODULE Signatures -----------------------------
(***************************************************************************)
(* Key pairs, signatures and key derivation: packages ed25519 and chainkd. *)
(* The scalar and group operations they call are those of Scalars and      *)
(* Edwards, here by their results: a 64-byte digest is a pair of 32-byte   *)
(* strings of NBits bits each, a point is its 32-byte encoding.            *)
(***************************************************************************)
EXTENDS Edwards

CONSTANTS Digest(_),      \* SHA-512 of a sequence of fields: a pair <<low, high>>
          Seeds, Messages, Paths

\* The multiplications are only known to be right below 2^(NBits - 1).
inRange(a) == a \in 0..(2^(NBits - 1) - 1)
mulBase(a) == IF inRange(a) THEN multiple(a, B) ELSE <<0, 0>>
encode(p) == ToBytes(extended(p, 1))

\* s[0] &= 248; s[31] &= top; s[31] |= 64
clear3(s) == (s \div 8) * 8
set64(s) == IF bit(s, NBits - 2) = 1 THEN s ELSE s + 2^(NBits - 2)
modifyScalar(s) == set64(clear3(s) % 2^(NBits - 1))
expand(s) == set64(clear3(s) % 2^(NBits - 2))

\* The digest as one 64-byte number, mod the order of B.
reduce(dg) == ((dg[1] % Order) + (2^NBits % Order) * (dg[2] % Order)) % Order
mulAdd(a, b, c) == ((a % Order) * (b % Order) + c) % Order

-----------------------------------------------------------------------------
\* ed25519: a private key is the seed followed by the public key.
GenerateKey(seed) ==
  [seed |-> seed, pub |-> encode(mulBase(modifyScalar(Digest(<<seed>>)[1])))]

response(secret, prefix, pub, msg) ==
  LET r == reduce(Digest(<<prefix, msg>>))
      R == encode(mulBase(r))
      k == reduce(Digest(<<R, pub, msg>>))
  IN  [R |-> R, S |-> mulAdd(k, secret, r)]

Sign(key, msg) ==
  LET digest1 == Digest(<<key.seed>>)
  IN  response(expand(digest1[1]), digest1[2], key.pub, msg)

Verify(pub, msg, sig) ==
  LET A == FromBytes(pub)
      h == reduce(Digest(<<sig.R, pub, msg>>))
  IN  /\ sig.S < 2^(NBits - 3)
      /\ A # Rejected
      /\ encode(law(multiple(h, opposite(affine(A))), mulBase(sig.S))) = sig.R

-----------------------------------------------------------------------------
\* chainkd: an extended key is a key (a scalar or its point) and a salt.
ChainSeed == 99   \* the prefix "Chain seed"

NewXPrv(entropy) == LET x == Digest(<<ChainSeed, entropy>>)
                    IN  [key |-> modifyScalar(x[1]), salt |-> x[2]]

XPub(xprv) == [key |-> encode(mulBase(xprv.key)), salt |-> xprv.salt]

hashKeySaltSelector(version, key, salt, sel) ==
  LET x == Digest(<<version, key, salt, sel>>) IN <<modifyScalar(x[1]), x[2]>>

ChildPrv(xprv, sel, hardened) ==
  IF hardened
  THEN LET x == hashKeySaltSelector(0, xprv.key, xprv.salt, sel)
       IN  [key |-> x[1], salt |-> x[2]]
  ELSE LET x == hashKeySaltSelector(1, XPub(xprv).key, xprv.salt, sel)
       IN  [key |-> mulAdd(1, x[1], xprv.key), salt |-> x[2]]

\* Fault: the child keeps the salt.
ChildPubOldSalt(xpub, sel) ==
  LET x == hashKeySaltSelector(1, xpub.key, xpub.salt, sel)
  IN  [key |-> encode(law(affine(FromBytes(xpub.key)), mulBase(x[1]))), salt |-> xpub.salt]

ChildPub(xpub, sel) ==
  LET x == hashKeySaltSelector(1, xpub.key, xpub.salt, sel)
  IN  [key |-> encode(law(affine(FromBytes(xpub.key)), mulBase(x[1]))), salt |-> x[2]]

XSign(xprv, msg) ==
  response(xprv.key, Digest(<<2, xprv.key, xprv.salt>>)[1], XPub(xprv).key, msg)

XVerify(xpub, msg, sig) == Verify(xpub.key, msg, sig)

-----------------------------------------------------------------------------
(***************************************************************************)
(* Derive walks a path.  Private keys and public keys are derived side by  *)
(* side, by a signer and by someone who only knows the extended public     *)
(* key; hardened children, possible on the private side only, are shared   *)
(* by publishing their XPub.                                               *)
(***************************************************************************)
Derive(seed, path) ==
  Begin("Derive", seed, [prv |-> NewXPrv(seed), pub |-> XPub(NewXPrv(seed))], path)

deriveStep(s, x) ==
  LET child == ChildPrv(s.prv, x.sel, x.hardened)
  IN  [prv |-> child, pub |-> IF x.hardened THEN XPub(child) ELSE ChildPub(s.pub, x.sel)]

SignaturesNext ==
  \/ Idle /\ \/ \E seed \in Seeds, path \in Paths : Derive(seed, path)
             \/ \E seed \in Seeds, m \in Messages :
                  Eval("Sign", <<GenerateKey(seed).pub, m>>, Sign(GenerateKey(seed), m))
  \/ Step("Derive", deriveStep)
  \/ \E m \in Messages : /\ call.fn = "Derive"
                         /\ Then("XSign", <<call.st.pub, m>>, XSign(call.st.prv, m), <<>>)

-----------------------------------------------------------------------------
(***************************************************************************)
(* A signature made with a private key verifies with the public key of the *)
(* pair: GenerateKey and Sign expand the seed alike although they mask it  *)
(* differently, and a key derived without the private key verifies what    *)
(* the derived private key signs.                                          *)
(***************************************************************************)
SignaturesVerify ==
  /\ After("Sign", LAMBDA x, sig : Verify(x[1], x[2], sig))
  /\ After("XSign", LAMBDA x, sig : XVerify(x[1], x[2], sig))

(***************************************************************************)
(* Deriving commutes with taking public keys: at every step of a path the  *)
(* derived extended public key is that of the derived private key.         *)
(***************************************************************************)
DerivationCommutes == During("Derive", LAMBDA seed, s : s.pub = XPub(s.prv))

(***************************************************************************)
(* Private and public sides agree (ed25519, chainkd): what a private key   *)
(* signs, its public key verifies, also when the two were derived apart    *)
(* from each other over any path.                                          *)
(***************************************************************************)
KeysAgree == SignaturesVerify /\ DerivationCommutes
=============================================================================
