-------------------------------- MODULE Crypto --------------------------------
(***************************************************************************)
(* C_4_Sockets/crypto/crypto.c: RSA of each byte of a text, modulo 123.    *)
(*                                                                         *)
(* A char is signed.  A negative one is converted to unsigned, 2^32 more,  *)
(* and products are taken modulo 2^32 before they are modulo 123.          *)
(***************************************************************************)
EXTENDS Integers, Sequences

p == 3
q == 41
n == p * q
phi == (p - 1) * (q - 1)
e == 3

Char == -128 .. 127

\* 2^32 modulo n: TLC's numbers do not reach 2^32.
Wrap == ((65536 % n) * (65536 % n)) % n

\* (out * multiplier) % n.  The product of two converted negative chars, in the first
\* round, is that of the chars; later out is a small natural number.
Times(out, sym) ==
  IF out * sym < 0 THEN (Wrap + out * sym) % n ELSE (out * sym) % n

Power[i \in Nat \ {0}] ==
  [sym \in Char |-> IF i = 1 THEN sym ELSE Times(Power[i - 1][sym], sym)]

\* The least number that phi divides with remainder 1 and e without, divided by e.
GetD == (CHOOSE x \in 1 .. e * phi + 1 :
           /\ x % phi = 1 /\ x > 1 /\ x % e = 0
           /\ \A y \in 2 .. x - 1 : ~(y % phi = 1 /\ y % e = 0)) \div e

Encrypt(sym) == Power[e][sym]
Decrypt(sym) == Power[GetD][sym]

-----------------------------------------------------------------------------
(* A packet on its way: M_WritePack_Named and M_ReadPack_Named of packet.c *)
(* (those of unnamed packets do the same).  A text is encrypted where it   *)
(* is, sent, and decrypted where it is; the sender goes on using it.       *)

CONSTANT Messages   \* the texts that are sent

ASSUME CryptoAssumption == Messages \subseteq Seq(Char)

VARIABLES
  message,  \* the text
  step,     \* "encrypt", "send", "restore", "read", "done" or "failed"
  data,     \* the memory of the sender
  wire,     \* what was sent
  copy      \* the memory of the receiver

cryptoVars == <<message, step, data, wire, copy>>

CryptoInit ==
  /\ message \in Messages
  /\ step = "encrypt"
  /\ data = message /\ wire = <<>> /\ copy = <<>>

EncryptString(text) == [i \in DOMAIN text |-> Encrypt(text[i])]
DecryptString(text) == [i \in DOMAIN text |-> Decrypt(text[i])]

WriteEncrypts ==
  /\ step = "encrypt"
  /\ data' = EncryptString(data)
  /\ step' = "send"
  /\ UNCHANGED <<message, wire, copy>>

\* A packet that cannot be sent stays encrypted in the memory of its sender.
Sends ==
  /\ step = "send"
  /\ \/ step' = "restore" /\ wire' = data
     \/ step' = "failed" /\ UNCHANGED wire
  /\ UNCHANGED <<message, data, copy>>

\* Fault: the sender's text is left encrypted.
WriteLeaves ==
  /\ step = "restore"
  /\ step' = "read"
  /\ UNCHANGED <<message, data, wire, copy>>

WriteRestores ==
  /\ step = "restore"
  /\ data' = DecryptString(data)
  /\ step' = "read"
  /\ UNCHANGED <<message, wire, copy>>

Reads ==
  /\ step = "read"
  /\ copy' = DecryptString(wire)
  /\ step' = "done"
  /\ UNCHANGED <<message, data, wire>>

CryptoNext == WriteEncrypts \/ Sends \/ WriteRestores \/ Reads

CryptoSpec == CryptoInit /\ [][CryptoNext]_cryptoVars

-----------------------------------------------------------------------------
(* Properties. *)

Same(a, b) == \A i \in DOMAIN message : (a[i] = b[i]) <=> message[i] \in 0 .. n - 1

\* Exactly the bytes from 0 to 122 arrive as they were and are restored in the memory of
\* the sender, who compares the text with exit after it has sent it; nothing else goes over
\* the wire than such bytes, so that no byte is EOF (crypto.c:39-70, client_TCP.c:67-73).
Carried ==
  /\ step # "encrypt" => \A i \in DOMAIN wire : wire[i] \in 0 .. n - 1
  /\ step \in {"read", "done"} => Same(message, data)
  /\ step = "done" => Same(message, copy) /\ copy = data
=============================================================================
