---------------------------- MODULE Cryptography ----------------------------
(***************************************************************************)
(* What src/crypto/cryptography.c and src/integrity/encoding.c compute, as *)
(* terms.  A term is a tuple whose first element names the function that   *)
(* produced it, so that a value can only be read back by the matching      *)
(* inverse and, for the ciphers, only with the matching key.               *)
(*                                                                         *)
(* A ciphertext is raw bytes, but connection_request.c measures it with    *)
(* strlen before it puts it in a message (lines 184 and 232), so a         *)
(* ciphertext that happens to hold a zero byte is sent cut short.  Whether *)
(* it holds one depends on the key stream and is the parameter `whole` of  *)
(* sent_as_c_string.                                                       *)
(***************************************************************************)
CONSTANTS
    NULL,      \* the C null pointer
    Garbled    \* bytes that are not what the sender encrypted

(* Base64, in src/integrity/encoding.c. *)
encode_from_string(x) == <<"b64", x>>
decode_to_string(y)   == IF y[1] = "b64" THEN y[2] ELSE Garbled

(* The PEM form of the public half of a keypair.  A keypair is named by    *)
(* its owner; no operation below reads the private half from the PEM form. *)
asymmetrical_key_to_string(keypair) == <<"pem", keypair>>
asymmetrical_key_from_string(y)     == IF y[1] = "pem" THEN y[2] ELSE Garbled

(* RSA with OAEP padding: decryption with another keypair fails and the    *)
(* function returns NULL.                                                  *)
asymmetrical_encrypt(keypair, x) == <<"rsa", keypair, x>>
asymmetrical_decrypt(keypair, y) ==
    IF y[1] = "rsa" /\ y[2] = keypair THEN y[3] ELSE NULL

(* DES in CFB mode: decryption never fails, it returns other bytes.        *)
symmetrical_encrypt(key, x) == <<"des", key, x>>
sent_as_c_string(y, whole)  == IF whole THEN y ELSE <<"cut", y>>
symmetrical_decrypt(key, y) ==
    IF y[1] = "des" /\ y[2] = key THEN y[3] ELSE Garbled
=============================================================================
