--------------------------- MODULE NativeMethods ---------------------------
(***************************************************************************)
(* The native methods of the library, src/rust/src, as data: a method is   *)
(* the sequence of the steps of its closure, in the order of the code, and *)
(* module NativeCalls executes it. A step is an early return, a call into  *)
(* the JVM, a call into the crate, or a change of who owns a native        *)
(* object. Left out: what is computed. A loop over elements is one round:  *)
(* each round repeats the same steps and changes nothing.                  *)
(***************************************************************************)
EXTENDS Sequences

Step(op)        == [op |-> op, exc |-> {}, class |-> ""]
Throwing(op, E) == [op |-> op, exc |-> E, class |-> ""]
Making(op, C)   == [op |-> op, exc |-> {}, class |-> C]

(***************************************************************************)
(* Steps.                                                                  *)
(***************************************************************************)

\* check_ptr on the receiver and on the second operand of a pair method.
CheckPtr   == Step("check_ptr")
CheckOther == Step("check_other")
CheckSelf  == Step("check_self")

\* A call through env: an argument is copied or a Java object made.
Jni == Step("jni")

\* An argument is decoded or its range checked, before anything is changed.
Reject(E) == Throwing("reject", E)

\* The error of a check is thrown to Java, but the closure goes on.
Note(E) == Throwing("note", E)

\* The crate is called with &, or with &mut to fill caches only ...
Read      == Step("read")
ReadOr(E) == Throwing("read", E)

\* ... or to change the object.
Advance      == Step("advance")
AdvanceOr(E) == Throwing("advance", E)

\* Box::from_raw(ptr): the closure owns the receiver.
FromRaw == Step("from_raw")

\* None => Ok(null_mut())
OrNull == Step("or_null")

\* RawBox::new(value), env.new_object(.., as_jlong()) or the same through
\* java.lang.Long, and leak().
RawBoxNew(C)  == Making("raw_box", C)
NewObject     == Step("new_object")
Leak          == Step("leak")

\* Ok(box_to_jlong(value))
BoxToJlong(C) == Making("box_to_jlong", C)

\* native_free: check_ptr and drop, the error is not returned.
NativeFree == <<Step("native_free")>>

(***************************************************************************)
(* Exceptions of errors.rs. The three errors that can hold a               *)
(* SignatureError are thrown as one of two classes.                        *)
(***************************************************************************)
Pickle     == {"PickleException"}
Decryption == {"DecryptionException"}
Encryption == {"EncryptionException"}
Creation   == {"SessionCreationException"}
Key        == {"KeyException"}
Signature  == {"SignatureException"}
Ecies      == {"EciesException"}
Conversion == {"ConversionException"}
Sas        == {"SasException"}

MegolmDecryption == Signature \cup Decryption
SessionKeyDecode == Signature \cup Key
MessageDecode    == Signature \cup Decryption

(***************************************************************************)
(* Helpers.                                                                *)
(***************************************************************************)

\* wrap(env, env.convert_byte_array(key)?)?
Wrap == <<Jni, Reject(Conversion)>>

\* *_session_config_from_version
SessionConfig == <<Reject(Conversion)>>

StringToJString == <<Jni>>
JsonToJString   == <<Reject(Pickle), Jni>>
FromJson        == <<Reject(Pickle)>>

\* An argument copied and decoded.
Decoded(E) == <<Jni, Reject(E)>>

ToJavaBase64Value    == <<Jni, Jni>>
ToJavaIdentityKeys   == ToJavaBase64Value \o ToJavaBase64Value \o <<Jni>>
ToJavaSessionKeys    == <<Jni>> \o ToJavaBase64Value \o ToJavaBase64Value
                          \o ToJavaBase64Value \o <<Jni>>
ToJavaOlmMessage     == <<Jni, Jni>>
ToJavaMegolmMessage  == <<Jni, Jni>> \o ToJavaBase64Value \o <<Jni, Jni>>
ToJavaDecrypted      == <<Jni, Jni>>
ToJavaPkMessage      == <<Jni, Jni, Jni, Jni>>
ToJavaCheckCode      == <<Jni, Jni>>
ToDecimalArray       == <<Jni, Jni, Jni>>
ToEmojiArray         == <<Jni, Jni>>
ToRawByteArray       == <<Jni, Jni>>
ToJavaSasBytes       == ToDecimalArray \o ToEmojiArray \o ToRawByteArray
                          \o <<Jni>>
ToByteArray          == <<Jni, Jni>>
KeyVecToJavaList     == <<Jni>> \o ToJavaBase64Value \o <<Jni>>
KeyGenerationResult  == KeyVecToJavaList \o KeyVecToJavaList \o <<Jni>>
KeyMapToResult       == <<Jni, Jni>> \o ToJavaBase64Value \o <<Jni>>

\* session_ordering_to_jobject(..).map_err(throw_conversion_error)
SessionOrdering == <<Throwing("jni", Conversion)>>

(***************************************************************************)
(* Shapes that several methods share: a handle's constant is read, a       *)
(* pickle is written or read.                                              *)
(***************************************************************************)
Getter(Out)        == <<CheckPtr, Read>> \o Out
PickleOf           == <<CheckPtr, Read>> \o JsonToJString
EncryptedPickleOf  == <<CheckPtr>> \o Wrap \o <<Read>> \o StringToJString
PickleLegacyOf     == <<CheckPtr>> \o Wrap \o <<ReadOr(Pickle)>>
                        \o StringToJString
Unpickled(C)       == <<Jni>> \o FromJson \o <<BoxToJlong(C)>>
EncryptedUnpickled(C) == <<Jni>> \o Wrap \o <<Reject(Pickle), BoxToJlong(C)>>
UnpickledLegacy(C) == <<Jni, Jni, Reject(Pickle), BoxToJlong(C)>>

(***************************************************************************)
(* account.rs                                                              *)
(***************************************************************************)
Account_nativeNew           == <<BoxToJlong("Account")>>
Account_nativeIdentityKeys  == Getter(ToJavaIdentityKeys)
Account_nativeCurve25519Key == Getter(ToJavaBase64Value)
Account_nativeEd25519Key    == Getter(ToJavaBase64Value)
Account_nativeMaxNumberOfOneTimeKeys  == Getter(<<Reject(Conversion)>>)
Account_nativeStoredOneTimeKeyCount   == Getter(<<Reject(Conversion)>>)
Account_nativeCreateOutboundSession ==
  <<CheckPtr>> \o SessionConfig \o Decoded(Key) \o Decoded(Key)
    \o <<ReadOr(Creation), RawBoxNew("OlmSession"), NewObject, Leak>>
\* Mutant: the box is leaked before the result object exists.
CreateInboundLeaksEarly ==
  <<CheckPtr>> \o SessionConfig \o Decoded(Key) \o Decoded(Creation)
    \o <<Reject(Creation), AdvanceOr(Creation), RawBoxNew("OlmSession"),
         Leak, Jni, NewObject>>
\* A message that is no pre-key message is rejected, too.
Account_nativeCreateInboundSession ==
  <<CheckPtr>> \o SessionConfig \o Decoded(Key) \o Decoded(Creation)
    \o <<Reject(Creation), AdvanceOr(Creation), RawBoxNew("OlmSession"),
         Jni, NewObject, Leak>>
\* A negative count, then zero or a count over the limit.
Account_nativeGenerateOneTimeKeys ==
  <<CheckPtr, Reject(Conversion), Reject(Conversion), Advance>>
    \o KeyGenerationResult
Account_nativeOneTimeKeys         == Getter(KeyMapToResult)
Account_nativeGenerateFallbackKey ==
  <<CheckPtr, Advance, OrNull>> \o ToJavaBase64Value
Account_nativeFallbackKey         == Getter(KeyMapToResult)
Account_nativeForgetFallbackKey   == <<CheckPtr, Advance>>
Account_nativeMarkKeysAsPublished == <<CheckPtr, Advance>>
Account_nativeSign            == <<CheckPtr, Jni, Read>> \o ToJavaBase64Value
Account_nativePickle          == PickleOf
Account_nativeEncryptedPickle == EncryptedPickleOf
Account_nativePickleLegacy    == PickleLegacyOf
Account_nativeUnpickle          == Unpickled("Account")
Account_nativeEncryptedUnpickle == EncryptedUnpickled("Account")
Account_nativeUnpickleLegacy    == UnpickledLegacy("Account")
Account_nativeFromDehydratedDevice ==
  <<Jni, Jni>> \o Wrap \o <<Reject(Pickle), BoxToJlong("Account")>>
Account_nativeToDehydratedDevice ==
  <<CheckPtr>> \o Wrap \o <<ReadOr(Pickle), Jni, Jni, Jni>>
Account_nativeFree == NativeFree

(***************************************************************************)
(* session.rs                                                              *)
(***************************************************************************)
OlmSession_nativeSessionId          == Getter(StringToJString)
OlmSession_nativeSessionKeys        == Getter(ToJavaSessionKeys)
OlmSession_nativeSessionConfig      == Getter(<<>>)
OlmSession_nativeHasReceivedMessage == Getter(<<>>)
OlmSession_nativeEncrypt ==
  <<CheckPtr, Jni, AdvanceOr(Encryption)>> \o ToJavaOlmMessage
\* Mutant: the message is looked at again after it was decrypted.
DecryptRejectsLate ==
  <<CheckPtr, Jni, AdvanceOr(Decryption), Reject(Decryption), Jni>>
OlmSession_nativeDecrypt ==
  <<CheckPtr>> \o Decoded(Decryption) \o <<AdvanceOr(Decryption), Jni>>
OlmSession_nativePickle            == PickleOf
OlmSession_nativeEncryptedPickle   == EncryptedPickleOf
OlmSession_nativeUnpickle          == Unpickled("OlmSession")
OlmSession_nativeEncryptedUnpickle == EncryptedUnpickled("OlmSession")
OlmSession_nativeUnpickleLegacy    == UnpickledLegacy("OlmSession")
OlmSession_nativeFree              == NativeFree

(***************************************************************************)
(* inbound_group_session.rs, outbound_group_session.rs, message.rs         *)
(***************************************************************************)
InboundGroupSession_nativeNew ==
  SessionConfig \o Decoded(SessionKeyDecode)
    \o <<BoxToJlong("InboundGroupSession")>>
InboundGroupSession_nativeImport ==
  SessionConfig \o Decoded(SessionKeyDecode)
    \o <<BoxToJlong("InboundGroupSession")>>
InboundGroupSession_nativeSessionId       == Getter(StringToJString)
InboundGroupSession_nativeFirstKnownIndex == Getter(<<>>)
InboundGroupSession_nativeDecrypt ==
  <<CheckPtr>> \o Decoded(MessageDecode) \o <<ReadOr(MegolmDecryption)>>
    \o ToJavaDecrypted
InboundGroupSession_nativeExportAt ==
  <<CheckPtr, Reject(Conversion), Read, OrNull>> \o StringToJString
InboundGroupSession_nativeExportAtFirstKnownIndex == Getter(StringToJString)
InboundGroupSession_nativeAdvanceTo ==
  <<CheckPtr, Reject(Conversion), Advance>>
InboundGroupSession_nativeConnected ==
  <<CheckSelf, CheckPtr, CheckOther, Read>>
InboundGroupSession_nativeCompare ==
  <<CheckSelf, CheckPtr, CheckOther, Read>> \o SessionOrdering
\* Mutants: merge without the test for the same object, or without leak().
MergeWithoutSelfCheck ==
  <<CheckPtr, CheckOther, Read, OrNull,
    RawBoxNew("InboundGroupSession"), NewObject, Leak>>
MergeDropsResult ==
  <<CheckSelf, CheckPtr, CheckOther, Read, OrNull,
    RawBoxNew("InboundGroupSession"), NewObject>>
InboundGroupSession_nativeMerge ==
  <<CheckSelf, CheckPtr, CheckOther, Read, OrNull,
    RawBoxNew("InboundGroupSession"), NewObject, Leak>>
InboundGroupSession_nativePickle          == PickleOf
InboundGroupSession_nativeEncryptedPickle == EncryptedPickleOf
InboundGroupSession_nativeUnpickle == Unpickled("InboundGroupSession")
InboundGroupSession_nativeEncryptedUnpickle ==
  EncryptedUnpickled("InboundGroupSession")
InboundGroupSession_nativeUnpickleLegacy ==
  UnpickledLegacy("InboundGroupSession")
InboundGroupSession_nativeFree == NativeFree

OutboundGroupSession_nativeNew ==
  SessionConfig \o <<BoxToJlong("OutboundGroupSession")>>
OutboundGroupSession_nativeSessionId     == Getter(StringToJString)
OutboundGroupSession_nativeMessageIndex  == Getter(<<>>)
OutboundGroupSession_nativeSessionKey    == Getter(StringToJString)
OutboundGroupSession_nativeSessionConfig == Getter(<<>>)
OutboundGroupSession_nativeEncrypt ==
  <<CheckPtr, Jni, Advance>> \o ToJavaMegolmMessage
OutboundGroupSession_nativePickle          == PickleOf
OutboundGroupSession_nativeEncryptedPickle == EncryptedPickleOf
OutboundGroupSession_nativeUnpickle == Unpickled("OutboundGroupSession")
OutboundGroupSession_nativeEncryptedUnpickle ==
  EncryptedUnpickled("OutboundGroupSession")
OutboundGroupSession_nativeUnpickleLegacy ==
  UnpickledLegacy("OutboundGroupSession")
OutboundGroupSession_nativeFree == NativeFree

MegolmMessage_nativeFromBase64 ==
  Decoded(MessageDecode) \o ToJavaMegolmMessage

(***************************************************************************)
(* sas.rs, established_sas.rs                                              *)
(***************************************************************************)
Sas_nativeNew       == <<BoxToJlong("Sas")>>
Sas_nativePublicKey == Getter(StringToJString)
\* Mutant: the box is taken back unchecked.
DiffieHellmanUnchecked ==
  <<FromRaw>> \o Decoded(Key)
    \o <<AdvanceOr(Key), RawBoxNew("EstablishedSas"), NewObject, Leak>>
Sas_nativeDiffieHellman ==
  <<CheckPtr, FromRaw>> \o Decoded(Key)
    \o <<AdvanceOr(Key), RawBoxNew("EstablishedSas"), NewObject, Leak>>
Sas_nativeFree == NativeFree

EstablishedSas_nativeBytes == <<CheckPtr, Jni, Read>> \o ToJavaSasBytes
EstablishedSas_nativeBytesRaw ==
  <<CheckPtr, Jni, Reject(Conversion), ReadOr(Sas)>> \o ToByteArray
EstablishedSas_nativeCalculateMac ==
  <<CheckPtr, Jni, Jni, Read>> \o StringToJString
EstablishedSas_nativeCalculateMacInvalidBase64 ==
  <<CheckPtr, Jni, Jni, Read>> \o StringToJString
EstablishedSas_nativeVerifyMac ==
  <<CheckPtr, Jni, Jni>> \o Decoded(Conversion) \o <<ReadOr(Sas)>>
EstablishedSas_nativeOurPublicKey   == Getter(StringToJString)
EstablishedSas_nativeTheirPublicKey == Getter(StringToJString)
EstablishedSas_nativeFree           == NativeFree

(***************************************************************************)
(* ecies.rs, established_ecies.rs                                          *)
(***************************************************************************)
Ecies_nativeNew       == <<BoxToJlong("Ecies")>>
Ecies_nativeWithInfo  == <<Jni, BoxToJlong("Ecies")>>
Ecies_nativePublicKey == Getter(StringToJString)
\* Both take the box only after the arguments are decoded.
Ecies_nativeEstablishOutboundChannel ==
  <<CheckPtr>> \o Decoded(Key)
    \o <<Jni, FromRaw, AdvanceOr(Ecies), RawBoxNew("EstablishedEcies"), Jni,
         NewObject, Leak>>
Ecies_nativeEstablishInboundChannel ==
  <<CheckPtr>> \o Decoded(Ecies)
    \o <<FromRaw, AdvanceOr(Ecies), RawBoxNew("EstablishedEcies"), Jni,
         NewObject, Leak>>
Ecies_nativeFree == NativeFree

EstablishedEcies_nativePublicKey == Getter(StringToJString)
EstablishedEcies_nativeCheckCode == Getter(ToJavaCheckCode)
EstablishedEcies_nativeEncrypt ==
  <<CheckPtr, Jni, Advance>> \o StringToJString
EstablishedEcies_nativeDecrypt ==
  <<CheckPtr>> \o Decoded(Ecies) \o <<AdvanceOr(Ecies), Jni>>
EstablishedEcies_nativeFree == NativeFree

(***************************************************************************)
(* encryption.rs, decryption.rs                                            *)
(***************************************************************************)
PkEncryption_nativeFromKey == Decoded(Key) \o <<BoxToJlong("PkEncryption")>>
PkEncryption_nativeEncrypt ==
  <<CheckPtr, Jni, ReadOr(Encryption)>> \o ToJavaPkMessage
PkEncryption_nativeFree    == NativeFree

PkDecryption_nativeNew     == <<BoxToJlong("PkDecryption")>>
\* base64_decode, then 32 bytes.
PkDecryption_nativeFromKey ==
  Decoded(Conversion) \o <<Reject(Conversion), BoxToJlong("PkDecryption")>>
PkDecryption_nativeSecretKey == Getter(StringToJString)
PkDecryption_nativePublicKey == Getter(StringToJString)
PkDecryption_nativeDecrypt ==
  <<CheckPtr>> \o Decoded(Conversion) \o Decoded(Conversion) \o Decoded(Key)
    \o <<ReadOr(Decryption), Jni>>
PkDecryption_nativeUnpickleLegacy == UnpickledLegacy("PkDecryption")
PkDecryption_nativePickleLegacy   == PickleLegacyOf
PkDecryption_nativeFree           == NativeFree

(***************************************************************************)
(* keypair.rs, types/mod.rs, utils/mod.rs                                  *)
(***************************************************************************)
Ed25519KeyPair_nativeNew       == <<BoxToJlong("Ed25519KeyPair")>>
Ed25519KeyPair_nativePublicKey == Getter(ToJavaBase64Value)
Ed25519KeyPair_nativeSign      == <<CheckPtr, Jni, Read>> \o ToJavaBase64Value
Ed25519KeyPair_nativePickle    == PickleOf
\* The argument is read with to_string(), which reports no JNI error.
Ed25519KeyPair_nativeUnpickle  == FromJson \o <<BoxToJlong("Ed25519KeyPair")>>
Ed25519KeyPair_nativeFree      == NativeFree

Ed25519PublicKey_nativeValidate == Decoded(Key)
\* A signature that does not verify is the value false.
Ed25519PublicKey_nativeVerify ==
  <<Jni, Jni, Jni, Reject(Key), Reject(Signature)>>
\* let _ = .. map_err(|e| throw_..): no `?'.
Ed25519Signature_nativeValidate    == <<Jni, Note(Signature)>>
Curve25519PublicKey_nativeValidate == <<Jni, Note(Key)>>

Vodozemac_nativeBase64Encode == <<Jni>> \o StringToJString
Vodozemac_nativeBase64Decode == Decoded(Conversion) \o <<Jni>>
Vodozemac_nativeVersion      == <<Jni>>

(***************************************************************************)
(* The exported functions of each Java class, and the method of each.      *)
(***************************************************************************)
AccountNatives == [
  nativeNew |-> Account_nativeNew,
  nativeIdentityKeys |-> Account_nativeIdentityKeys,
  nativeCurve25519Key |-> Account_nativeCurve25519Key,
  nativeEd25519Key |-> Account_nativeEd25519Key,
  nativeMaxNumberOfOneTimeKeys |-> Account_nativeMaxNumberOfOneTimeKeys,
  nativeCreateOutboundSession |-> Account_nativeCreateOutboundSession,
  nativeCreateInboundSession |-> Account_nativeCreateInboundSession,
  nativeStoredOneTimeKeyCount |-> Account_nativeStoredOneTimeKeyCount,
  nativeGenerateOneTimeKeys |-> Account_nativeGenerateOneTimeKeys,
  nativeOneTimeKeys |-> Account_nativeOneTimeKeys,
  nativeGenerateFallbackKey |-> Account_nativeGenerateFallbackKey,
  nativeFallbackKey |-> Account_nativeFallbackKey,
  nativeForgetFallbackKey |-> Account_nativeForgetFallbackKey,
  nativeMarkKeysAsPublished |-> Account_nativeMarkKeysAsPublished,
  nativeSign |-> Account_nativeSign,
  nativePickle |-> Account_nativePickle,
  nativeEncryptedPickle |-> Account_nativeEncryptedPickle,
  nativePickleLegacy |-> Account_nativePickleLegacy,
  nativeUnpickle |-> Account_nativeUnpickle,
  nativeEncryptedUnpickle |-> Account_nativeEncryptedUnpickle,
  nativeUnpickleLegacy |-> Account_nativeUnpickleLegacy,
  nativeFromDehydratedDevice |-> Account_nativeFromDehydratedDevice,
  nativeToDehydratedDevice |-> Account_nativeToDehydratedDevice,
  nativeFree |-> Account_nativeFree]

OlmSessionNatives == [
  nativeFree |-> OlmSession_nativeFree,
  nativeSessionId |-> OlmSession_nativeSessionId,
  nativeSessionKeys |-> OlmSession_nativeSessionKeys,
  nativeSessionConfig |-> OlmSession_nativeSessionConfig,
  nativeHasReceivedMessage |-> OlmSession_nativeHasReceivedMessage,
  nativeEncrypt |-> OlmSession_nativeEncrypt,
  nativeDecrypt |-> OlmSession_nativeDecrypt,
  nativePickle |-> OlmSession_nativePickle,
  nativeEncryptedPickle |-> OlmSession_nativeEncryptedPickle,
  nativeUnpickle |-> OlmSession_nativeUnpickle,
  nativeEncryptedUnpickle |-> OlmSession_nativeEncryptedUnpickle,
  nativeUnpickleLegacy |-> OlmSession_nativeUnpickleLegacy]

InboundGroupSessionNatives == [
  nativeNew |-> InboundGroupSession_nativeNew,
  nativeSessionId |-> InboundGroupSession_nativeSessionId,
  nativeFirstKnownIndex |-> InboundGroupSession_nativeFirstKnownIndex,
  nativeDecrypt |-> InboundGroupSession_nativeDecrypt,
  nativePickle |-> InboundGroupSession_nativePickle,
  nativeEncryptedPickle |-> InboundGroupSession_nativeEncryptedPickle,
  nativeExportAt |-> InboundGroupSession_nativeExportAt,
  nativeExportAtFirstKnownIndex |->
    InboundGroupSession_nativeExportAtFirstKnownIndex,
  nativeAdvanceTo |-> InboundGroupSession_nativeAdvanceTo,
  nativeConnected |-> InboundGroupSession_nativeConnected,
  nativeCompare |-> InboundGroupSession_nativeCompare,
  nativeMerge |-> InboundGroupSession_nativeMerge,
  nativeFree |-> InboundGroupSession_nativeFree,
  nativeUnpickle |-> InboundGroupSession_nativeUnpickle,
  nativeEncryptedUnpickle |-> InboundGroupSession_nativeEncryptedUnpickle,
  nativeUnpickleLegacy |-> InboundGroupSession_nativeUnpickleLegacy,
  nativeImport |-> InboundGroupSession_nativeImport]

OutboundGroupSessionNatives == [
  nativeNew |-> OutboundGroupSession_nativeNew,
  nativeSessionId |-> OutboundGroupSession_nativeSessionId,
  nativeMessageIndex |-> OutboundGroupSession_nativeMessageIndex,
  nativeSessionKey |-> OutboundGroupSession_nativeSessionKey,
  nativeSessionConfig |-> OutboundGroupSession_nativeSessionConfig,
  nativeEncrypt |-> OutboundGroupSession_nativeEncrypt,
  nativePickle |-> OutboundGroupSession_nativePickle,
  nativeEncryptedPickle |-> OutboundGroupSession_nativeEncryptedPickle,
  nativeUnpickle |-> OutboundGroupSession_nativeUnpickle,
  nativeEncryptedUnpickle |->
    OutboundGroupSession_nativeEncryptedUnpickle,
  nativeUnpickleLegacy |-> OutboundGroupSession_nativeUnpickleLegacy,
  nativeFree |-> OutboundGroupSession_nativeFree]

MegolmMessageNatives == [
  nativeFromBase64 |-> MegolmMessage_nativeFromBase64]

SasNatives == [
  nativeNew |-> Sas_nativeNew,
  nativePublicKey |-> Sas_nativePublicKey,
  nativeDiffieHellman |-> Sas_nativeDiffieHellman,
  nativeFree |-> Sas_nativeFree]

EstablishedSasNatives == [
  nativeBytes |-> EstablishedSas_nativeBytes,
  nativeBytesRaw |-> EstablishedSas_nativeBytesRaw,
  nativeCalculateMac |-> EstablishedSas_nativeCalculateMac,
  nativeCalculateMacInvalidBase64 |->
    EstablishedSas_nativeCalculateMacInvalidBase64,
  nativeVerifyMac |-> EstablishedSas_nativeVerifyMac,
  nativeOurPublicKey |-> EstablishedSas_nativeOurPublicKey,
  nativeTheirPublicKey |-> EstablishedSas_nativeTheirPublicKey,
  nativeFree |-> EstablishedSas_nativeFree]

EciesNatives == [
  nativeNew |-> Ecies_nativeNew,
  nativeWithInfo |-> Ecies_nativeWithInfo,
  nativePublicKey |-> Ecies_nativePublicKey,
  nativeEstablishOutboundChannel |-> Ecies_nativeEstablishOutboundChannel,
  nativeEstablishInboundChannel |-> Ecies_nativeEstablishInboundChannel,
  nativeFree |-> Ecies_nativeFree]

EstablishedEciesNatives == [
  nativePublicKey |-> EstablishedEcies_nativePublicKey,
  nativeCheckCode |-> EstablishedEcies_nativeCheckCode,
  nativeEncrypt |-> EstablishedEcies_nativeEncrypt,
  nativeDecrypt |-> EstablishedEcies_nativeDecrypt,
  nativeFree |-> EstablishedEcies_nativeFree]

PkEncryptionNatives == [
  nativeFromKey |-> PkEncryption_nativeFromKey,
  nativeEncrypt |-> PkEncryption_nativeEncrypt,
  nativeFree |-> PkEncryption_nativeFree]

PkDecryptionNatives == [
  nativeNew |-> PkDecryption_nativeNew,
  nativeFromKey |-> PkDecryption_nativeFromKey,
  nativeSecretKey |-> PkDecryption_nativeSecretKey,
  nativePublicKey |-> PkDecryption_nativePublicKey,
  nativeDecrypt |-> PkDecryption_nativeDecrypt,
  nativeUnpickleLegacy |-> PkDecryption_nativeUnpickleLegacy,
  nativePickleLegacy |-> PkDecryption_nativePickleLegacy,
  nativeFree |-> PkDecryption_nativeFree]

Ed25519KeyPairNatives == [
  nativeNew |-> Ed25519KeyPair_nativeNew,
  nativePublicKey |-> Ed25519KeyPair_nativePublicKey,
  nativeSign |-> Ed25519KeyPair_nativeSign,
  nativeFree |-> Ed25519KeyPair_nativeFree,
  nativePickle |-> Ed25519KeyPair_nativePickle,
  nativeUnpickle |-> Ed25519KeyPair_nativeUnpickle]

Ed25519PublicKeyNatives == [
  nativeValidate |-> Ed25519PublicKey_nativeValidate,
  nativeVerify |-> Ed25519PublicKey_nativeVerify]

Ed25519SignatureNatives == [
  nativeValidate |-> Ed25519Signature_nativeValidate]

Curve25519PublicKeyNatives == [
  nativeValidate |-> Curve25519PublicKey_nativeValidate]

VodozemacNatives == [
  nativeBase64Encode |-> Vodozemac_nativeBase64Encode,
  nativeBase64Decode |-> Vodozemac_nativeBase64Decode,
  nativeVersion |-> Vodozemac_nativeVersion]

Natives == [
  Account |-> AccountNatives,
  OlmSession |-> OlmSessionNatives,
  InboundGroupSession |-> InboundGroupSessionNatives,
  OutboundGroupSession |-> OutboundGroupSessionNatives,
  MegolmMessage |-> MegolmMessageNatives,
  Sas |-> SasNatives,
  EstablishedSas |-> EstablishedSasNatives,
  Ecies |-> EciesNatives,
  EstablishedEcies |-> EstablishedEciesNatives,
  PkEncryption |-> PkEncryptionNatives,
  PkDecryption |-> PkDecryptionNatives,
  Ed25519KeyPair |-> Ed25519KeyPairNatives,
  Ed25519PublicKey |-> Ed25519PublicKeyNatives,
  Ed25519Signature |-> Ed25519SignatureNatives,
  Curve25519PublicKey |-> Curve25519PublicKeyNatives,
  Vodozemac |-> VodozemacNatives]
=============================================================================
