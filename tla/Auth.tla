--------------------------------- MODULE Auth ---------------------------------
(***************************************************************************)
(* The namespace of a caller (auth.Service.Namespace): a function of the   *)
(* policy of the server and of the token in the context of the call.       *)
(*                                                                         *)
(* verifierService is never set, so the branch that verifies claims is not *)
(* part of the program.  md5.Sum is taken to be injective, and a claim is  *)
(* taken not to be spelled like a digest or like the shared namespace.     *)
(***************************************************************************)
CONSTANTS
  Credential,  \* what a token can be: its value, with or without a "Bearer "
               \* prefix, and the claims a JWT parser finds in it, if any
  Text,        \* values of tokens, e-mail addresses, subjects
  Absent       \* no token, no such claim, no namespace

ASSUME AuthAssumption ==
  /\ Credential \subseteq [bearer: BOOLEAN, value: Text,
                           email: Text \cup {Absent}, sub: Text \cup {Absent}]
  /\ Absent \notin Text /\ Absent \notin Credential
  /\ \A c, d \in Credential : c.value = d.value => c.email = d.email /\ c.sub = d.sub

\* Oauth2Config # nil, and RequireIdentityToken, which counts only with the former.
Policy == {p \in [oauth: BOOLEAN, idToken: BOOLEAN] : p.idToken => p.oauth}

DefaultNs == <<"default">>

\* Fault: the digest is taken before the prefix is removed.
DigestOfRaw(cr) == <<"md5", cr.bearer, cr.value>>

\* fmt.Sprintf("%x", md5.Sum(...)) of the token without its prefix.
Digest(cr) == <<"md5", cr.value>>

\* unsafeSubjectOrEmail.
SubjectOrEmail(cr) == IF cr.email # Absent THEN cr.email ELSE cr.sub

\* Service.Namespace; Absent stands for its error.
NamespaceOf(policy, cr) ==
  IF ~policy.oauth THEN DefaultNs
  ELSE IF cr = Absent THEN Absent
  ELSE IF ~policy.idToken THEN Digest(cr)
  ELSE IF SubjectOrEmail(cr) # Absent THEN <<"claim", SubjectOrEmail(cr)>>
  ELSE Digest(cr)

DerivedNs ==
  {NamespaceOf(p, cr) : p \in Policy, cr \in Credential \cup {Absent}} \ {Absent}
=============================================================================
