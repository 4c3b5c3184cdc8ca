----------------------------- MODULE Configuration -----------------------------
(***************************************************************************)
(* What config.MustLoad, storage.New and mailer.New make of the            *)
(* environment.  A variable of the environment is a word and the way it is *)
(* written; getEnv trims it, some readers lower its case.                  *)
(***************************************************************************)
EXTENDS Integers

CONSTANTS
  Settings,           \* the environments main may be started in
  MaxInt64, Megabyte  \* bound: the largest int64, and the bytes of a megabyte

Unset == [word |-> "", form |-> "plain"]

\* pool is <<DB_MAX_OPEN_CONNS, DB_MAX_IDLE_CONNS>>; account, all of Cloudinary's
\* credentials; host, SMTP_HOST.
Texts == {"environment", "cookieSecure", "sameSite", "secret", "mail", "publicURL",
          "frontendURL", "storage", "account", "host"}
Fields == Texts \cup {"pool", "limit", "authLimit", "port", "imageMB"}
Written(v) ==
  v = [word |-> v.word, form |-> v.form] /\ v.form \in {"plain", "padded", "upper", "blank"}

ASSUME ConfigurationAssumption ==
  /\ MaxInt64 \in Nat /\ Megabyte \in Nat \ {0}
  /\ \A e \in Settings :
       /\ DOMAIN e = Fields
       /\ \A f \in Texts : Written(e[f])
       /\ e.pool \in Int \X Int
       /\ {e.limit, e.authLimit, e.port, e.imageMB} \subseteq (-MaxInt64 - 1)..MaxInt64

-----------------------------------------------------------------------------
(* Reading the environment *)

\* strings.TrimSpace; a variable of blanks only is as good as unset.
TrimSpace(v) ==
  IF v.form = "blank" THEN Unset
  ELSE IF v.form = "padded" THEN [v EXCEPT !.form = "plain"] ELSE v
ToLower(v) == IF v.form = "upper" THEN [v EXCEPT !.form = "plain"] ELSE v

GetEnv(v, fallback) == IF TrimSpace(v) = Unset THEN fallback ELSE TrimSpace(v)
Word(w) == [word |-> w, form |-> "plain"]

Environment(e) == GetEnv(e.environment, Word("development"))
Production(e) == Environment(e) = Word("production")

\* mustBool: "true" and "false" stand for all that strconv.ParseBool knows; any other
\* word is a panic (ParsesBool).
Boolean(v, fallback) ==
  IF TrimSpace(v) = Unset THEN fallback ELSE TrimSpace(v).word = "true"
ParsesBool(v) == TrimSpace(v).word \in {"", "true", "false"}

CookieSecure(e) == Boolean(e.cookieSecure, Production(e))
SameSite(e) == ToLower(GetEnv(e.sameSite, Word("lax")))

MailProvider(e) == ToLower(GetEnv(e.mail, Word("log")))
StorageProvider(e) == ToLower(GetEnv(e.storage, Word("local")))

\* mustEnv trims the secret.
Secret(e) == TrimSpace(e.secret).word

\* int64 arithmetic.
MinInt64 == -MaxInt64 - 1
Wrap(n) == ((n - MinInt64) % (2 * (MaxInt64 + 1))) + MinInt64
MaxImageBytes(e) == Wrap(e.imageMB * Megabyte)

-----------------------------------------------------------------------------
(* MustLoad's checks *)

Required(e) == Secret(e) # "" /\ ParsesBool(e.cookieSecure)

\* len(secret) < 32.
LongSecret(e) == Secret(e) # "short"

PoolSizes(e) == e.pool[1] >= 1 /\ e.pool[2] >= 0 /\ e.pool[2] <= e.pool[1]

\* Mutant: the product is not checked.
Numbers_ImageUnchecked(e) ==
  /\ PoolSizes(e)
  /\ e.limit >= 1 /\ e.authLimit >= 1
  /\ e.port >= 1 /\ e.port <= 65535
Numbers(e) ==
  /\ PoolSizes(e)
  /\ e.limit >= 1 /\ e.authLimit >= 1
  /\ MaxImageBytes(e) >= 1
  /\ e.port >= 1 /\ e.port <= 65535

CookieRules(e) ==
  /\ SameSite(e) \in {Word("lax"), Word("strict"), Word("none")}
  /\ SameSite(e) = Word("none") => CookieSecure(e)

\* strings.Contains(secret, "replace-this").
PlaceholderSecret(e) == Secret(e) = "replace-this..."

\* strings.HasPrefix: the word is what the address starts with.
HTTPS(v) == GetEnv(v, Word("http://")) = Word("https://")

\* Mutant: the frontend's address is not looked at.
ProductionRules_PublicOnly(e) ==
  /\ CookieSecure(e) /\ ~PlaceholderSecret(e)
  /\ MailProvider(e) # Word("log") /\ HTTPS(e.publicURL)
ProductionRules(e) ==
  /\ CookieSecure(e)
  /\ ~PlaceholderSecret(e)
  /\ MailProvider(e) # Word("log")
  /\ HTTPS(e.publicURL) /\ HTTPS(e.frontendURL)

Acceptable(e) ==
  /\ Required(e) /\ LongSecret(e) /\ Numbers(e) /\ CookieRules(e)
  /\ Production(e) => ProductionRules(e)

-----------------------------------------------------------------------------
(* Providers.  Cloudinary's credentials and SMTP_HOST are not trimmed. *)

StorageBuilt(e) ==
  \/ StorageProvider(e) = Word("local")
  \/ StorageProvider(e) = Word("cloudinary") /\ e.account # Unset

MailerBuilt(e) ==
  \/ MailProvider(e) = Word("log")
  \/ MailProvider(e) = Word("smtp") /\ e.host # Unset

Built(e) == StorageBuilt(e) /\ MailerBuilt(e)
=============================================================================
