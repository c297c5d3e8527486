-------------------------- MODULE MCLsapiDispatch --------------------------
EXTENDS LsapiDispatch

MCMixes == {<<a, b>> : a \in {"get", "post", "streamed", "buffered", "preread"},
                       b \in {"get", "preread"}}
=============================================================================
