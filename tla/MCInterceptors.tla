---------------------------- MODULE MCInterceptors ----------------------------
\* Small instances of Interceptors for TLC.
EXTENDS Interceptors

CONSTANTS r1, page, api

=============================================================================
