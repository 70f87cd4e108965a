--------------------------- MODULE MCRestGateway ----------------------------
EXTENDS RestGateway

=============================================================================
