------------------------- MODULE MCProviderStreams -------------------------
(* One client of each kind of wire; a mock sends two items.                *)
EXTENDS ProviderStreams

MCProviders == {"deepseek", "anthropic", "mock_llm", "dashscope_tts", "doubao_tts", "minimax_tts",
                "mock_tts", "dashscope_asr", "doubao_asr", "mock_asr"}
MCMockItems == <<1, 2>>
=============================================================================
